----------------------------- MODULE BookingsProofs ---------------------------
(***************************************************************************)
(* Routes and rates, and bookings beside changes of routes, rates and      *)
(* accounts, for any number of each and of overlapping requests: types,    *)
(* routes that stay priced, one active rate per route where changes do not *)
(* overlap, unique tracking numbers, prices of the right route, agents     *)
(* that were approved.                                                     *)
(***************************************************************************)
EXTENDS BookingsShop, AccountsProofs, FreshShipmentProofs

-------------------------------------------------------------------------------
(* Routes and rates on their own (RoutesSpec).                             *)

\* What every step preserves.
RoutesInv == RoutesTypeOK /\ ReplacementsInFlight /\ PricedStaysPriced

-------------------------------------------------------------------------------
(* The history of rates.                                                   *)

\* A history is a function on an interval.
LEMMA HistoryIs ==
  ASSUME RoutesTypeOK
  PROVE  /\ Len(rate) \in Nat
         /\ DOMAIN rate = 1 .. Len(rate)
         /\ \A i \in DOMAIN rate : rate[i] \in RateRow
         /\ DOMAIN rate \subseteq 1 .. MaxRates
<1>1. Len(rate) \in Nat /\ DOMAIN rate = 1 .. Len(rate)
  BY DEF RoutesTypeOK
<1>2. \A i \in DOMAIN rate : rate[i] \in RateRow
  BY DEF RoutesTypeOK
<1>3. DOMAIN rate \subseteq 1 .. MaxRates
  BY <1>1, SeedAssumption DEF SeedAssumption, RoutesTypeOK
<1>4. QED
  BY <1>1, <1>2, <1>3

\* Deactivating keeps every rate at its place, and changes its mark alone.
LEMMA ReplacedIs ==
  ASSUME RoutesTypeOK, NEW a
  PROVE  /\ Replaced(a) \in Seq(RateRow)
         /\ Len(Replaced(a)) = Len(rate)
         /\ \A i \in 1 .. Len(rate) :
              /\ Replaced(a)[i].route = rate[i].route
              /\ Replaced(a)[i].terms = rate[i].terms
              /\ i \notin admin[a].replaced =>
                   Replaced(a)[i].isActive = rate[i].isActive
              /\ i \in admin[a].replaced => ~Replaced(a)[i].isActive
<1>1. /\ Len(rate) \in Nat
      /\ DOMAIN rate = 1 .. Len(rate)
      /\ \A i \in 1 .. Len(rate) : rate[i] \in RateRow
  BY HistoryIs
<1> DEFINE mark(i) == rate[i].isActive /\ i \notin admin[a].replaced
           row(i)  == [rate[i] EXCEPT !.isActive = mark(i)]
<1>2. ASSUME NEW i \in 1 .. Len(rate)
      PROVE  /\ row(i) \in RateRow
             /\ row(i).route = rate[i].route
             /\ row(i).terms = rate[i].terms
             /\ row(i).isActive = mark(i)
  <2>1. mark(i) \in BOOLEAN
    OBVIOUS
  <2>2. rate[i] \in RateRow
    BY <1>1
  <2> HIDE DEF mark
  <2>3. QED
    BY <2>1, <2>2 DEF RateRow
<1>3. Replaced(a) = [i \in 1 .. Len(rate) |-> row(i)]
  BY <1>1 DEF Replaced
<1>4. ASSUME NEW i \in 1 .. Len(rate), i \notin admin[a].replaced
      PROVE  mark(i) = rate[i].isActive
  <2>1. rate[i].isActive \in BOOLEAN
    BY <1>1 DEF RateRow
  <2>2. QED
    BY <2>1, <1>4
<1>5. ASSUME NEW i \in 1 .. Len(rate), i \in admin[a].replaced
      PROVE  ~mark(i)
  BY <1>5
<1> HIDE DEF row, mark
<1>6. Replaced(a) \in [1 .. Len(rate) -> RateRow]
  BY <1>2, <1>3
<1>7. Replaced(a) \in Seq(RateRow) /\ Len(Replaced(a)) = Len(rate)
  BY <1>1, <1>6
<1>8. QED
  BY <1>2, <1>3, <1>4, <1>5, <1>7

\* The commit of a change of a rate: the history keeps what it has, with the
\* replaced rates deactivated, and gets one active rate more.
LEMMA CommitIs ==
  ASSUME RoutesTypeOK, NEW a \in Admins, SetRateCommit(a)
  PROVE  /\ rate' \in Seq(RateRow)
         /\ Len(rate') = Len(rate) + 1
         /\ Len(rate') <= MaxRates
         /\ \A i \in 1 .. Len(rate) :
              /\ rate'[i].route = rate[i].route
              /\ rate'[i].terms = rate[i].terms
              /\ i \notin admin[a].replaced =>
                   rate'[i].isActive = rate[i].isActive
              /\ i \in admin[a].replaced => ~rate'[i].isActive
         /\ rate'[Len(rate) + 1] = [route |-> admin[a].route,
                                    terms |-> admin[a].terms, isActive |-> TRUE]
<1> DEFINE new == [route |-> admin[a].route, terms |-> admin[a].terms,
                   isActive |-> TRUE]
<1>1. admin[a].route \in Routes /\ admin[a].terms \in Offers
  BY DEF SetRateCommit, RoutesTypeOK, AdminState
<1>2. new \in RateRow
  BY <1>1 DEF RateRow
<1>3. rate' = Append(Replaced(a), new)
  BY DEF SetRateCommit
<1> HIDE DEF new
<1>4. /\ Replaced(a) \in Seq(RateRow)
      /\ Len(Replaced(a)) = Len(rate)
      /\ Len(rate) \in Nat
  BY ReplacedIs, HistoryIs
<1>5. /\ rate' \in Seq(RateRow)
      /\ Len(rate') = Len(rate) + 1
      /\ \A i \in 1 .. Len(rate) : rate'[i] = Replaced(a)[i]
      /\ rate'[Len(rate) + 1] = new
  BY <1>2, <1>3, <1>4
<1>6. Len(rate') <= MaxRates
  BY <1>4, <1>5, SeedAssumption DEF SetRateCommit, SeedAssumption
<1>7. QED
  BY <1>5, <1>6, ReplacedIs DEF new

-------------------------------------------------------------------------------
(* Types.                                                                  *)

\* The seed names a route and an offer at every place.
LEMMA SeedIs ==
  /\ Len(Seed) \in Nat
  /\ DOMAIN Seed = 1 .. Len(Seed)
  /\ \A i \in DOMAIN Seed : Seed[i].route \in Routes /\ Seed[i].terms \in Offers
<1> DEFINE SeedRow == [route : Routes, isActive : BOOLEAN, terms : Offers]
<1>1. Seed \in Seq(SeedRow)
  BY SeedAssumption DEF SeedAssumption
<1> HIDE DEF SeedRow
<1>2. Len(Seed) \in Nat /\ DOMAIN Seed = 1 .. Len(Seed)
  BY <1>1
<1>3. \A i \in DOMAIN Seed : Seed[i] \in SeedRow
  BY <1>1
<1>4. \A row \in SeedRow : row.route \in Routes /\ row.terms \in Offers
  BY DEF SeedRow
<1>5. QED
  BY <1>2, <1>3, <1>4

\* The seed, or an empty database.
LEMMA SeededIs ==
  ASSUME RoutesInit
  PROVE  /\ rate \in Seq(RateRow)
         /\ Len(rate) <= MaxRates
         /\ \A i \in DOMAIN rate : rate[i].isActive
<1>1. /\ Len(Seed) \in Nat
      /\ DOMAIN Seed = 1 .. Len(Seed)
      /\ \A i \in 1 .. Len(Seed) : Seed[i].route \in Routes /\ Seed[i].terms \in Offers
  BY SeedIs
<1> DEFINE row(i) == [route |-> Seed[i].route, terms |-> Seed[i].terms,
                      isActive |-> TRUE]
<1>2. ASSUME NEW i \in 1 .. Len(Seed)
      PROVE  row(i) \in RateRow /\ row(i).isActive
  BY <1>1 DEF RateRow
<1>3. rate = [i \in 1 .. Len(Seed) |-> row(i)]
  BY <1>1 DEF RoutesInit
<1> HIDE DEF row
<1>4. rate \in [1 .. Len(Seed) -> RateRow]
  BY <1>2, <1>3
<1>5. rate \in Seq(RateRow) /\ Len(rate) = Len(Seed)
  BY <1>1, <1>4
<1>6. QED
  BY <1>1, <1>2, <1>3, <1>5, SeedAssumption DEF SeedAssumption

\* The initial state satisfies the invariant.
LEMMA RoutesInitInv ==
  ASSUME RoutesInit
  PROVE  RoutesInv
<1>1. DOMAIN route \subseteq Routes /\ route \in [DOMAIN route -> BOOLEAN]
  <2>1. \A i \in DOMAIN Seed : Seed[i].route \in Routes
    BY SeedIs
  <2>2. DOMAIN route = {Seed[i].route : i \in DOMAIN Seed}
    BY DEF RoutesInit
  <2>3. \A k \in DOMAIN route : route[k] \in BOOLEAN
    BY DEF RoutesInit
  <2>4. route = [k \in DOMAIN route |-> route[k]]
    BY DEF RoutesInit
  <2>5. QED
    BY <2>1, <2>2, <2>3, <2>4
<1>2. rate \in Seq(RateRow) /\ Len(rate) <= MaxRates
  BY SeededIs
<1>3. routeAudit \in RouteAuditRow
  BY DEF RoutesInit, RouteAuditRow
<1>4. admin \in [Admins -> AdminState]
  BY DEF RoutesInit, AdminIdle, AdminState
<1>5. ReplacementsInFlight
  BY DEF RoutesInit, AdminIdle, ReplacementsInFlight
<1>6. PricedStaysPriced
  BY SeededIs DEF PricedStaysPriced, RatesOf, ActiveRates
<1>7. QED
  BY <1>1, <1>2, <1>3, <1>4, <1>5, <1>6 DEF RoutesInv, RoutesTypeOK

\* The two ways a slot changes keep it a slot.
LEMMA AdminSlotType ==
  ASSUME RoutesTypeOK, NEW a \in Admins, NEW plan \in AdminState,
         AdminBegin(a, plan) \/ AdminFinish(a)
                             \/ admin' = [admin EXCEPT ![a] = plan]
  PROVE  admin' \in [Admins -> AdminState]
<1>1. AdminIdle \in AdminState
  BY DEF AdminIdle, AdminState
<1>2. QED
  BY <1>1 DEF RoutesTypeOK, AdminBegin, AdminFinish

\* A change of a rate that has begun fits its slot: what it tells as replaced is
\* nothing or one of the offers.
LEMMA SetRateReadType ==
  ASSUME RoutesTypeOK, NEW a \in Admins, NEW k \in Routes, NEW terms \in Offers,
         SetRateRead(a, k, terms)
  PROVE  admin' \in [Admins -> AdminState]
<1>1. PICK before \in PreviousTerms(k) :
        AdminBegin(a, [op |-> "price", route |-> k, terms |-> terms,
                       before |-> before])
  BY DEF SetRateRead
<1>2. before \in Optional(Offers)
  <2>1. ASSUME NEW i \in ActiveRates(k)
        PROVE  {rate[i].terms} \in Optional(Offers)
    <3>1. rate[i] \in RateRow
      BY HistoryIs DEF ActiveRates, RatesOf
    <3>2. QED
      BY <3>1 DEF RateRow, Optional
  <2>2. {} \in Optional(Offers)
    BY DEF Optional
  <2>3. QED
    BY <2>1, <2>2 DEF PreviousTerms
<1>3. [op |-> "price", route |-> k, terms |-> terms, before |-> before] \in AdminState
  BY <1>2 DEF AdminState
<1>4. QED
  BY <1>1, <1>3, AdminSlotType

\* The same once the transaction has found the rates to deactivate.
LEMMA SetRateDeactivateType ==
  ASSUME RoutesTypeOK, NEW a \in Admins, SetRateDeactivate(a)
  PROVE  admin' \in [Admins -> AdminState]
<1>1. /\ admin[a].route \in Routes
      /\ admin[a].terms \in Offers
      /\ admin[a].before \in Optional(Offers)
  BY DEF SetRateDeactivate, RoutesTypeOK, AdminState
<1>2. ActiveRates(admin[a].route) \subseteq 1 .. MaxRates
  BY HistoryIs DEF ActiveRates, RatesOf
<1>3. [op |-> "replace", route |-> admin[a].route, terms |-> admin[a].terms,
       before |-> admin[a].before, replaced |-> ActiveRates(admin[a].route)]
        \in AdminState
  BY <1>1, <1>2 DEF AdminState
<1>4. QED
  BY <1>3, AdminSlotType DEF SetRateDeactivate

\* Every step keeps the tables tables.
LEMMA RoutesStepType ==
  ASSUME RoutesTypeOK, NEW a \in Admins, AdminStep(a)
  PROVE  RoutesTypeOK'
<1> USE DEF RoutesTypeOK
<1>1. ASSUME NEW k \in Routes, NEW isActive \in BOOLEAN,
             CreateRouteRead(a, k, isActive)
      PROVE  RoutesTypeOK'
  <2>1. [op |-> "create", route |-> k, isActive |-> isActive] \in AdminState
    BY DEF AdminState
  <2>2. admin' \in [Admins -> AdminState]
    BY <1>1, <2>1, AdminSlotType DEF CreateRouteRead
  <2>3. QED
    BY <1>1, <2>2 DEF CreateRouteRead, tables
<1>2. ASSUME NEW k \in Routes, NEW isActive \in Optional(BOOLEAN),
             UpdateRouteRead(a, k, isActive)
      PROVE  RoutesTypeOK'
  <2>1. [op |-> "update", route |-> k, isActive |-> isActive] \in AdminState
    BY DEF AdminState
  <2>2. admin' \in [Admins -> AdminState]
    BY <1>2, <2>1, AdminSlotType DEF UpdateRouteRead
  <2>3. QED
    BY <1>2, <2>2 DEF UpdateRouteRead, tables
<1>3. ASSUME NEW k \in Routes, NEW terms \in Offers, SetRateRead(a, k, terms)
      PROVE  RoutesTypeOK'
  BY <1>3, SetRateReadType DEF SetRateRead, tables
<1>4. ASSUME CreateRouteWrite(a)
      PROVE  RoutesTypeOK'
  <2>1. admin[a].route \in Routes /\ admin[a].isActive \in BOOLEAN
    BY <1>4 DEF CreateRouteWrite, AdminState
  <2>2. admin' \in [Admins -> AdminState]
    BY <1>4, AdminSlotType DEF CreateRouteWrite, AdminState
  <2>3. CASE UNCHANGED tables
    BY <2>2, <2>3 DEF tables
  <2>4. CASE /\ route' = [j \in DOMAIN route \cup {admin[a].route} |->
                            IF j = admin[a].route THEN admin[a].isActive
                                                  ELSE route[j]]
             /\ routeAudit' = [action |-> "ROUTE_CREATED",
                               entity |-> admin[a].route]
             /\ UNCHANGED rate
    <3>1. routeAudit' \in RouteAuditRow
      BY <2>1, <2>4 DEF RouteAuditRow
    <3>2. DOMAIN route' \subseteq Routes /\ route' \in [DOMAIN route' -> BOOLEAN]
      BY <2>1, <2>4
    <3>3. QED
      BY <2>2, <2>4, <3>1, <3>2
  <2>5. QED
    BY <1>4, <2>3, <2>4 DEF CreateRouteWrite
<1>5. ASSUME UpdateRouteWrite(a)
      PROVE  RoutesTypeOK'
  <2>1. admin[a].route \in Routes
    BY <1>5 DEF UpdateRouteWrite, AdminState
  <2>2. admin' \in [Admins -> AdminState]
    BY <1>5, AdminSlotType DEF UpdateRouteWrite, AdminState
  <2>3. routeAudit' \in RouteAuditRow
    BY <1>5, <2>1 DEF UpdateRouteWrite, RouteAuditRow
  <2>4. PICK value \in BOOLEAN : route' = [route EXCEPT ![admin[a].route] = value]
                                 \/ route' = route
    BY <1>5 DEF UpdateRouteWrite
  <2>5. DOMAIN route' \subseteq Routes /\ route' \in [DOMAIN route' -> BOOLEAN]
    BY <2>4
  <2>6. QED
    BY <1>5, <2>2, <2>3, <2>5 DEF UpdateRouteWrite
<1>6. ASSUME SetRateDeactivate(a)
      PROVE  RoutesTypeOK'
  BY <1>6, SetRateDeactivateType DEF SetRateDeactivate, tables
<1>7. ASSUME SetRateCommit(a)
      PROVE  RoutesTypeOK'
  <2>1. /\ admin[a].route \in Routes
        /\ admin[a].terms \in Offers
        /\ admin[a].before \in Optional(Offers)
    BY <1>7 DEF SetRateCommit, AdminState
  <2>2. admin' \in [Admins -> AdminState]
    BY <1>7, AdminSlotType DEF SetRateCommit, AdminState
  <2>3. routeAudit' \in RouteAuditRow
    BY <1>7, <2>1 DEF SetRateCommit, RouteAuditRow
  <2>4. rate' \in Seq(RateRow) /\ Len(rate') <= MaxRates
    BY <1>7, CommitIs
  <2>5. QED
    BY <1>7, <2>2, <2>3, <2>4 DEF SetRateCommit
<1>8. ASSUME AdminFail(a)
      PROVE  RoutesTypeOK'
  <2>1. admin' \in [Admins -> AdminState]
    BY <1>8, AdminSlotType DEF AdminFail, AdminState
  <2>2. QED
    BY <1>8, <2>1 DEF AdminFail, tables
<1>9. QED
  BY <1>1, <1>2, <1>3, <1>4, <1>5, <1>6, <1>7, <1>8 DEF AdminStep

-------------------------------------------------------------------------------
(* The routes' promise.                                                    *)

\* A step that leaves the history alone leaves the prices alone.
LEMMA HistoryUnchanged ==
  ASSUME RoutesInv, rate' = rate
  PROVE  PricedStaysPriced' /\ \A k : RatesOf(k)' = RatesOf(k)
BY DEF RoutesInv, PricedStaysPriced, RatesOf, ActiveRates

\* Every step keeps what changes of rates under way may replace.
LEMMA ReplacementsStep ==
  ASSUME RoutesInv, NEW a \in Admins, AdminStep(a)
  PROVE  ReplacementsInFlight'
<1> USE DEF RoutesInv, RoutesTypeOK
<1>1. ASSUME NEW k
      PROVE  RatesOf(k) \subseteq RatesOf(k)'
  <2>1. CASE rate' = rate
    BY <2>1, HistoryUnchanged
  <2>2. CASE SetRateCommit(a)
    <3>1. DOMAIN rate = 1 .. Len(rate) /\ DOMAIN rate' = 1 .. Len(rate')
      BY <2>2, HistoryIs, CommitIs
    <3>2. Len(rate) \in Nat /\ Len(rate') = Len(rate) + 1
      BY <2>2, HistoryIs, CommitIs
    <3>3. DOMAIN rate \subseteq DOMAIN rate'
      BY <3>1, <3>2
    <3>4. \A i \in DOMAIN rate : rate'[i].route = rate[i].route
      BY <2>2, <3>1, CommitIs
    <3>5. QED
      BY <3>3, <3>4 DEF RatesOf
  <2>3. QED
    BY <2>1, <2>2 DEF AdminStep, CreateRouteRead, UpdateRouteRead, SetRateRead,
       CreateRouteWrite, UpdateRouteWrite, SetRateDeactivate, AdminFail, tables
<1> DEFINE Own(b) == admin[b].op = "replace" =>
                       admin[b].replaced \subseteq RatesOf(admin[b].route)
<1>2. ASSUME NEW b \in Admins, admin'[b] = admin[b]
      PROVE  Own(b)'
  <2> DEFINE k == admin[b].route
  <2>1. CASE admin[b].op = "replace"
    <3>1. admin[b].replaced \subseteq RatesOf(k)
      BY <2>1 DEF ReplacementsInFlight
    <3>2. RatesOf(k) \subseteq {i \in DOMAIN rate' : rate'[i].route = admin[b].route}
      BY <1>1 DEF RatesOf
    <3>3. QED
      BY <1>2, <3>1, <3>2 DEF RatesOf
  <2>2. CASE admin[b].op # "replace"
    BY <1>2, <2>2
  <2>3. QED
    BY <2>1, <2>2
<1>3. ASSUME SetRateDeactivate(a)
      PROVE  Own(a)'
  <2>1. /\ admin'[a].replaced = ActiveRates(admin[a].route)
        /\ admin'[a].route = admin[a].route
        /\ rate' = rate
    BY <1>3 DEF SetRateDeactivate, tables
  <2>2. QED
    BY <2>1 DEF ActiveRates, RatesOf
<1>4. ASSUME ~SetRateDeactivate(a)
      PROVE  Own(a)'
  <2>1. admin'[a].op # "replace" \/ admin'[a] = admin[a]
    <3>1. \/ AdminFinish(a)
          \/ \E k, isActive : CreateRouteRead(a, k, isActive)
          \/ \E k, isActive : UpdateRouteRead(a, k, isActive)
          \/ \E k, terms : SetRateRead(a, k, terms)
      BY <1>4 DEF AdminStep, CreateRouteWrite, UpdateRouteWrite, SetRateCommit,
         AdminFail
    <3>2. CASE AdminFinish(a)
      BY <3>2 DEF AdminFinish, AdminIdle
    <3>3. ASSUME NEW plan, plan.op # "replace", AdminBegin(a, plan)
          PROVE  admin'[a].op # "replace"
      BY <3>3 DEF AdminBegin
    <3>4. CASE \E k, isActive : CreateRouteRead(a, k, isActive)
      BY <3>3, <3>4 DEF CreateRouteRead
    <3>5. CASE \E k, isActive : UpdateRouteRead(a, k, isActive)
      BY <3>3, <3>5 DEF UpdateRouteRead
    <3>6. CASE \E k, terms : SetRateRead(a, k, terms)
      BY <3>3, <3>6 DEF SetRateRead
    <3>7. QED
      BY <3>1, <3>2, <3>4, <3>5, <3>6
  <2>2. QED
    BY <1>2, <2>1
<1>5. ASSUME NEW b \in Admins, b # a
      PROVE  admin'[b] = admin[b]
  BY <1>5 DEF AdminStep, CreateRouteRead, UpdateRouteRead, SetRateRead,
     CreateRouteWrite, UpdateRouteWrite, SetRateDeactivate, SetRateCommit, AdminFail,
     AdminBegin, AdminFinish
<1>6. \A b \in Admins : Own(b)'
  BY <1>2, <1>3, <1>4, <1>5
<1>7. QED
  BY <1>6 DEF ReplacementsInFlight

\* Every step keeps what was priced priced: only a commit touches the history, and
\* it leaves its own route an active rate and other routes the ones they have.
LEMMA PricedStep ==
  ASSUME RoutesInv, NEW a \in Admins, AdminStep(a)
  PROVE  PricedStaysPriced'
<1> USE DEF RoutesInv
<1>1. CASE rate' = rate
  BY <1>1, HistoryUnchanged
<1>2. CASE SetRateCommit(a)
  <2> DEFINE own  == admin[a].route
             last == Len(rate) + 1
  <2>1. /\ Len(rate) \in Nat
        /\ DOMAIN rate = 1 .. Len(rate)
        /\ DOMAIN rate' = 1 .. last
        /\ rate'[last] = [route |-> own, terms |-> admin[a].terms, isActive |-> TRUE]
    <3>1. rate' \in Seq(RateRow) /\ Len(rate') = last
      BY <1>2, CommitIs
    <3>2. DOMAIN rate' = 1 .. last
      BY <3>1
    <3>3. QED
      BY <1>2, <3>2, HistoryIs, CommitIs
  <2>2. ASSUME NEW k \in Routes, RatesOf(k)' # {}
        PROVE  ActiveRates(k)' # {}
    <3>1. CASE k = own
      <4>1. last \in DOMAIN rate'
        BY <2>1
      <4>2. last \in ActiveRates(k)'
        BY <2>1, <3>1, <4>1 DEF ActiveRates, RatesOf
      <4>3. QED
        BY <4>2
    <3>2. CASE k # own
      <4>1. PICK i \in 1 .. last : rate'[i].route = k
        BY <2>1, <2>2 DEF RatesOf
      <4>2. i \in 1 .. Len(rate)
        BY <2>1, <3>2, <4>1
      <4>3. i \in RatesOf(k)
        BY <1>2, <2>1, <4>1, <4>2, CommitIs DEF RatesOf
      <4>4. PICK j \in ActiveRates(k) : TRUE
        BY <4>3 DEF PricedStaysPriced
      <4>5. j \in 1 .. Len(rate) /\ rate[j].route = k /\ rate[j].isActive
        BY <2>1, <4>4 DEF ActiveRates, RatesOf
      <4>6. j \notin admin[a].replaced
        BY <1>2, <3>2, <4>5 DEF ReplacementsInFlight, SetRateCommit, RatesOf
      <4>7. rate'[j].route = k /\ rate'[j].isActive
        BY <1>2, <4>5, <4>6, CommitIs
      <4>8. j \in ActiveRates(k)'
        BY <2>1, <4>5, <4>7 DEF ActiveRates, RatesOf
      <4>9. QED
        BY <4>8
    <3>3. QED
      BY <3>1, <3>2
  <2>3. QED
    BY <2>2 DEF PricedStaysPriced
<1>3. QED
  BY <1>1, <1>2 DEF AdminStep, CreateRouteRead, UpdateRouteRead, SetRateRead,
     CreateRouteWrite, UpdateRouteWrite, SetRateDeactivate, AdminFail, tables

\* Every step of any request preserves the invariant.
LEMMA RoutesStepInv ==
  ASSUME RoutesInv, RoutesNext
  PROVE  RoutesInv'
<1>1. PICK a \in Admins : AdminStep(a)
  BY DEF RoutesNext
<1>2. QED
  BY <1>1, RoutesStepType, ReplacementsStep, PricedStep DEF RoutesInv

\* Stuttering does.
LEMMA RoutesStutterInv ==
  ASSUME RoutesInv, UNCHANGED routeVars
  PROVE  RoutesInv'
BY DEF RoutesInv, routeVars, RoutesTypeOK, ReplacementsInFlight, PricedStaysPriced,
   RatesOf, ActiveRates

\* A rate keeps its route and its terms for ever (no code changes them).
LEMMA TermsStay ==
  ASSUME RoutesInv, RoutesNext, NEW i \in DOMAIN rate
  PROVE  /\ i \in DOMAIN rate'
         /\ rate'[i].route = rate[i].route
         /\ rate'[i].terms = rate[i].terms
<1>1. PICK a \in Admins : AdminStep(a)
  BY DEF RoutesNext
<1>2. CASE rate' = rate
  BY <1>2
<1>3. CASE SetRateCommit(a)
  <2>1. /\ Len(rate) \in Nat
        /\ DOMAIN rate = 1 .. Len(rate)
    BY HistoryIs DEF RoutesInv
  <2>2. rate' \in Seq(RateRow) /\ Len(rate') = Len(rate) + 1
    BY <1>3, CommitIs DEF RoutesInv
  <2>3. DOMAIN rate' = 1 .. Len(rate')
    BY <2>2
  <2>4. i \in 1 .. Len(rate) /\ i \in DOMAIN rate'
    BY <2>1, <2>2, <2>3
  <2>5. \A j \in 1 .. Len(rate) :
          rate'[j].route = rate[j].route /\ rate'[j].terms = rate[j].terms
    BY <1>3, CommitIs DEF RoutesInv
  <2>6. QED
    BY <2>4, <2>5
<1>4. QED
  BY <1>1, <1>2, <1>3 DEF AdminStep, CreateRouteRead, UpdateRouteRead, SetRateRead,
     CreateRouteWrite, UpdateRouteWrite, SetRateDeactivate, AdminFail, tables

-------------------------------------------------------------------------------
(* One active rate per route, where changes of one route do not overlap.   *)

\* No two changes of a rate that are under way are about one route.
OneChangePerRoute ==
  \A a, b \in Admins :
    a # b /\ {admin[a].op, admin[b].op} \subseteq {"price", "replace"} =>
      admin[a].route # admin[b].route

\* What a change of a rate has read is still what the table holds: the terms it
\* will say it replaced, and the rates that it deactivates.
ChangeIsFresh(a) ==
  /\ admin[a].op \in {"price", "replace"} =>
       admin[a].before = {rate[i].terms : i \in ActiveRates(admin[a].route)}
  /\ admin[a].op = "replace" =>
       admin[a].replaced = ActiveRates(admin[a].route)

ChangesAreFresh == \A a \in Admins : ChangeIsFresh(a)

\* What every step preserves as long as no two changes are about one route.
OneActiveInv == OneActiveRate /\ ChangesAreFresh

\* The commit of a fresh change leaves its route the new rate alone, and the other
\* routes the rates they have.
LEMMA FreshCommitIs ==
  ASSUME RoutesInv, NEW a \in Admins, SetRateCommit(a), ChangeIsFresh(a)
  PROVE  \A k :
           /\ k = admin[a].route =>
                \A i, j \in ActiveRates(k)' : i = j
           /\ k # admin[a].route =>
                /\ ActiveRates(k)' = ActiveRates(k)
                /\ \A i \in ActiveRates(k) : rate'[i].terms = rate[i].terms
<1> USE DEF RoutesInv
<1> DEFINE last == Len(rate) + 1
<1>0. PICK own : own = admin[a].route
  OBVIOUS
<1>1. /\ Len(rate) \in Nat
      /\ DOMAIN rate = 1 .. Len(rate)
  BY HistoryIs
<1>2. DOMAIN rate' = 1 .. last
  <2>1. rate' \in Seq(RateRow) /\ Len(rate') = last
    BY CommitIs
  <2>2. QED
    BY <2>1
<1>3. /\ rate'[last].route = own
      /\ rate'[last].isActive
  <2>1. rate'[last] = [route |-> own, terms |-> admin[a].terms, isActive |-> TRUE]
    BY <1>0, CommitIs
  <2>2. QED
    BY <2>1
<1>4. ASSUME NEW i \in 1 .. Len(rate)
      PROVE  /\ rate'[i].route = rate[i].route
             /\ rate'[i].terms = rate[i].terms
             /\ i \notin ActiveRates(own) => rate'[i].isActive = rate[i].isActive
             /\ i \in ActiveRates(own) => ~rate'[i].isActive
  BY <1>0, CommitIs DEF ChangeIsFresh, SetRateCommit
<1>5. ActiveRates(own)' = {i \in 1 .. last : rate'[i].route = own
                                               /\ rate'[i].isActive}
  BY <1>2 DEF ActiveRates, RatesOf
<1>6. ASSUME NEW i \in 1 .. Len(rate), rate'[i].route = own
      PROVE  ~rate'[i].isActive
  <2>1. rate[i].route = own
    BY <1>4, <1>6
  <2>2. CASE rate[i].isActive
    BY <1>1, <1>4, <2>1, <2>2 DEF ActiveRates, RatesOf
  <2>3. CASE ~rate[i].isActive
    <3>1. i \notin ActiveRates(own)
      BY <2>3 DEF ActiveRates
    <3>2. QED
      BY <1>4, <2>3, <3>1
  <2>4. QED
    BY <2>2, <2>3
<1>7. \A i \in 1 .. last : i = last \/ i \in 1 .. Len(rate)
  BY <1>1
<1>9. \A i, j \in ActiveRates(own)' : i = j
  BY <1>5, <1>6, <1>7
<1>10. ASSUME NEW k, k # own
       PROVE  /\ ActiveRates(k)' = ActiveRates(k)
              /\ \A i \in ActiveRates(k) : rate'[i].terms = rate[i].terms
  <2>1. ActiveRates(k)' = {i \in 1 .. last : rate'[i].route = k /\ rate'[i].isActive}
    BY <1>2 DEF ActiveRates, RatesOf
  <2>2. ActiveRates(k) = {i \in 1 .. Len(rate) : rate[i].route = k /\ rate[i].isActive}
    BY <1>1 DEF ActiveRates, RatesOf
  <2>3. ASSUME NEW i \in 1 .. Len(rate), rate[i].route = k
        PROVE  rate'[i].isActive = rate[i].isActive
    <3>1. i \notin ActiveRates(own)
      BY <1>10, <2>3 DEF ActiveRates, RatesOf
    <3>2. QED
      BY <1>4, <3>1
  <2>4. \A i \in 1 .. Len(rate) : i \in 1 .. last
    BY <1>1
  <2>5. ActiveRates(k)' = ActiveRates(k)
    BY <1>3, <1>4, <1>7, <1>10, <2>1, <2>2, <2>3, <2>4
  <2>6. QED
    BY <1>4, <2>2, <2>5
<1>11. QED
  BY <1>0, <1>9, <1>10

\* A change of a rate starts fresh and stays so until it commits.
LEMMA FreshChangeStep ==
  ASSUME RoutesInv, OneChangePerRoute, OneActiveInv,
         NEW a \in Admins, AdminStep(a), NEW b \in Admins
  PROVE  ChangeIsFresh(b)'
<1> USE DEF RoutesInv, RoutesTypeOK
<1>1. ASSUME NEW c \in Admins, c # a
      PROVE  admin'[c] = admin[c]
  BY <1>1 DEF AdminStep, CreateRouteRead, UpdateRouteRead, SetRateRead,
     CreateRouteWrite, UpdateRouteWrite, SetRateDeactivate, SetRateCommit, AdminFail,
     AdminBegin, AdminFinish
<1>2. CASE SetRateCommit(a)
  <2>1. CASE b = a
    <3>1. admin'[b].op = "idle"
      BY <1>2, <2>1 DEF SetRateCommit, AdminFinish, AdminIdle, RoutesTypeOK
    <3>2. QED
      BY <3>1 DEF ChangeIsFresh
  <2>2. CASE b # a /\ admin[b].op \in {"price", "replace"}
    <3>1. PICK k : k = admin[b].route
      OBVIOUS
    <3>2. k # admin[a].route
      BY <1>2, <2>2, <3>1 DEF OneChangePerRoute, SetRateCommit
    <3>3. ChangeIsFresh(a) /\ ChangeIsFresh(b)
      BY DEF OneActiveInv, ChangesAreFresh
    <3>4. /\ ActiveRates(k)' = ActiveRates(k)
          /\ \A i \in ActiveRates(k) : rate'[i].terms = rate[i].terms
      BY <1>2, <3>2, <3>3, FreshCommitIs
    <3>5. admin'[b] = admin[b]
      BY <1>1, <2>2
    <3> DEFINE active == ActiveRates(k)
               kept   == {rate[i].terms : i \in active}
    <3>6. {rate'[i].terms : i \in active} = kept
      BY <3>4
    <3>7. /\ {i \in {j \in DOMAIN rate' : rate'[j].route = k} : rate'[i].isActive}
               = active
          /\ admin[b].before = kept
          /\ admin[b].op = "replace" => admin[b].replaced = active
      BY <2>2, <3>1, <3>3, <3>4 DEF ChangeIsFresh, ActiveRates, RatesOf
    <3> HIDE DEF active, kept
    <3>8. QED
      BY <3>1, <3>5, <3>6, <3>7 DEF ChangeIsFresh, ActiveRates, RatesOf
  <2>3. CASE b # a /\ admin[b].op \notin {"price", "replace"}
    BY <1>1, <2>3 DEF ChangeIsFresh
  <2>4. QED
    BY <2>1, <2>2, <2>3
<1>3. CASE rate' = rate
  <2>1. CASE admin'[b] = admin[b]
    BY <1>3, <2>1 DEF OneActiveInv, ChangesAreFresh, ChangeIsFresh, ActiveRates, RatesOf
  <2>2. CASE admin'[b].op \notin {"price", "replace"}
    BY <2>2 DEF ChangeIsFresh
  <2>3. ASSUME NEW k \in Routes, NEW terms \in Offers, b = a, SetRateRead(a, k, terms)
        PROVE  ChangeIsFresh(b)'
    <3>1. PICK before \in PreviousTerms(k) :
            AdminBegin(a, [op |-> "price", route |-> k, terms |-> terms,
                           before |-> before])
      BY <2>3 DEF SetRateRead
    <3>2. admin'[b] = [op |-> "price", route |-> k, terms |-> terms,
                       before |-> before]
      BY <2>3, <3>1 DEF AdminBegin, RoutesTypeOK
    <3>3. before = {rate[i].terms : i \in ActiveRates(k)}
      <4>1. \A i, j \in ActiveRates(k) : i = j
        BY DEF OneActiveInv, OneActiveRate
      <4>2. CASE ActiveRates(k) = {}
        BY <4>2 DEF PreviousTerms
      <4>3. CASE ActiveRates(k) # {}
        BY <4>1, <4>3 DEF PreviousTerms
      <4>4. QED
        BY <4>2, <4>3
    <3>4. QED
      BY <1>3, <3>2, <3>3 DEF ChangeIsFresh, ActiveRates, RatesOf
  <2>4. CASE b = a /\ SetRateDeactivate(a)
    <3>1. /\ admin'[b].op = "replace"
          /\ admin'[b].route = admin[b].route
          /\ admin'[b].before = admin[b].before
          /\ admin'[b].replaced = ActiveRates(admin[b].route)
          /\ admin[b].op = "price"
      BY <2>4 DEF SetRateDeactivate, RoutesTypeOK
    <3>2. QED
      BY <1>3, <3>1 DEF OneActiveInv, ChangesAreFresh, ChangeIsFresh, ActiveRates,
         RatesOf
  <2>5. ASSUME b = a, NEW plan, plan.op \notin {"price", "replace"},
               AdminBegin(a, plan)
        PROVE  admin'[b].op \notin {"price", "replace"}
    BY <2>5 DEF AdminBegin, RoutesTypeOK
  <2>6. ASSUME b = a, AdminFinish(a)
        PROVE  admin'[b].op \notin {"price", "replace"}
    BY <2>6 DEF AdminFinish, AdminIdle, RoutesTypeOK
  <2>7. CASE b = a /\ \E k \in Routes, isActive \in BOOLEAN :
                        CreateRouteRead(a, k, isActive)
    BY <2>2, <2>5, <2>7 DEF CreateRouteRead
  <2>8. CASE b = a /\ \E k \in Routes, isActive \in Optional(BOOLEAN) :
                        UpdateRouteRead(a, k, isActive)
    BY <2>2, <2>5, <2>8 DEF UpdateRouteRead
  <2>9. CASE b = a /\ AdminFinish(a)
    BY <2>2, <2>6, <2>9
  <2>10. QED
    BY <1>1, <2>1, <2>3, <2>4, <2>7, <2>8, <2>9
       DEF AdminStep, CreateRouteWrite, UpdateRouteWrite, SetRateCommit, AdminFail
<1>4. QED
  BY <1>2, <1>3 DEF AdminStep, CreateRouteRead, UpdateRouteRead, SetRateRead,
     CreateRouteWrite, UpdateRouteWrite, SetRateDeactivate, AdminFail, tables

\* Every step keeps one active rate per route, and every change fresh.
LEMMA OneActiveStep ==
  ASSUME RoutesInv, OneChangePerRoute, OneActiveInv, RoutesNext
  PROVE  OneActiveInv'
<1>1. PICK a \in Admins : AdminStep(a)
  BY DEF RoutesNext
<1>2. ChangesAreFresh'
  BY <1>1, FreshChangeStep DEF ChangesAreFresh
<1>3. OneActiveRate'
  <2>1. CASE rate' = rate
    BY <2>1 DEF OneActiveInv, OneActiveRate, ActiveRates, RatesOf
  <2>2. CASE SetRateCommit(a)
    <3>1. ChangeIsFresh(a)
      BY DEF OneActiveInv, ChangesAreFresh
    <3>2. ASSUME NEW k \in Routes
          PROVE  \A i, j \in ActiveRates(k)' : i = j
      <4>1. CASE k = admin[a].route
        BY <2>2, <3>1, <4>1, FreshCommitIs DEF ActiveRates, RatesOf
      <4>2. CASE k # admin[a].route
        BY <2>2, <3>1, <4>2, FreshCommitIs DEF OneActiveInv, OneActiveRate
      <4>3. QED
        BY <4>1, <4>2
    <3>3. QED
      BY <3>2 DEF OneActiveRate
  <2>3. QED
    BY <1>1, <2>1, <2>2 DEF AdminStep, CreateRouteRead, UpdateRouteRead, SetRateRead,
       CreateRouteWrite, UpdateRouteWrite, SetRateDeactivate, AdminFail, tables
<1>4. QED
  BY <1>2, <1>3 DEF OneActiveInv

\* Stuttering does.
LEMMA OneActiveStutter ==
  ASSUME OneActiveInv, UNCHANGED routeVars
  PROVE  OneActiveInv'
BY DEF OneActiveInv, OneActiveRate, ChangesAreFresh, ChangeIsFresh, routeVars,
   ActiveRates, RatesOf

\* A commit of a fresh change audits the terms that it replaces.
LEMMA FreshCommitAudits ==
  ASSUME OneActiveInv, RoutesNext, rate' # rate
  PROVE  routeAudit'.before =
           {rate[i].terms : i \in ActiveRates(routeAudit'.entity)}
<1>1. PICK a \in Admins : AdminStep(a)
  BY DEF RoutesNext
<1>2. SetRateCommit(a)
  BY <1>1 DEF AdminStep, CreateRouteRead, UpdateRouteRead, SetRateRead,
     CreateRouteWrite, UpdateRouteWrite, SetRateDeactivate, AdminFail, tables
<1>3. /\ routeAudit'.entity = admin[a].route
      /\ routeAudit'.before = admin[a].before
  BY <1>2 DEF SetRateCommit
<1>4. admin[a].before = {rate[i].terms : i \in ActiveRates(admin[a].route)}
  BY <1>2 DEF OneActiveInv, ChangesAreFresh, ChangeIsFresh, SetRateCommit
<1>5. QED
  BY <1>3, <1>4

\* The seed gives each of its routes one rate.
LEMMA OneActiveInit ==
  ASSUME RoutesInit
  PROVE  OneActiveInv
<1>1. \A i, j \in DOMAIN rate : rate[i].route = rate[j].route => i = j
  BY SeedAssumption DEF RoutesInit, SeedAssumption
<1>2. OneActiveRate
  BY <1>1 DEF OneActiveRate, ActiveRates, RatesOf
<1>3. ChangesAreFresh
  BY DEF RoutesInit, ChangesAreFresh, ChangeIsFresh, AdminIdle
<1>4. QED
  BY <1>2, <1>3 DEF OneActiveInv

-------------------------------------------------------------------------------
(* Theorems.                                                               *)

\* The invariant holds in every reachable state.
THEOREM RoutesInvariant == RoutesSpec => []RoutesInv
<1>1. RoutesInit => RoutesInv
  BY RoutesInitInv
<1>2. RoutesInv /\ [RoutesNext]_routeVars => RoutesInv'
  BY RoutesStepInv, RoutesStutterInv
<1>3. QED
  BY <1>1, <1>2, PTL DEF RoutesSpec

\* A route that was ever priced always has an active rate, however many changes
\* of rates overlap or fail (setRate, getPricing).
THEOREM RoutesStayPriced == RoutesSpec => []PricedStaysPriced
<1>1. RoutesInv => PricedStaysPriced
  BY DEF RoutesInv
<1>2. QED
  BY <1>1, RoutesInvariant, PTL

-------------------------------------------------------------------------------
(* Routes, rates, accounts and bookings together.                          *)

\* The foreign key of a booking.
OwnersHaveAccounts == \A i \in DOMAIN booking : booking[i].owner \in DOMAIN account

\* What every step preserves.
BookingsInv ==
  /\ RoutesInv
  /\ AccountsInv
  /\ BookingsTypeOK
  /\ OwnersHaveAccounts
  /\ PricedFromItsRoute
  /\ NumbersAreUnique
  /\ AgentsWereApproved
  /\ SavedWithItsBooking
  /\ BookingsInFlight

-------------------------------------------------------------------------------
(* The tables.                                                             *)

\* The history of bookings is a function on an interval.
LEMMA BookingsAre ==
  ASSUME BookingsTypeOK
  PROVE  /\ Len(booking) \in Nat
         /\ DOMAIN booking = 1 .. Len(booking)
         /\ \A i \in DOMAIN booking : booking[i] \in BookingRow
BY DEF BookingsTypeOK

\* A weight that may be declared is a natural number, a rate on offer a rate.
LEMMA InputsAre == Weights \subseteq Nat /\ Offers \subseteq Rate
<1>1. ASSUME NEW weight \in Weights
      PROVE  weight \in Nat
  <2>1. weight \in Int /\ weight > 0
    BY WeightsArePositive DEF WeightsArePositive
  <2>2. QED
    BY <2>1
<1>2. QED
  BY <1>1, OffersAssumption DEF OffersAssumption

\* What the insert of a booking writes is a row, with the bill of its terms.
LEMMA RowIs ==
  ASSUME NEW asked \in Asked, NEW terms \in Offers, NEW number \in Numbers
  PROVE  LET row    == RowOf(asked, terms, number)
             tariff == calculateTariff(asked.weight, terms)
         IN  /\ row \in BookingRow
             /\ row.owner = asked.owner
             /\ row.route = asked.route
             /\ row.number = number
             /\ row.byAdmin = asked.byAdmin
             /\ row.rate = terms
             /\ row.declaredWeight = asked.weight
             /\ row.chargeableWeight = tariff.chargeableWeight
             /\ row.totalAmount = tariff.total
             /\ row.outstandingAmount = tariff.total
<1>1. /\ asked.owner \in Emails
      /\ asked.route \in Routes
      /\ asked.weight \in Weights
      /\ asked.byAdmin \in BOOLEAN
  BY DEF Asked
<1>2. asked.weight \in Nat /\ terms \in Rate
  BY <1>1, InputsAre
<1>3. /\ calculateTariff(asked.weight, terms).total \in Nat
      /\ calculateTariff(asked.weight, terms).chargeableWeight \in Nat
  BY <1>2, TariffType
<1> DEFINE fresh == Booked(asked.route.serviceType, terms, asked.weight, NULL)
<1>4. /\ fresh.rate = terms
      /\ fresh.declaredWeight = asked.weight
      /\ fresh.chargeableWeight = calculateTariff(asked.weight, terms).chargeableWeight
      /\ fresh.totalAmount = calculateTariff(asked.weight, terms).total
      /\ fresh.outstandingAmount = calculateTariff(asked.weight, terms).total
  BY <1>2, BookedIs
<1> HIDE DEF fresh
<1>5. RowOf(asked, terms, number) =
        [owner |-> asked.owner, route |-> asked.route, number |-> number,
         byAdmin |-> asked.byAdmin, rate |-> fresh.rate,
         declaredWeight |-> fresh.declaredWeight,
         chargeableWeight |-> fresh.chargeableWeight,
         totalAmount |-> fresh.totalAmount,
         outstandingAmount |-> fresh.outstandingAmount]
  BY DEF RowOf, fresh
<1>6. QED
  BY <1>1, <1>2, <1>3, <1>4, <1>5 DEF BookingRow

\* What a slot holds at each await.
LEMMA PlanIs ==
  ASSUME BookingsTypeOK, NEW d \in Desks
  PROVE  /\ desk[d] \in DeskState
         /\ desk[d].op \in {"check", "price", "number", "insert"} =>
              desk[d].asked \in Asked
         /\ desk[d].op \in {"number", "insert"} => desk[d].terms \in Offers
         /\ desk[d].op = "number" =>
              desk[d].attempt \in 0 .. (TRACKING_NUMBER_ATTEMPTS - 1)
         /\ desk[d].op = "insert" => desk[d].number \in Numbers
         /\ desk[d].op = "audit" => desk[d].booking \in 1 .. MaxBookings
BY DEF BookingsTypeOK, DeskState

\* An insert either adds one row and nothing else to the history, or nothing.
LEMMA InsertIs ==
  ASSUME BookingsTypeOK, NEW d \in Desks, Insert(d)
  PROVE  \/ UNCHANGED <<booking, addressBook>> /\ DeskFinish(d)
         \/ /\ booking' \in Seq(BookingRow)
            /\ Len(booking') = Len(booking) + 1
            /\ Len(booking') <= MaxBookings
            /\ DOMAIN booking' = 1 .. Len(booking) + 1
            /\ \A i \in DOMAIN booking : booking'[i] = booking[i]
            /\ booking'[Len(booking) + 1] =
                 RowOf(desk[d].asked, desk[d].terms, desk[d].number)
            /\ desk[d].number \notin NumbersTaken
            /\ addressBook' =
                 addressBook \cup SavedRecipient(desk[d].asked, Len(booking) + 1)
            /\ \/ DeskFinish(d)
               \/ Continue(d, [op |-> "audit", booking |-> Len(booking) + 1])
<1> DEFINE row == RowOf(desk[d].asked, desk[d].terms, desk[d].number)
<1>1. row \in BookingRow
  BY PlanIs, RowIs DEF Insert
<1>2. CASE Insertable(desk[d].number)
  <2>1. booking' = Append(booking, row)
    BY <1>2 DEF Insert
  <2> HIDE DEF row
  <2>2. Len(booking) \in Nat /\ DOMAIN booking = 1 .. Len(booking)
    BY BookingsAre
  <2>3. /\ booking' \in Seq(BookingRow)
        /\ Len(booking') = Len(booking) + 1
        /\ \A i \in 1 .. Len(booking) : booking'[i] = booking[i]
        /\ booking'[Len(booking) + 1] = row
    BY <1>1, <2>1, <2>2 DEF BookingsTypeOK
  <2>4. DOMAIN booking' = 1 .. Len(booking')
    BY <2>3
  <2>5. Len(booking') <= MaxBookings
    BY <2>2, <2>3, MaxBookingsAssumption DEF Insert, MaxBookingsAssumption
  <2>6. /\ addressBook' =
             addressBook \cup SavedRecipient(desk[d].asked, Len(booking) + 1)
        /\ desk[d].number \notin NumbersTaken
        /\ \/ DeskFinish(d)
           \/ Continue(d, [op |-> "audit", booking |-> Len(booking) + 1])
    BY <1>2 DEF Insert, Insertable
  <2>7. QED
    BY <2>2, <2>3, <2>4, <2>5, <2>6 DEF row
<1>3. CASE ~Insertable(desk[d].number)
  BY <1>3 DEF Insert
<1>4. QED
  BY <1>2, <1>3

-------------------------------------------------------------------------------
(* Types.                                                                  *)

\* The initial tables are tables.
LEMMA BookingsInitType ==
  ASSUME Init
  PROVE  BookingsTypeOK
<1>1. booking \in Seq(BookingRow) /\ Len(booking) <= MaxBookings
  BY MaxBookingsAssumption DEF Init, MaxBookingsAssumption
<1>2. desk \in [Desks -> DeskState]
  BY DEF Init, DeskIdle, DeskState
<1>3. QED
  BY <1>1, <1>2 DEF Init, BookingsTypeOK

\* The three ways a slot changes keep the slots slots.
LEMMA DeskSlotType ==
  ASSUME BookingsTypeOK, NEW d \in Desks, NEW plan \in DeskState,
         DeskBegin(d, plan) \/ Continue(d, plan) \/ DeskFinish(d)
  PROVE  desk' \in [Desks -> DeskState]
<1>1. DeskIdle \in DeskState
  BY DEF DeskIdle, DeskState
<1>2. QED
  BY <1>1 DEF BookingsTypeOK, DeskBegin, Continue, DeskFinish

\* A booking that begins takes a slot.
LEMMA BeginType ==
  ASSUME BookingsTypeOK, NEW d \in Desks,
         \/ \E u \in Emails, k \in Routes, weight \in Weights :
              \/ \E save \in BOOLEAN : CreateRead(d, u, k, weight, save)
              \/ WalkInRead(d, u, k, weight)
         \/ \E i \in DOMAIN booking : DuplicateRead(d, i)
  PROVE  desk' \in [Desks -> DeskState]
<1>1. ASSUME NEW asked \in Asked, NEW op \in {"check", "price"},
             DeskBegin(d, [op |-> op, asked |-> asked])
      PROVE  desk' \in [Desks -> DeskState]
  <2>1. [op |-> op, asked |-> asked] \in DeskState
    BY DEF DeskState
  <2>2. QED
    BY <1>1, <2>1, DeskSlotType
<1>2. CASE \E u \in Emails, k \in Routes, weight \in Weights, save \in BOOLEAN :
             CreateRead(d, u, k, weight, save)
  <2>1. PICK u \in Emails, k \in Routes, weight \in Weights, save \in BOOLEAN :
          CreateRead(d, u, k, weight, save)
    BY <1>2
  <2> DEFINE asked == [owner |-> u, route |-> k, weight |-> weight,
                       byAdmin |-> FALSE, saveRecipient |-> save]
  <2>2. asked \in Asked
    BY DEF Asked
  <2>3. DeskBegin(d, [op |-> "price", asked |-> asked])
    BY <2>1 DEF CreateRead
  <2> HIDE DEF asked
  <2>4. QED
    BY <1>1, <2>2, <2>3
<1>3. CASE \E u \in Emails, k \in Routes, weight \in Weights :
             WalkInRead(d, u, k, weight)
  <2>1. PICK u \in Emails, k \in Routes, weight \in Weights :
          WalkInRead(d, u, k, weight)
    BY <1>3
  <2> DEFINE asked == [owner |-> u, route |-> k, weight |-> weight,
                       byAdmin |-> TRUE, saveRecipient |-> FALSE]
  <2>2. asked \in Asked
    BY DEF Asked
  <2>3. DeskBegin(d, [op |-> "price", asked |-> asked])
    BY <2>1 DEF WalkInRead
  <2> HIDE DEF asked
  <2>4. QED
    BY <1>1, <2>2, <2>3
<1>4. CASE \E i \in DOMAIN booking : DuplicateRead(d, i)
  <2>1. PICK i \in DOMAIN booking : DuplicateRead(d, i)
    BY <1>4
  <2> DEFINE asked == [owner |-> booking[i].owner, route |-> booking[i].route,
                       weight |-> booking[i].declaredWeight,
                       byAdmin |-> FALSE, saveRecipient |-> FALSE]
  <2>2. booking[i] \in BookingRow
    BY BookingsAre
  <2>3. asked \in Asked
    BY <2>2 DEF BookingRow, Asked
  <2>4. DeskBegin(d, [op |-> "check", asked |-> asked])
    BY <2>1 DEF DuplicateRead
  <2> HIDE DEF asked
  <2>5. QED
    BY <1>1, <2>3, <2>4
<1>5. QED
  BY <1>2, <1>3, <1>4

\* Each further await keeps its slot a slot.
LEMMA ChainType ==
  ASSUME BookingsTypeOK, RoutesTypeOK, NEW d \in Desks,
         \/ DuplicateCheck(d)
         \/ Price(d)
         \/ \E number \in Numbers : DrawNumber(d, number)
         \/ Insert(d)
         \/ AuditWalkIn(d)
         \/ DeskFail(d)
  PROVE  desk' \in [Desks -> DeskState]
<1> DEFINE plan == desk[d]
<1>1. CASE DeskFinish(d)
  <2>1. DeskIdle \in DeskState
    BY DEF DeskIdle, DeskState
  <2>2. QED
    BY <1>1, <2>1, DeskSlotType
<1>2. CASE DuplicateCheck(d)
  <2>1. plan.op = "check"
    BY <1>2 DEF DuplicateCheck
  <2>2. [plan EXCEPT !.op = "price"] \in DeskState
    BY <2>1, PlanIs DEF DeskState
  <2>3. QED
    BY <1>1, <1>2, <2>2, DeskSlotType DEF DuplicateCheck
<1>3. CASE Price(d)
  <2>1. plan.asked \in Asked
    BY <1>3, PlanIs DEF Price
  <2>2. ASSUME NEW i \in Pricing(plan.asked.route)
        PROVE  [op |-> "number", asked |-> plan.asked, terms |-> rate[i].terms,
                attempt |-> 0] \in DeskState
    <3>1. rate[i] \in RateRow
      BY HistoryIs DEF Pricing, ActiveRates, RatesOf
    <3>2. 0 \in 0 .. (TRACKING_NUMBER_ATTEMPTS - 1)
      BY AttemptsAssumption DEF AttemptsAssumption
    <3>3. QED
      BY <2>1, <3>1, <3>2 DEF RateRow, DeskState
  <2>3. QED
    BY <1>1, <1>3, <2>2, DeskSlotType DEF Price
<1>4. CASE \E number \in Numbers : DrawNumber(d, number)
  <2>1. PICK number \in Numbers : DrawNumber(d, number)
    BY <1>4
  <2>2. /\ plan.op = "number"
        /\ plan.asked \in Asked
        /\ plan.terms \in Offers
        /\ plan.attempt \in 0 .. (TRACKING_NUMBER_ATTEMPTS - 1)
    BY <2>1, PlanIs DEF DrawNumber
  <2>3. [op |-> "insert", asked |-> plan.asked, terms |-> plan.terms,
         number |-> number] \in DeskState
    BY <2>2 DEF DeskState
  <2>4. ASSUME plan.attempt + 1 < TRACKING_NUMBER_ATTEMPTS
        PROVE  [plan EXCEPT !.attempt = @ + 1] \in DeskState
    <3>1. plan.attempt + 1 \in 0 .. (TRACKING_NUMBER_ATTEMPTS - 1)
      BY <2>2, <2>4, AttemptsAssumption DEF AttemptsAssumption
    <3>2. plan \in [op : {"number"}, asked : Asked, terms : Offers,
                    attempt : 0 .. (TRACKING_NUMBER_ATTEMPTS - 1)]
      BY <2>2, PlanIs DEF DeskState
    <3> HIDE DEF plan
    <3>3. [plan EXCEPT !.attempt = @ + 1]
            \in [op : {"number"}, asked : Asked, terms : Offers,
                 attempt : 0 .. (TRACKING_NUMBER_ATTEMPTS - 1)]
      BY <3>1, <3>2
    <3>4. QED
      BY <3>3 DEF DeskState
  <2>5. QED
    BY <1>1, <2>1, <2>3, <2>4, DeskSlotType DEF DrawNumber
<1>5. CASE Insert(d)
  <2>1. Len(booking) + 1 \in 1 .. MaxBookings
    BY <1>5, BookingsAre, MaxBookingsAssumption DEF Insert, MaxBookingsAssumption
  <2>2. [op |-> "audit", booking |-> Len(booking) + 1] \in DeskState
    BY <2>1 DEF DeskState
  <2>3. QED
    BY <1>1, <1>5, <2>2, DeskSlotType DEF Insert
<1>6. CASE AuditWalkIn(d) \/ DeskFail(d)
  BY <1>1, <1>6 DEF AuditWalkIn, DeskFail
<1>7. QED
  BY <1>2, <1>3, <1>4, <1>5, <1>6

\* Every step of a booking keeps the tables tables.
LEMMA DeskStepType ==
  ASSUME BookingsTypeOK, RoutesTypeOK, NEW d \in Desks, DeskStep(d)
  PROVE  BookingsTypeOK'
<1>1. desk' \in [Desks -> DeskState]
  BY BeginType, ChainType DEF DeskStep, Inquire
<1>2. CASE UNCHANGED bookingTables
  BY <1>1, <1>2 DEF BookingsTypeOK, bookingTables
<1>3. CASE Insert(d) /\ UNCHANGED walkInAudit
  <2>1. CASE UNCHANGED <<booking, addressBook>>
    BY <1>1, <1>3, <2>1 DEF BookingsTypeOK
  <2>2. CASE ~ UNCHANGED <<booking, addressBook>>
    <3>1. /\ booking' \in Seq(BookingRow)
          /\ Len(booking') <= MaxBookings
          /\ addressBook' =
               addressBook \cup SavedRecipient(desk[d].asked, Len(booking) + 1)
      BY <1>3, <2>2, InsertIs
    <3>2. Len(booking) + 1 \in 1 .. MaxBookings
      BY <1>3, BookingsAre, MaxBookingsAssumption DEF Insert, MaxBookingsAssumption
    <3>3. desk[d].asked.owner \in Emails
      BY <1>3, PlanIs DEF Insert, Asked
    <3>4. addressBook' \subseteq Emails \X (1 .. MaxBookings)
      BY <3>1, <3>2, <3>3 DEF SavedRecipient, BookingsTypeOK
    <3>5. QED
      BY <1>1, <1>3, <3>1, <3>4 DEF BookingsTypeOK
  <2>3. QED
    BY <2>1, <2>2
<1>4. CASE AuditWalkIn(d) /\ UNCHANGED <<booking, addressBook>>
  BY <1>1, <1>4, PlanIs DEF BookingsTypeOK, AuditWalkIn
<1>5. QED
  BY <1>2, <1>3, <1>4 DEF DeskStep

-------------------------------------------------------------------------------
(* Requests in flight.                                                     *)

\* A step of a booking changes its own slot alone.
LEMMA OtherSlots ==
  ASSUME BookingsTypeOK, NEW d \in Desks, DeskStep(d), NEW b \in Desks, b # d
  PROVE  desk'[b] = desk[b]
<1>1. ASSUME NEW plan, desk' = [desk EXCEPT ![d] = plan]
      PROVE  desk'[b] = desk[b]
  BY <1>1 DEF BookingsTypeOK
<1>2. \E plan : desk' = [desk EXCEPT ![d] = plan]
  BY DEF DeskStep, Inquire, CreateRead, WalkInRead, DuplicateRead, DuplicateCheck,
     Price, DrawNumber, DeskFail, Insert, AuditWalkIn, DeskBegin, Continue, DeskFinish
<1>3. QED
  BY <1>1, <1>2

\* A booking that begins was checked, or is about to be.
LEMMA BeginStands ==
  ASSUME BookingsInv, NEW d \in Desks,
         \/ \E u \in Emails, k \in Routes, weight \in Weights :
              \/ \E save \in BOOLEAN : CreateRead(d, u, k, weight, save)
              \/ WalkInRead(d, u, k, weight)
         \/ \E i \in DOMAIN booking : DuplicateRead(d, i)
  PROVE  StillStands(desk'[d])
<1> USE DEF BookingsInv, BookingsTypeOK
<1>1. CASE \E u \in Emails, k \in Routes, weight \in Weights, save \in BOOLEAN :
             CreateRead(d, u, k, weight, save)
  <2>1. PICK u \in Emails, k \in Routes, weight \in Weights, save \in BOOLEAN :
          CreateRead(d, u, k, weight, save)
    BY <1>1
  <2>2. /\ desk'[d].op = "price"
        /\ desk'[d].asked.owner = u
        /\ desk'[d].asked.byAdmin = FALSE
    BY <2>1 DEF CreateRead, DeskBegin
  <2>3. u \in DOMAIN account /\ Cleared(u)
    <3>1. u \in DOMAIN account
      BY <2>1 DEF CreateRead, BookingAllowed
    <3>2. CASE account[u].role = "AGENT"
      <4>1. account[u].approvalStatus = "APPROVED"
        BY <2>1, <3>2 DEF CreateRead, BookingAllowed
      <4>2. VerdictOnRecord(u)
        BY <3>1 DEF AccountsInv, VerdictsAreOnRecord
      <4>3. QED
        BY <3>1, <4>1, <4>2 DEF VerdictOnRecord, Cleared
    <3>3. CASE account[u].role # "AGENT"
      BY <3>1, <3>3 DEF Cleared, Agents
    <3>4. QED
      BY <3>1, <3>2, <3>3
  <2>4. QED
    BY <2>2, <2>3 DEF StillStands
<1>2. CASE \E u \in Emails, k \in Routes, weight \in Weights :
             WalkInRead(d, u, k, weight)
  <2>1. PICK u \in Emails, k \in Routes, weight \in Weights :
          WalkInRead(d, u, k, weight)
    BY <1>2
  <2>2. /\ desk'[d].op = "price"
        /\ desk'[d].asked.owner = u
        /\ desk'[d].asked.byAdmin = TRUE
        /\ desk'[d].asked.saveRecipient = FALSE
        /\ u \in DOMAIN account
    BY <2>1 DEF WalkInRead, DeskBegin
  <2>3. QED
    BY <2>2 DEF StillStands
<1>3. CASE \E i \in DOMAIN booking : DuplicateRead(d, i)
  <2>1. PICK i \in DOMAIN booking : DuplicateRead(d, i)
    BY <1>3
  <2>2. /\ desk'[d].op = "check"
        /\ desk'[d].asked.owner = booking[i].owner
        /\ desk'[d].asked.byAdmin = FALSE
    BY <2>1 DEF DuplicateRead, DeskBegin
  <2>3. booking[i].owner \in DOMAIN account
    BY DEF OwnersHaveAccounts
  <2>4. QED
    BY <2>2, <2>3 DEF StillStands
<1>4. QED
  BY <1>1, <1>2, <1>3

\* Each further await adds what it checked.
LEMMA ChainStands ==
  ASSUME BookingsInv, NEW d \in Desks,
         \/ DuplicateCheck(d)
         \/ Price(d)
         \/ \E number \in Numbers : DrawNumber(d, number)
         \/ Insert(d)
         \/ AuditWalkIn(d)
         \/ DeskFail(d)
  PROVE  StillStands(desk'[d])
<1> USE DEF BookingsInv, BookingsTypeOK
<1> DEFINE plan == desk[d]
<1>1. StillStands(plan)
  BY DEF BookingsInFlight
<1>2. CASE DeskFinish(d)
  BY <1>2 DEF DeskFinish, DeskIdle, StillStands
<1>3. CASE DuplicateCheck(d) /\ ~DeskFinish(d)
  <2>1. /\ plan.op = "check"
        /\ BookingAllowed(plan.asked.owner)
        /\ desk' = [desk EXCEPT ![d] = [plan EXCEPT !.op = "price"]]
    BY <1>3 DEF DuplicateCheck, Continue
  <2>2. plan \in [op : {"check", "price"}, asked : Asked]
    BY <2>1, PlanIs DEF DeskState
  <2>3. desk'[d].op = "price" /\ desk'[d].asked = plan.asked
    BY <2>1, <2>2
  <2>4. Cleared(plan.asked.owner)
    BY <2>1 DEF BookingAllowed, AccountsInv, VerdictsAreOnRecord, VerdictOnRecord,
       Cleared, Agents
  <2>5. QED
    BY <1>1, <2>1, <2>3, <2>4 DEF StillStands
<1>4. CASE Price(d) /\ ~DeskFinish(d)
  <2>1. PICK i \in Pricing(plan.asked.route) :
          desk' = [desk EXCEPT ![d] =
                     [op |-> "number", asked |-> plan.asked,
                      terms |-> rate[i].terms, attempt |-> 0]]
    BY <1>4 DEF Price, Continue
  <2>2. /\ desk'[d].op = "number"
        /\ desk'[d].asked = plan.asked
        /\ desk'[d].terms = rate[i].terms
    BY <2>1
  <2>3. Quoted(plan.asked.route, rate[i].terms)
    BY <2>1 DEF Pricing, ActiveRates, Quoted
  <2>4. plan.op = "price"
    BY <1>4 DEF Price
  <2>5. QED
    BY <1>1, <2>2, <2>3, <2>4 DEF StillStands
<1>5. CASE (\E number \in Numbers : DrawNumber(d, number)) /\ ~DeskFinish(d)
  <2>1. PICK number \in Numbers : DrawNumber(d, number)
    BY <1>5
  <2>2. plan.op = "number"
    BY <2>1 DEF DrawNumber
  <2>3. plan \in [op : {"number"}, asked : Asked, terms : Offers,
                  attempt : 0 .. (TRACKING_NUMBER_ATTEMPTS - 1)]
    BY <2>2, PlanIs DEF DeskState
  <2>4. \/ desk' = [desk EXCEPT ![d] = [op |-> "insert", asked |-> plan.asked,
                                        terms |-> plan.terms, number |-> number]]
        \/ desk' = [desk EXCEPT ![d] = [plan EXCEPT !.attempt = @ + 1]]
    BY <1>5, <2>1 DEF DrawNumber, Continue
  <2>5. /\ desk'[d].op \in {"number", "insert"}
        /\ desk'[d].asked = plan.asked
        /\ desk'[d].terms = plan.terms
    BY <2>3, <2>4
  <2>6. QED
    BY <1>1, <2>2, <2>5 DEF StillStands
<1>6. CASE Insert(d) /\ ~DeskFinish(d)
  <2>1. desk'[d].op = "audit"
    BY <1>6 DEF Insert, Continue
  <2>2. QED
    BY <2>1 DEF StillStands
<1>7. QED
  BY <1>2, <1>3, <1>4, <1>5, <1>6 DEF AuditWalkIn, DeskFail

\* What stands in every slot after a step of a booking.
LEMMA DeskStepInFlight ==
  ASSUME BookingsInv, NEW d \in Desks, DeskStep(d), UNCHANGED otherVars
  PROVE  BookingsInFlight'
<1>1. StillStands(desk'[d])
  BY BeginStands, ChainStands DEF DeskStep, Inquire
<1>2. ASSUME NEW b \in Desks
      PROVE  StillStands(desk'[b])
  BY <1>1, OtherSlots DEF BookingsInv, BookingsInFlight
<1>3. account' = account /\ accountAudit' = accountAudit /\ rate' = rate
  BY DEF otherVars, routeVars, accountVars
<1>4. QED
  BY <1>2, <1>3 DEF BookingsInFlight, StillStands, Cleared, Agents, Quoted, RatesOf

-------------------------------------------------------------------------------
(* The steps of bookings.                                                  *)

\* A new booking is the tariff of rates that were quoted for its route, has a
\* number of its own, and an owner that was cleared.
LEMMA InsertInv ==
  ASSUME BookingsInv, NEW d \in Desks, Insert(d),
         UNCHANGED <<account, accountAudit, rate>>
  PROVE  /\ OwnersHaveAccounts'
         /\ PricedFromItsRoute'
         /\ NumbersAreUnique'
         /\ AgentsWereApproved'
         /\ SavedWithItsBooking'
<1> USE DEF BookingsInv
<1> DEFINE plan == desk[d]
           last == Len(booking) + 1
           row  == RowOf(plan.asked, plan.terms, plan.number)
<1>1. /\ plan.op = "insert"
      /\ plan.asked \in Asked
      /\ plan.terms \in Offers
      /\ plan.number \in Numbers
  BY PlanIs DEF Insert
<1>2. StillStands(plan)
  BY DEF BookingsInFlight
<1>3. /\ Len(booking) \in Nat
      /\ DOMAIN booking = 1 .. Len(booking)
      /\ last \notin DOMAIN booking
  BY BookingsAre
<1>4. CASE UNCHANGED <<booking, addressBook>>
  BY <1>4 DEF OwnersHaveAccounts, PricedFromItsRoute, NumbersAreUnique,
     AgentsWereApproved, SavedWithItsBooking, Cleared, Agents, Quoted, RatesOf
<1>5. CASE ~ UNCHANGED <<booking, addressBook>>
  <2>1. /\ DOMAIN booking' = 1 .. last
        /\ \A i \in DOMAIN booking : booking'[i] = booking[i]
        /\ booking'[last] = row
        /\ plan.number \notin NumbersTaken
        /\ addressBook' = addressBook \cup SavedRecipient(plan.asked, last)
    BY <1>5, InsertIs
  <2>2. \A i \in DOMAIN booking' : i \in DOMAIN booking \/ i = last
    BY <1>3, <2>1
  <2>3. last \in DOMAIN booking' /\ DOMAIN booking \subseteq DOMAIN booking'
    BY <1>3, <2>1
  <2>4. /\ row.owner = plan.asked.owner
        /\ row.route = plan.asked.route
        /\ row.number = plan.number
        /\ row.byAdmin = plan.asked.byAdmin
        /\ row.rate = plan.terms
    BY <1>1, RowIs
  <2>5. LET tariff == calculateTariff(row.declaredWeight, row.rate)
        IN  /\ row.chargeableWeight = tariff.chargeableWeight
            /\ row.totalAmount = tariff.total
            /\ row.outstandingAmount = tariff.total
    BY <1>1, RowIs
  <2> HIDE DEF row, last
  <2>6. OwnersHaveAccounts'
    BY <1>1, <1>2, <2>1, <2>2, <2>4 DEF OwnersHaveAccounts, StillStands
  <2>7. PricedFromItsRoute'
    <3>1. Quoted(row.route, row.rate)
      BY <1>1, <1>2, <2>4 DEF StillStands
    <3>2. \A i \in DOMAIN booking' : Quoted(booking'[i].route, booking'[i].rate)
      BY <2>1, <2>2, <3>1 DEF PricedFromItsRoute
    <3>3. \A i \in DOMAIN booking' :
            LET tariff == calculateTariff(booking'[i].declaredWeight, booking'[i].rate)
            IN  /\ booking'[i].chargeableWeight = tariff.chargeableWeight
                /\ booking'[i].totalAmount = tariff.total
                /\ booking'[i].outstandingAmount = tariff.total
      BY <2>1, <2>2, <2>5 DEF PricedFromItsRoute
    <3>4. QED
      BY <3>2, <3>3 DEF PricedFromItsRoute, Quoted, RatesOf
  <2>8. NumbersAreUnique'
    <3>1. \A i \in DOMAIN booking : booking[i].number # row.number
      BY <2>1, <2>4 DEF NumbersTaken
    <3>2. QED
      BY <2>1, <2>2, <3>1 DEF NumbersAreUnique
  <2>9. AgentsWereApproved'
    <3>1. ~row.byAdmin => Cleared(row.owner)
      BY <1>1, <1>2, <2>4 DEF StillStands
    <3>2. \A i \in DOMAIN booking' : ~booking'[i].byAdmin => Cleared(booking'[i].owner)
      BY <2>1, <2>2, <3>1 DEF AgentsWereApproved
    <3>3. QED
      BY <3>2 DEF AgentsWereApproved, Cleared, Agents
  <2>10. SavedWithItsBooking'
    <3>1. ASSUME NEW entry \in addressBook
          PROVE  /\ entry[2] \in DOMAIN booking'
                 /\ booking'[entry[2]].owner = entry[1]
                 /\ ~booking'[entry[2]].byAdmin
      BY <2>1, <2>3 DEF SavedWithItsBooking
    <3>2. ASSUME NEW entry \in SavedRecipient(plan.asked, last)
          PROVE  /\ entry[2] \in DOMAIN booking'
                 /\ booking'[entry[2]].owner = entry[1]
                 /\ ~booking'[entry[2]].byAdmin
      <4>1. entry = <<plan.asked.owner, last>> /\ plan.asked.saveRecipient
        BY DEF SavedRecipient
      <4>2. ~row.byAdmin
        BY <1>1, <1>2, <2>4, <4>1 DEF StillStands
      <4>3. QED
        BY <2>1, <2>3, <2>4, <4>1, <4>2
    <3>3. QED
      BY <2>1, <3>1, <3>2 DEF SavedWithItsBooking
  <2>11. QED
    BY <2>6, <2>7, <2>8, <2>9, <2>10
<1>6. QED
  BY <1>4, <1>5

\* Every step of a booking preserves the invariant.
LEMMA DeskStepInv ==
  ASSUME BookingsInv, BookingsNext, UNCHANGED otherVars
  PROVE  BookingsInv'
<1> USE DEF BookingsInv
<1>1. PICK d \in Desks : DeskStep(d)
  BY DEF BookingsNext
<1>2. UNCHANGED <<account, accountAudit, rate>>
  BY DEF otherVars, routeVars, accountVars
<1>3. RoutesInv' /\ AccountsInv'
  BY RoutesStutterInv, AccountsStutterInv DEF otherVars
<1>4. BookingsTypeOK'
  BY <1>1, DeskStepType DEF RoutesInv
<1>5. BookingsInFlight'
  BY <1>1, DeskStepInFlight
<1>6. /\ OwnersHaveAccounts'
      /\ PricedFromItsRoute'
      /\ NumbersAreUnique'
      /\ AgentsWereApproved'
      /\ SavedWithItsBooking'
  <2>1. CASE UNCHANGED <<booking, addressBook>>
    BY <1>2, <2>1 DEF OwnersHaveAccounts, PricedFromItsRoute, NumbersAreUnique,
       AgentsWereApproved, SavedWithItsBooking, Cleared, Agents, Quoted, RatesOf
  <2>2. CASE Insert(d)
    BY <1>2, <2>2, InsertInv
  <2>3. QED
    BY <1>1, <2>1, <2>2 DEF DeskStep, bookingTables
<1>7. QED
  BY <1>3, <1>4, <1>5, <1>6

-------------------------------------------------------------------------------
(* The steps beside bookings.                                              *)

\* Changes of routes and rates leave quotes quoted.
LEMMA RoutesBesideBookings ==
  ASSUME BookingsInv, RoutesNext, UNCHANGED <<bookingVars, accountVars>>
  PROVE  BookingsInv'
<1> USE DEF BookingsInv
<1>1. UNCHANGED <<booking, addressBook, walkInAudit, desk, account, accountAudit>>
  BY DEF bookingVars, accountVars
<1>2. RoutesInv' /\ AccountsInv'
  BY RoutesStepInv, AccountsStutterInv
<1>3. ASSUME NEW k, NEW terms, Quoted(k, terms)
      PROVE  \E i \in DOMAIN rate' : rate'[i].route = k /\ terms = rate'[i].terms
  BY <1>3, TermsStay DEF Quoted, RatesOf
<1>4. PricedFromItsRoute'
  BY <1>1, <1>3 DEF PricedFromItsRoute, Quoted, RatesOf
<1>5. BookingsInFlight'
  BY <1>1, <1>3 DEF BookingsInFlight, StillStands, Quoted, RatesOf, Cleared, Agents
<1>6. QED
  BY <1>1, <1>2, <1>4, <1>5 DEF BookingsTypeOK, OwnersHaveAccounts, NumbersAreUnique,
     AgentsWereApproved, SavedWithItsBooking, Cleared, Agents

\* Changes of accounts leave accounts there, with their roles and their records.
LEMMA AccountsBesideBookings ==
  ASSUME BookingsInv, AccountsNext, UNCHANGED <<bookingVars, routeVars>>
  PROVE  BookingsInv'
<1> USE DEF BookingsInv
<1>1. UNCHANGED <<booking, addressBook, walkInAudit, desk, rate>>
  BY DEF bookingVars, routeVars
<1>2. RoutesInv' /\ AccountsInv'
  BY RoutesStutterInv, AccountsStepInv
<1>3. DOMAIN account \subseteq DOMAIN account'
  BY RolesStay
<1>4. ASSUME NEW u \in DOMAIN account, Cleared(u), account'[u].role = "AGENT"
      PROVE  [action |-> "AGENT_APPROVED", entity |-> u] \in accountAudit'
  BY <1>4, RolesStay DEF Cleared, Agents
<1>5. AgentsWereApproved'
  BY <1>1, <1>4 DEF AgentsWereApproved, OwnersHaveAccounts, Cleared, Agents
<1>6. BookingsInFlight'
  BY <1>1, <1>3, <1>4 DEF BookingsInFlight, StillStands, Quoted, RatesOf, Cleared,
     Agents
<1>7. QED
  BY <1>1, <1>2, <1>3, <1>5, <1>6 DEF BookingsTypeOK, OwnersHaveAccounts,
     NumbersAreUnique, PricedFromItsRoute, SavedWithItsBooking, Quoted, RatesOf

-------------------------------------------------------------------------------
(* Theorems.                                                               *)

\* The invariant holds in every reachable state.
THEOREM BookingsInvariant == Spec => []BookingsInv
<1>1. Init => BookingsInv
  <2> SUFFICES ASSUME Init PROVE BookingsInv
    OBVIOUS
  <2>1. RoutesInv /\ AccountsInv /\ BookingsTypeOK
    BY RoutesInitInv, AccountsInitInv, BookingsInitType DEF Init
  <2>2. BookingsInFlight
    BY DEF Init, BookingsInFlight, StillStands, DeskIdle
  <2>3. booking = <<>> /\ addressBook = {}
    BY DEF Init
  <2>4. QED
    BY <2>1, <2>2, <2>3 DEF BookingsInv, OwnersHaveAccounts, PricedFromItsRoute,
       NumbersAreUnique, AgentsWereApproved, SavedWithItsBooking
<1>2. BookingsInv /\ [Next]_vars => BookingsInv'
  <2> SUFFICES ASSUME BookingsInv, [Next]_vars PROVE BookingsInv'
    OBVIOUS
  <2>1. CASE RoutesNext /\ UNCHANGED <<bookingVars, accountVars>>
    BY <2>1, RoutesBesideBookings
  <2>2. CASE AccountsNext /\ UNCHANGED <<bookingVars, routeVars>>
    BY <2>2, AccountsBesideBookings
  <2>3. CASE BookingsNext /\ UNCHANGED otherVars
    BY <2>3, DeskStepInv
  <2>4. CASE UNCHANGED vars
    <3>1. UNCHANGED <<routeVars, accountVars, rate, account, accountAudit>>
      BY <2>4 DEF vars, otherVars, routeVars, accountVars
    <3>2. UNCHANGED <<booking, addressBook, walkInAudit, desk>>
      BY <2>4 DEF vars, bookingVars
    <3>3. RoutesInv' /\ AccountsInv'
      BY <3>1, RoutesStutterInv, AccountsStutterInv DEF BookingsInv
    <3>4. QED
      BY <3>1, <3>2, <3>3 DEF BookingsInv, BookingsTypeOK, OwnersHaveAccounts,
         PricedFromItsRoute, NumbersAreUnique, AgentsWereApproved,
         SavedWithItsBooking, BookingsInFlight, StillStands, Quoted, RatesOf,
         Cleared, Agents
  <2>5. QED
    BY <2>1, <2>2, <2>3, <2>4 DEF Next
<1>3. QED
  BY <1>1, <1>2, PTL DEF Spec

\* All tables and plans in flight keep their types, so a tracking number is drawn
\* TRACKING_NUMBER_ATTEMPTS times at most (nextTrackingNumber).
THEOREM BookingsTypeCorrect == Spec => []TypeOK
<1>1. BookingsInv => TypeOK
  BY DEF BookingsInv, RoutesInv, AccountsInv, TypeOK
<1>2. QED
  BY <1>1, BookingsInvariant, PTL

\* A route that was ever priced always has an active rate, also beside bookings
\* (setRate, getPricing).
THEOREM PricedAlwaysStaysPriced == Spec => []PricedStaysPriced
<1>1. BookingsInv => PricedStaysPriced
  BY DEF BookingsInv, RoutesInv
<1>2. QED
  BY <1>1, BookingsInvariant, PTL

\* Every booking's bill is the tariff at one rate that was set for its own route
\* (getPricing, calculateTariff, create).
THEOREM AlwaysPricedFromItsRoute == Spec => []PricedFromItsRoute
<1>1. BookingsInv => PricedFromItsRoute
  BY DEF BookingsInv
<1>2. QED
  BY <1>1, BookingsInvariant, PTL

\* Tracking numbers are unique (nextTrackingNumber, the unique index).
THEOREM NumbersAlwaysUnique == Spec => []NumbersAreUnique
<1>1. BookingsInv => NumbersAreUnique
  BY DEF BookingsInv
<1>2. QED
  BY <1>1, BookingsInvariant, PTL

\* An agent that booked for itself was approved, on record (assertBookingAllowed).
THEOREM AgentsWereAlwaysApproved == Spec => []AgentsWereApproved
<1>1. BookingsInv => AgentsWereApproved
  BY DEF BookingsInv
<1>2. QED
  BY <1>1, BookingsInvariant, PTL

\* Profiles of agents agree with the audit trail (AgentsService.review).
THEOREM VerdictsAlwaysOnRecord == Spec => []VerdictsAreOnRecord
<1>1. BookingsInv => VerdictsAreOnRecord
  BY DEF BookingsInv, AccountsInv
<1>2. QED
  BY <1>1, BookingsInvariant, PTL

\* What a booking adds to an address book belongs to the owner of a booking that
\* was made (ShipmentsRepository.create).
THEOREM AlwaysSavedWithItsBooking == Spec => []SavedWithItsBooking
<1>1. BookingsInv => SavedWithItsBooking
  BY DEF BookingsInv
<1>2. QED
  BY <1>1, BookingsInvariant, PTL

\* A change of a rate that waits for its commit deactivates rates of its own route
\* only, whatever other changes committed meanwhile (the where of setRate's
\* updateMany).
THEOREM ReplacementsAlwaysOfOwnRoute == Spec => []ReplacementsInFlight
<1>1. BookingsInv => ReplacementsInFlight
  BY DEF BookingsInv, RoutesInv
<1>2. QED
  BY <1>1, BookingsInvariant, PTL

\* What one await of a booking checked still stands in the next ones, whatever
\* happened to accounts, routes and rates between them (assertBookingAllowed,
\* getPricing).
THEOREM BookingsAlwaysStandInFlight == Spec => []BookingsInFlight
<1>1. BookingsInv => BookingsInFlight
  BY DEF BookingsInv
<1>2. QED
  BY <1>1, BookingsInvariant, PTL

\* Overlapping changes of one route are the only way to two active rates: where no
\* two changes under way are about one route, every commit replaces what it read.
LEMMA OneActiveCorrect == Spec /\ []OneChangePerRoute => [](RoutesInv /\ OneActiveInv)
<1>1. Init => OneActiveInv
  BY OneActiveInit DEF Init
<1>2. /\ RoutesInv /\ OneChangePerRoute /\ OneActiveInv /\ [Next]_vars
      => OneActiveInv'
  <2> SUFFICES ASSUME RoutesInv, OneChangePerRoute, OneActiveInv, [Next]_vars
               PROVE  OneActiveInv'
    OBVIOUS
  <2>1. CASE RoutesNext
    BY <2>1, OneActiveStep
  <2>2. CASE UNCHANGED routeVars
    BY <2>2, OneActiveStutter
  <2>3. QED
    BY <2>1, <2>2 DEF Next, vars, otherVars
<1>3. BookingsInv => RoutesInv
  BY DEF BookingsInv
<1>4. QED
  BY <1>1, <1>2, <1>3, BookingsInvariant, PTL DEF Spec

\* A route has one active rate at most, for any number of admins, bookings and
\* routes, as long as no two changes of a rate that are under way are about one
\* route (setRate locks nothing that would ensure it).
THEOREM OneActiveRateWithoutOverlap ==
  Spec /\ []OneChangePerRoute => []OneActiveRate
<1>1. OneActiveInv => OneActiveRate
  BY DEF OneActiveInv
<1>2. QED
  BY <1>1, OneActiveCorrect, PTL

\* Under the same condition, a RATE_UPDATED row tells the rate that really was
\* replaced (setRate's before).
THEOREM RateAuditTellsWithoutOverlap ==
  Spec /\ []OneChangePerRoute => RateAuditTellsTheChange
<1>1. OneActiveInv /\ [Next]_vars =>
        [ rate' # rate =>
            routeAudit'.before =
              {rate[i].terms : i \in ActiveRates(routeAudit'.entity)} ]_routeVars
  <2> SUFFICES ASSUME OneActiveInv, [Next]_vars, rate' # rate
               PROVE  routeAudit'.before =
                        {rate[i].terms : i \in ActiveRates(routeAudit'.entity)}
    OBVIOUS
  <2>1. RoutesNext
    BY DEF Next, vars, otherVars, routeVars
  <2>2. QED
    BY <2>1, FreshCommitAudits
<1>2. QED
  BY <1>1, OneActiveCorrect, PTL DEF Spec, RateAuditTellsTheChange

\* With one admin, as in the run rates, a route has one active rate at most, for any
\* number of routes, rates and bookings.
THEOREM OneAdminLeavesOneRate ==
  ASSUME NEW a, Admins = {a}
  PROVE  Spec => []OneActiveRate
<1>1. OneChangePerRoute
  BY DEF OneChangePerRoute
<1>2. QED
  BY <1>1, OneActiveRateWithoutOverlap, PTL
-------------------------------------------------------------------------------
(* The shop.                                                               *)

\* What the refinement needs beside the invariant: nothing over the limit is asked
\* for or copied, and who copies a booking does so for himself.
ShopInv ==
  /\ \A i \in DOMAIN booking : booking[i].declaredWeight <= MAX_WEIGHT
  /\ \A d \in Desks :
       /\ desk[d].op \in {"check", "price", "number", "insert"} =>
            desk[d].asked.weight <= MAX_WEIGHT
       /\ desk[d].op = "check" => ~desk[d].asked.byAdmin

\* What a slot has to say to it.
WithinLimit(plan) ==
  /\ plan.op \in {"check", "price", "number", "insert"} =>
       plan.asked.weight <= MAX_WEIGHT
  /\ plan.op = "check" => ~plan.asked.byAdmin

\* A step of a request changes where it stands, and where no other does.
LEMMA StandsIs ==
  ASSUME BookingsTypeOK, NEW d \in Desks, NEW plan,
         desk' = [desk EXCEPT ![d] = plan]
  PROVE  /\ desk'[d] = plan
         /\ Standings' = [Standings EXCEPT ![d] = StandingOf(plan)]
         /\ StandingOf(plan) = StandingOf(desk[d]) => Standings' = Standings
BY DEF BookingsTypeOK, Standings

\* Tables that stay look the same in the shop.
LEMMA PricesSame ==
  ASSUME UNCHANGED <<route, rate>>
  PROVE  ServedRoutes' = ServedRoutes /\ Tags' = Tags
BY DEF ServedRoutes, Tags, TagsOf, ActiveRates, RatesOf

LEMMA WelcomeSame ==
  ASSUME UNCHANGED account
  PROVE  Welcome' = Welcome
BY DEF Welcome, WelcomeTo, NotSuspended, BookingAllowed

LEMMA SalesSame ==
  ASSUME UNCHANGED <<booking, addressBook>>
  PROVE  Sales' = Sales
BY DEF Sales, SaleOf

\* What changes neither tables nor standings is no step of the shop.
LEMMA ShopStutters ==
  ASSUME UNCHANGED <<route, rate, account, booking, addressBook, walkInAudit>>,
         Standings' = Standings
  PROVE  UNCHANGED TheShop!vars
BY PricesSame, WelcomeSame, SalesSame DEF TheShop!vars, TheShop!prices

\* To switch a route on or off, or create it, is about one route.
LEMMA ServedStep ==
  ASSUME NEW k \in Routes, UNCHANGED <<rate, account, booking, addressBook, walkInAudit, desk>>,
         \A j \in Routes \ {k} :
           (j \in DOMAIN route' /\ route'[j]) <=> (j \in DOMAIN route /\ route[j])
  PROVE  TheShop!Next
<1>1. \A j \in Routes \ {k} : j \in ServedRoutes' <=> j \in ServedRoutes
  BY DEF ServedRoutes
<1>2. ServedRoutes \subseteq Routes /\ ServedRoutes' \subseteq Routes
  BY DEF ServedRoutes
<1>3. ServedRoutes' \in {ServedRoutes \cup {k}, ServedRoutes \ {k}}
  <2>1. CASE k \in ServedRoutes'
    BY <1>1, <1>2, <2>1
  <2>2. CASE k \notin ServedRoutes'
    BY <1>1, <1>2, <2>2
  <2> QED
    BY <2>1, <2>2
<1>4. Tags' = Tags /\ Standings' = Standings
  BY DEF Tags, TagsOf, ActiveRates, RatesOf, Standings
<1>5. TheShop!ServeOrNot(k)
  BY <1>3, <1>4, WelcomeSame, SalesSame DEF TheShop!ServeOrNot
<1> QED
  BY <1>5 DEF TheShop!Next

\* A commit changes the tags of its own route: it takes away some and adds its own.
LEMMA RetagStep ==
  ASSUME RoutesInv, NEW a \in Admins, SetRateCommit(a),
         UNCHANGED <<account, booking, addressBook, walkInAudit, desk>>
  PROVE  TheShop!Next
<1>0. PICK k, terms : k = admin[a].route /\ terms = admin[a].terms
  OBVIOUS
<1> DEFINE last == Len(rate) + 1
           kept == {rate[i].terms : i \in ActiveRates(k) \ admin[a].replaced}
           former == TagsOf(k) \ kept
<1>1. /\ k \in Routes /\ terms \in Offers
      /\ admin[a].replaced \subseteq RatesOf(k)
      /\ route' = route
  BY <1>0 DEF RoutesInv, RoutesTypeOK, AdminState, SetRateCommit, ReplacementsInFlight
<1>2. /\ Len(rate) \in Nat /\ DOMAIN rate = 1 .. Len(rate)
      /\ \A i \in DOMAIN rate : rate[i] \in RateRow
  BY HistoryIs DEF RoutesInv
<1>3. /\ Len(rate') = last /\ rate' \in Seq(RateRow)
      /\ \A i \in 1 .. Len(rate) :
           /\ rate'[i].route = rate[i].route
           /\ rate'[i].terms = rate[i].terms
           /\ i \notin admin[a].replaced => rate'[i].isActive = rate[i].isActive
           /\ i \in admin[a].replaced => ~rate'[i].isActive
      /\ rate'[last] = [route |-> k, terms |-> terms, isActive |-> TRUE]
  BY <1>0, CommitIs DEF RoutesInv
<1>4. DOMAIN rate' = 1 .. last
  BY <1>2, <1>3
<1>5. /\ rate'[last].route = k /\ rate'[last].terms = terms /\ rate'[last].isActive
  BY <1>3
<1>6. ASSUME NEW j \in Routes \ {k}
      PROVE  TagsOf(j)' = TagsOf(j)
  <2>1. ActiveRates(j)' = ActiveRates(j)
    <3>1. ActiveRates(j)' \subseteq ActiveRates(j)
      BY <1>2, <1>3, <1>4, <1>5 DEF ActiveRates, RatesOf
    <3>2. ActiveRates(j) \subseteq ActiveRates(j)'
      BY <1>1, <1>2, <1>3, <1>4 DEF ActiveRates, RatesOf
    <3> QED
      BY <3>1, <3>2
  <2>2. \A i \in ActiveRates(j) : rate'[i].terms = rate[i].terms
    BY <1>2, <1>3 DEF ActiveRates, RatesOf
  <2> QED
    BY <2>1, <2>2 DEF TagsOf
<1>7. TagsOf(k)' = kept \cup {terms}
  <2>1. ActiveRates(k)' = (ActiveRates(k) \ admin[a].replaced) \cup {last}
    <3>1. ActiveRates(k)' \subseteq (ActiveRates(k) \ admin[a].replaced) \cup {last}
      BY <1>2, <1>3, <1>4 DEF ActiveRates, RatesOf
    <3>2. (ActiveRates(k) \ admin[a].replaced) \cup {last} \subseteq ActiveRates(k)'
      BY <1>2, <1>3, <1>4, <1>5 DEF ActiveRates, RatesOf
    <3> QED
      BY <3>1, <3>2
  <2>2. \A i \in ActiveRates(k) \ admin[a].replaced : rate'[i].terms = rate[i].terms
    BY <1>2, <1>3 DEF ActiveRates, RatesOf
  <2>3. TagsOf(k)' = {rate'[i].terms : i \in (ActiveRates(k) \ admin[a].replaced) \cup {last}}
    BY <2>1 DEF TagsOf
  <2> QED
    BY <1>5, <2>2, <2>3
<1>8. kept \subseteq TagsOf(k)
  BY DEF TagsOf
<1>9. TagsOf(k)' = (TagsOf(k) \ former) \cup {terms} /\ former \in SUBSET TagsOf(k)
  BY <1>7, <1>8
<1> HIDE DEF former, kept, last
<1>10. Tags' = [Tags EXCEPT ![k] = (Tags[k] \ former) \cup {terms}]
  BY <1>1, <1>6, <1>9 DEF Tags
<1>11. Tags[k] = TagsOf(k)
  BY <1>1 DEF Tags
<1>12. ServedRoutes' = ServedRoutes /\ Standings' = Standings
  BY <1>1 DEF ServedRoutes, Standings
<1>13. TheShop!Retag(k, terms, former)
  BY <1>10, <1>12, WelcomeSame, SalesSame DEF TheShop!Retag
<1> QED
  BY <1>1, <1>9, <1>11, <1>13 DEF TheShop!Next

\* Every change of routes and rates is one of the price list, or none.
LEMMA RoutesInShop ==
  ASSUME BookingsInv, RoutesNext, UNCHANGED <<bookingVars, accountVars>>
  PROVE  [TheShop!Next]_(TheShop!vars)
<1>1. UNCHANGED <<account, booking, addressBook, walkInAudit, desk>>
  BY DEF bookingVars, accountVars
<1>2. PICK a \in Admins : AdminStep(a)
  BY DEF RoutesNext
<1>3. RoutesInv /\ admin[a] \in AdminState
  BY DEF BookingsInv, RoutesInv, RoutesTypeOK
<1>4. CASE UNCHANGED <<route, rate>>
  BY <1>1, <1>4, ShopStutters DEF Standings
<1>5. CASE CreateRouteWrite(a) /\ ~UNCHANGED <<route, rate>>
  <2> DEFINE k == admin[a].route
  <2>1. k \in Routes
    BY <1>3, <1>5 DEF CreateRouteWrite, AdminState
  <2>2. /\ rate' = rate /\ k \notin DOMAIN route
        /\ route' = [j \in DOMAIN route \cup {k} |->
                       IF j = k THEN admin[a].isActive ELSE route[j]]
    BY <1>5 DEF CreateRouteWrite, tables
  <2> HIDE DEF k
  <2>3. \A j \in Routes \ {k} :
          (j \in DOMAIN route' /\ route'[j]) <=> (j \in DOMAIN route /\ route[j])
    BY <2>2
  <2> QED
    BY <1>1, <2>1, <2>2, <2>3, ServedStep
<1>6. CASE UpdateRouteWrite(a)
  <2> DEFINE k == admin[a].route
             on == IF admin[a].isActive = {} THEN route[k] ELSE admin[a].isActive = {TRUE}
  <2>1. k \in Routes
    BY <1>3, <1>6 DEF UpdateRouteWrite, AdminState
  <2>2. rate' = rate /\ route' = [route EXCEPT ![k] = on]
    BY <1>6 DEF UpdateRouteWrite
  <2> HIDE DEF k, on
  <2>3. \A j \in Routes \ {k} :
          (j \in DOMAIN route' /\ route'[j]) <=> (j \in DOMAIN route /\ route[j])
    BY <2>2
  <2> QED
    BY <1>1, <2>1, <2>2, <2>3, ServedStep
<1>7. CASE SetRateCommit(a)
  BY <1>1, <1>3, <1>7, RetagStep
<1> QED
  BY <1>2, <1>4, <1>5, <1>6, <1>7 DEF AdminStep, CreateRouteRead, UpdateRouteRead,
     SetRateRead, SetRateDeactivate, AdminFail, tables

\* A change of one account changes the welcome of one person.
LEMMA WelcomeStep ==
  ASSUME NEW u \in Emails, UNCHANGED <<route, rate, booking, addressBook, walkInAudit, desk>>,
         \A v \in Emails \ {u} :
           /\ v \in DOMAIN account' <=> v \in DOMAIN account
           /\ v \in DOMAIN account => account'[v] = account[v]
  PROVE  TheShop!Next
<1> DEFINE by == {byAdmin \in BOOLEAN : u \in WelcomeTo(byAdmin)'}
<1>1. \A byAdmin \in BOOLEAN : \A v \in Emails \ {u} :
        v \in WelcomeTo(byAdmin)' <=> v \in WelcomeTo(byAdmin)
  BY DEF WelcomeTo, NotSuspended, BookingAllowed
<1>2. \A byAdmin \in BOOLEAN :
        WelcomeTo(byAdmin)' \subseteq Emails /\ WelcomeTo(byAdmin) \subseteq Emails
  BY DEF WelcomeTo
<1>3. \A byAdmin \in BOOLEAN :
        WelcomeTo(byAdmin)' = IF byAdmin \in by THEN WelcomeTo(byAdmin) \cup {u}
                                               ELSE WelcomeTo(byAdmin) \ {u}
  BY <1>1, <1>2
<1>4. by \in SUBSET BOOLEAN
  OBVIOUS
<1> HIDE DEF by
<1>5. Welcome' = [byAdmin \in BOOLEAN |-> IF byAdmin \in by THEN Welcome[byAdmin] \cup {u}
                                                         ELSE Welcome[byAdmin] \ {u}]
  BY <1>3 DEF Welcome
<1>6. Standings' = Standings
  BY DEF Standings
<1>7. TheShop!Reconsider(u, by)
  BY <1>5, <1>6, PricesSame, SalesSame DEF TheShop!Reconsider, TheShop!prices
<1> QED
  BY <1>4, <1>7 DEF TheShop!Next

\* Every change of accounts is one of the guest list, or none.
LEMMA AccountsInShop ==
  ASSUME BookingsInv, AccountsNext, UNCHANGED <<bookingVars, routeVars>>
  PROVE  [TheShop!Next]_(TheShop!vars)
<1>1. UNCHANGED <<route, rate, booking, addressBook, walkInAudit, desk>>
  BY DEF bookingVars, routeVars
<1>2. PICK c \in Clerks : ClerkStep(c)
  BY DEF AccountsNext
<1>3. clerk[c] \in ClerkState
  BY DEF BookingsInv, AccountsInv, AccountsTypeOK
<1>4. CASE UNCHANGED account
  BY <1>1, <1>4, ShopStutters DEF Standings
<1>5. CASE RegisterWrite(c) /\ ~UNCHANGED account
  <2>1. PICK u : u = clerk[c].email
    OBVIOUS
  <2>2. u \in Emails
    BY <1>3, <1>5, <2>1 DEF RegisterWrite, ClerkState
  <2>3. /\ u \notin DOMAIN account
        /\ account' = [v \in DOMAIN account \cup {u} |->
                         IF v = u THEN NewAccount(clerk[c].role) ELSE account[v]]
    BY <1>5, <2>1 DEF RegisterWrite
  <2>4. \A v \in Emails \ {u} : v \in DOMAIN account' <=> v \in DOMAIN account
    BY <2>3
  <2>5. \A v \in DOMAIN account \ {u} : account'[v] = account[v]
    BY <2>3
  <2> QED
    BY <1>1, <2>2, <2>4, <2>5, WelcomeStep
<1>6. CASE ReviewWrite(c)
  <2>1. PICK u : u = clerk[c].agent
    OBVIOUS
  <2>2. u \in Emails
    BY <1>3, <1>6, <2>1 DEF ReviewWrite, ClerkState
  <2>3. account' = [account EXCEPT ![u].approvalStatus = clerk[c].verdict]
    BY <1>6, <2>1 DEF ReviewWrite, Review
  <2>4. \A v \in Emails \ {u} :
          /\ v \in DOMAIN account' <=> v \in DOMAIN account
          /\ v \in DOMAIN account => account'[v] = account[v]
    BY <2>3
  <2> QED
    BY <1>1, <2>2, <2>4, WelcomeStep
<1>7. CASE StatusChangeWrite(c)
  <2>1. PICK u : u = clerk[c].user
    OBVIOUS
  <2>2. u \in Emails
    BY <1>3, <1>7, <2>1 DEF StatusChangeWrite, ClerkState
  <2>3. account' = [account EXCEPT ![u].status = clerk[c].to]
    BY <1>7, <2>1 DEF StatusChangeWrite
  <2>4. \A v \in Emails \ {u} :
          /\ v \in DOMAIN account' <=> v \in DOMAIN account
          /\ v \in DOMAIN account => account'[v] = account[v]
    BY <2>3
  <2> QED
    BY <1>1, <2>2, <2>4, WelcomeStep
<1> QED
  BY <1>2, <1>4, <1>5, <1>6, <1>7 DEF ClerkStep, RegisterRead, ReviewRead,
     StatusChangeRead, ClerkBegin, ClerkFail, accountTables

\* Of a client alone.
LEMMA ClientStep ==
  ASSUME BookingsTypeOK, NEW d \in Desks, NEW to,
         UNCHANGED <<route, rate, account, booking, addressBook>>,
         desk' = [desk EXCEPT ![d] = to]
  PROVE  /\ TheShop!Goes(d, StandingOf(to))
         /\ ServedRoutes' = ServedRoutes /\ Tags' = Tags /\ Welcome' = Welcome
         /\ Sales' = Sales /\ Standings[d] = StandingOf(desk[d])
BY StandsIs, PricesSame, WelcomeSame, SalesSame DEF TheShop!Goes, Standings

\* Who gives up leaves.
LEMMA LeaveStep ==
  ASSUME BookingsTypeOK, NEW d \in Desks, DeskFinish(d),
         UNCHANGED <<route, rate, account, booking, addressBook, walkInAudit>>
  PROVE  TheShop!Next
<1>1. StandingOf(DeskIdle) = TheShop!Outside
  BY DEF StandingOf, DeskIdle, TheShop!Outside
<1>2. TheShop!Leave(d)
  BY <1>1, ClientStep DEF DeskFinish, TheShop!Leave, TheShop!prices
<1> QED
  BY <1>2 DEF TheShop!Next

\* Who is checked enters.
LEMMA EnterStep ==
  ASSUME BookingsTypeOK, NEW d \in Desks, NEW asked \in Asked,
         StandingOf(desk[d]) = TheShop!Outside,
         desk' = [desk EXCEPT ![d] = [op |-> "price", asked |-> asked]],
         IF asked.byAdmin THEN NotSuspended(asked.owner) ELSE BookingAllowed(asked.owner),
         asked.weight <= MAX_WEIGHT, asked.saveRecipient => ~asked.byAdmin,
         UNCHANGED <<route, rate, account, booking, addressBook, walkInAudit>>
  PROVE  TheShop!Next
<1>1. StandingOf([op |-> "price", asked |-> asked]) = [at |-> "counter", asked |-> asked]
  BY DEF StandingOf
<1>2. asked.byAdmin \in BOOLEAN /\ asked.owner \in Emails
  BY DEF Asked
<1>3. asked.owner \in Welcome[asked.byAdmin]
  <2>1. asked.owner \in WelcomeTo(asked.byAdmin)
    BY <1>2 DEF WelcomeTo
  <2> QED
    BY <1>2, <2>1 DEF Welcome
<1>4. TheShop!Enter(d, asked)
  <2>1. /\ Standings[d] = TheShop!Outside
        /\ TheShop!Goes(d, [at |-> "counter", asked |-> asked])
        /\ ServedRoutes' = ServedRoutes /\ Tags' = Tags /\ Welcome' = Welcome
        /\ Sales' = Sales
    BY <1>1, ClientStep
  <2> QED
    BY <1>3, <2>1 DEF TheShop!Enter, TheShop!prices, TheShop!MAX_WEIGHT, MAX_WEIGHT
<1>5. asked \in TheShop!Asked
  BY DEF TheShop!Asked, Asked
<1> QED
  BY <1>4, <1>5 DEF TheShop!Next

\* A step of a booking that begins or is checked.
LEMMA EntersInShop ==
  ASSUME BookingsInv, ShopInv, NEW d \in Desks,
         UNCHANGED <<route, rate, account, booking, addressBook, walkInAudit>>,
         \/ \E u \in Emails, k \in Routes, weight \in Weights :
              \/ \E save \in BOOLEAN : CreateRead(d, u, k, weight, save)
              \/ WalkInRead(d, u, k, weight)
         \/ \E i \in DOMAIN booking : DuplicateRead(d, i)
         \/ DuplicateCheck(d)
  PROVE  [TheShop!Next]_(TheShop!vars) /\ WithinLimit(desk'[d])
<1> USE DEF BookingsInv
<1>1. desk[d] = DeskIdle \/ desk[d].op = "check" => StandingOf(desk[d]) = TheShop!Outside
  BY DEF StandingOf, DeskIdle, TheShop!Outside
<1>2. CASE \E u \in Emails, k \in Routes, weight \in Weights, save \in BOOLEAN :
             CreateRead(d, u, k, weight, save)
  <2>1. PICK u \in Emails, k \in Routes, weight \in Weights, save \in BOOLEAN :
          CreateRead(d, u, k, weight, save)
    BY <1>2
  <2>2. PICK asked : asked = [owner |-> u, route |-> k, weight |-> weight,
                              byAdmin |-> FALSE, saveRecipient |-> save]
    OBVIOUS
  <2>3. asked \in Asked /\ asked.owner = u /\ asked.weight = weight /\ asked.byAdmin = FALSE
    BY <2>2 DEF Asked
  <2>4. /\ desk[d] = DeskIdle /\ BookingAllowed(u) /\ weight <= MAX_WEIGHT
        /\ desk' = [desk EXCEPT ![d] = [op |-> "price", asked |-> asked]]
    BY <2>1, <2>2 DEF CreateRead, DeskBegin
  <2>5. TheShop!Next
    BY <1>1, <2>3, <2>4, EnterStep
  <2>6. desk'[d].op = "price" /\ desk'[d].asked = asked
    BY <2>4 DEF BookingsTypeOK
  <2> QED
    BY <2>3, <2>4, <2>5, <2>6 DEF WithinLimit
<1>3. CASE \E u \in Emails, k \in Routes, weight \in Weights :
             WalkInRead(d, u, k, weight)
  <2>1. PICK u \in Emails, k \in Routes, weight \in Weights :
          WalkInRead(d, u, k, weight)
    BY <1>3
  <2>2. PICK asked : asked = [owner |-> u, route |-> k, weight |-> weight,
                              byAdmin |-> TRUE, saveRecipient |-> FALSE]
    OBVIOUS
  <2>3. /\ asked \in Asked /\ asked.owner = u /\ asked.weight = weight
        /\ asked.byAdmin = TRUE /\ asked.saveRecipient = FALSE
    BY <2>2 DEF Asked
  <2>4. /\ desk[d] = DeskIdle /\ NotSuspended(u) /\ weight <= MAX_WEIGHT
        /\ desk' = [desk EXCEPT ![d] = [op |-> "price", asked |-> asked]]
    BY <2>1, <2>2 DEF WalkInRead, DeskBegin, NotSuspended
  <2>5. TheShop!Next
    BY <1>1, <2>3, <2>4, EnterStep
  <2>6. desk'[d].op = "price" /\ desk'[d].asked = asked
    BY <2>4 DEF BookingsTypeOK
  <2> QED
    BY <2>3, <2>4, <2>5, <2>6 DEF WithinLimit
<1>4. CASE \E i \in DOMAIN booking : DuplicateRead(d, i)
  <2>1. PICK i \in DOMAIN booking : DuplicateRead(d, i)
    BY <1>4
  <2>2. PICK asked : asked = [owner |-> booking[i].owner, route |-> booking[i].route,
                              weight |-> booking[i].declaredWeight,
                              byAdmin |-> FALSE, saveRecipient |-> FALSE]
    OBVIOUS
  <2>3. desk[d] = DeskIdle /\ desk' = [desk EXCEPT ![d] = [op |-> "check", asked |-> asked]]
    BY <2>1, <2>2 DEF DuplicateRead, DeskBegin
  <2>4. StandingOf([op |-> "check", asked |-> asked]) = StandingOf(DeskIdle)
    BY DEF StandingOf, DeskIdle
  <2>5. Standings' = Standings
    BY <2>3, <2>4, StandsIs
  <2>6. desk'[d].op = "check" /\ desk'[d].asked = asked
    BY <2>3 DEF BookingsTypeOK
  <2>7. asked.weight <= MAX_WEIGHT /\ asked.byAdmin = FALSE
    BY <2>2 DEF ShopInv
  <2> QED
    BY <2>5, <2>6, <2>7, ShopStutters DEF WithinLimit
<1>5. CASE DuplicateCheck(d)
  <2>1. PICK asked : asked = desk[d].asked
    OBVIOUS
  <2>2. /\ desk[d].op = "check" /\ asked \in Asked
        /\ asked.weight <= MAX_WEIGHT /\ ~asked.byAdmin
    BY <1>5, <2>1, PlanIs DEF DuplicateCheck, ShopInv
  <2>3. desk[d] = [op |-> "check", asked |-> asked]
    BY <2>1, <2>2, PlanIs DEF DeskState
  <2>4. [desk[d] EXCEPT !.op = "price"] = [op |-> "price", asked |-> asked]
    BY <2>3
  <2>5. CASE DeskFinish(d)
    <3>1. desk'[d].op = "idle"
      BY <2>5 DEF DeskFinish, DeskIdle, BookingsTypeOK
    <3> QED
      BY <2>5, <3>1, LeaveStep DEF WithinLimit
  <2>6. CASE ~DeskFinish(d)
    <3>1. BookingAllowed(asked.owner) /\ Continue(d, [op |-> "price", asked |-> asked])
      BY <1>5, <2>1, <2>4, <2>6 DEF DuplicateCheck
    <3>2. TheShop!Next
      BY <1>1, <2>2, <3>1, EnterStep DEF Continue
    <3>3. desk'[d].op = "price" /\ desk'[d].asked = asked
      BY <3>1 DEF BookingsTypeOK, Continue
    <3> QED
      BY <2>2, <3>2, <3>3 DEF WithinLimit
  <2> QED
    BY <2>5, <2>6
<1> QED
  BY <1>2, <1>3, <1>4, <1>5

\* A price in force is a quote.
LEMMA QuoteInShop ==
  ASSUME BookingsInv, ShopInv, NEW d \in Desks, Price(d),
         UNCHANGED <<route, rate, account, booking, addressBook, walkInAudit>>
  PROVE  TheShop!Next /\ WithinLimit(desk'[d])
<1> USE DEF BookingsInv
<1>1. PICK asked : asked = desk[d].asked
  OBVIOUS
<1>2. desk[d].op = "price" /\ asked \in Asked /\ asked.weight <= MAX_WEIGHT
  BY <1>1, PlanIs DEF Price, ShopInv
<1>3. CASE DeskFinish(d)
  <2>1. desk'[d].op = "idle"
    BY <1>3 DEF DeskFinish, DeskIdle, BookingsTypeOK
  <2> QED
    BY <1>3, <2>1, LeaveStep DEF WithinLimit
<1>4. CASE ~DeskFinish(d)
  <2>1. PICK i \in Pricing(asked.route) :
          desk' = [desk EXCEPT ![d] = [op |-> "number", asked |-> asked,
                                       terms |-> rate[i].terms, attempt |-> 0]]
    BY <1>1, <1>4 DEF Price, Continue
  <2>2. PICK terms : terms = rate[i].terms
    OBVIOUS
  <2>3. asked.route \in Routes /\ asked.route \in ServedRoutes /\ terms \in TagsOf(asked.route)
    BY <1>2, <2>2 DEF Asked, Pricing, ServedRoutes, TagsOf
  <2>4. terms \in Offers
    BY <2>2, HistoryIs DEF RoutesInv, RateRow, Pricing, ActiveRates, RatesOf
  <2>5. terms \in Tags[asked.route]
    BY <2>3 DEF Tags
  <2>6. StandingOf(desk[d]) = [at |-> "counter", asked |-> asked]
    BY <1>1, <1>2 DEF StandingOf
  <2>7. StandingOf([op |-> "number", asked |-> asked, terms |-> terms, attempt |-> 0]) =
          [at |-> "quoted", asked |-> asked, terms |-> terms]
    BY DEF StandingOf
  <2>8. TheShop!Quote(d, terms)
    <3>1. desk' = [desk EXCEPT ![d] = [op |-> "number", asked |-> asked,
                                       terms |-> terms, attempt |-> 0]]
      BY <2>1, <2>2
    <3>2. /\ Standings[d] = [at |-> "counter", asked |-> asked]
          /\ TheShop!Goes(d, [at |-> "quoted", asked |-> asked, terms |-> terms])
          /\ ServedRoutes' = ServedRoutes /\ Tags' = Tags /\ Welcome' = Welcome
          /\ Sales' = Sales
      BY <2>6, <2>7, <3>1, ClientStep
    <3> QED
      BY <2>3, <2>5, <3>2 DEF TheShop!Quote, TheShop!prices
  <2>9. desk'[d].op = "number" /\ desk'[d].asked = asked
    BY <2>1 DEF BookingsTypeOK
  <2> QED
    BY <1>2, <2>4, <2>8, <2>9 DEF TheShop!Next, WithinLimit
<1> QED
  BY <1>3, <1>4

\* To draw a number changes nothing, unless it is given up.
LEMMA DrawInShop ==
  ASSUME BookingsInv, ShopInv, NEW d \in Desks, NEW number \in Numbers, DrawNumber(d, number),
         UNCHANGED <<route, rate, account, booking, addressBook, walkInAudit>>
  PROVE  [TheShop!Next]_(TheShop!vars) /\ WithinLimit(desk'[d])
<1> USE DEF BookingsInv
<1>1. PICK asked, terms, attempt : desk[d] = [op |-> "number", asked |-> asked,
                                              terms |-> terms, attempt |-> attempt]
  <2>1. desk[d].op = "number" /\ desk[d] \in DeskState
    BY PlanIs DEF DrawNumber
  <2>2. desk[d] = [op |-> "number", asked |-> desk[d].asked, terms |-> desk[d].terms,
                   attempt |-> desk[d].attempt]
    BY <2>1 DEF DeskState
  <2> QED
    BY <2>2
<1>2. asked.weight <= MAX_WEIGHT
  BY <1>1 DEF ShopInv
<1>3. CASE DeskFinish(d)
  <2>1. desk'[d].op = "idle"
    BY <1>3 DEF DeskFinish, DeskIdle, BookingsTypeOK
  <2> QED
    BY <1>3, <2>1, LeaveStep DEF WithinLimit
<1>4. ASSUME NEW plan, desk' = [desk EXCEPT ![d] = plan],
             plan.op \in {"number", "insert"}, plan.asked = asked, plan.terms = terms
      PROVE  [TheShop!Next]_(TheShop!vars) /\ WithinLimit(desk'[d])
  <2>1. StandingOf(plan) = StandingOf(desk[d])
    BY <1>1, <1>4 DEF StandingOf
  <2>2. Standings' = Standings /\ desk'[d] = plan
    BY <1>4, <2>1, StandsIs
  <2> QED
    BY <1>2, <1>4, <2>2, ShopStutters DEF WithinLimit
<1>5. CASE Continue(d, [desk[d] EXCEPT !.attempt = @ + 1])
  <2>1. PICK plan : plan = [op |-> "number", asked |-> asked, terms |-> terms,
                            attempt |-> attempt + 1]
    OBVIOUS
  <2>2. [desk[d] EXCEPT !.attempt = @ + 1] = plan
    BY <1>1, <2>1
  <2>3. plan.op = "number" /\ plan.asked = asked /\ plan.terms = terms
    BY <2>1
  <2> QED
    BY <1>4, <1>5, <2>2, <2>3 DEF Continue
<1>6. CASE Continue(d, [op |-> "insert", asked |-> desk[d].asked,
                        terms |-> desk[d].terms, number |-> number])
  <2>1. PICK plan : plan = [op |-> "insert", asked |-> asked, terms |-> terms,
                            number |-> number]
    OBVIOUS
  <2>2. plan.op = "insert" /\ plan.asked = asked /\ plan.terms = terms
    BY <2>1
  <2>3. desk' = [desk EXCEPT ![d] = plan]
    BY <1>1, <1>6, <2>1 DEF Continue
  <2> QED
    BY <1>4, <2>2, <2>3
<1> QED
  BY <1>3, <1>5, <1>6 DEF DrawNumber

\* A booking that is made is one sale more, and leaves the earlier ones as they were.
LEMMA SalesStep ==
  ASSUME BookingsInv, NEW d \in Desks, Insert(d), ~UNCHANGED <<booking, addressBook>>
  PROVE  /\ Len(Sales) = Len(booking)
         /\ \A i \in DOMAIN Sales : Sales[i].number # desk[d].number
         /\ Sales' = Append(Sales, TheShop!Sale(desk[d].asked, desk[d].terms,
                                                desk[d].number))
<1> USE DEF BookingsInv
<1>1. PICK asked, terms, number, n : /\ asked = desk[d].asked /\ terms = desk[d].terms
                                     /\ number = desk[d].number /\ n = Len(booking)
  OBVIOUS
<1>2. /\ asked \in Asked /\ terms \in Offers /\ number \in Numbers
      /\ n \in Nat /\ DOMAIN booking = 1 .. n /\ n + 1 \notin DOMAIN booking
  BY <1>1, PlanIs, BookingsAre DEF Insert
<1>3. /\ DOMAIN booking' = 1 .. n + 1
      /\ \A i \in 1 .. n : booking'[i] = booking[i]
      /\ booking'[n + 1] = RowOf(asked, terms, number)
      /\ number \notin NumbersTaken
      /\ addressBook' = addressBook \cup SavedRecipient(asked, n + 1)
  BY <1>1, <1>2, InsertIs
<1>4. ASSUME NEW i \in 1 .. n
      PROVE  SaleOf(i)' = SaleOf(i)
  <2>1. i # n + 1
    BY <1>2
  <2>2. \A u : <<u, i>> \in addressBook' <=> <<u, i>> \in addressBook
    BY <1>3, <2>1 DEF SavedRecipient
  <2>3. (<<booking[i].owner, i>> \in addressBook') = (<<booking[i].owner, i>> \in addressBook)
    BY <2>2
  <2> QED
    BY <1>3, <2>3 DEF SaleOf
<1>5. SaleOf(n + 1)' = TheShop!Sale(asked, terms, number)
  <2>1. PICK row : row = RowOf(asked, terms, number)
    OBVIOUS
  <2>2. /\ row.owner = asked.owner /\ row.route = asked.route /\ row.number = number
        /\ row.byAdmin = asked.byAdmin /\ row.rate = terms
        /\ row.declaredWeight = asked.weight
        /\ row.totalAmount = calculateTariff(asked.weight, terms).total
        /\ row.outstandingAmount = calculateTariff(asked.weight, terms).total
    BY <1>2, <2>1, RowIs
  <2>3. calculateTariff(asked.weight, terms) = TheShop!calculateTariff(asked.weight, terms)
    BY DEF calculateTariff, weightFeeOf, chargeableWeightOf, AtLeast, CeilKg, RoundUp100,
       TheShop!calculateTariff, TheShop!weightFeeOf, TheShop!chargeableWeightOf,
       TheShop!AtLeast, TheShop!CeilKg, TheShop!RoundUp100
  <2>4. asked.saveRecipient \in BOOLEAN
    BY <1>2 DEF Asked
  <2>5. <<asked.owner, n + 1>> \notin addressBook
    BY <1>2 DEF SavedWithItsBooking
  <2>6. <<asked.owner, n + 1>> \in addressBook' <=> asked.saveRecipient
    BY <1>3, <2>5 DEF SavedRecipient
  <2>7. (<<asked.owner, n + 1>> \in addressBook') = asked.saveRecipient
    BY <2>4, <2>6
  <2> QED
    BY <1>3, <2>1, <2>2, <2>3, <2>7 DEF SaleOf, TheShop!Sale
<1>6. /\ Sales = [i \in 1 .. n |-> SaleOf(i)]
      /\ Sales' = [i \in 1 .. n + 1 |-> SaleOf(i)']
  BY <1>2, <1>3 DEF Sales
<1>7. PICK new : new = TheShop!Sale(asked, terms, number)
  OBVIOUS
<1>8. Sales' = Append(Sales, new)
  <2>1. PICK S : S = {Sales[i] : i \in 1 .. n} \cup {new}
    OBVIOUS
  <2>2. Sales \in [1 .. n -> S]
    BY <1>6, <2>1
  <2>3. Sales \in Seq(S) /\ Len(Sales) = n /\ new \in S
    BY <1>2, <2>1, <2>2
  <2>4. /\ Append(Sales, new) \in Seq(S)
        /\ Len(Append(Sales, new)) = n + 1
        /\ \A i \in 1 .. n : Append(Sales, new)[i] = Sales[i]
        /\ Append(Sales, new)[n + 1] = new
    BY <1>2, <2>3
  <2>5. Append(Sales, new) = [i \in 1 .. n + 1 |-> Append(Sales, new)[i]]
    <3>1. PICK all : all = Append(Sales, new)
      OBVIOUS
    <3>2. all \in Seq(S) /\ Len(all) = n + 1
      BY <2>4, <3>1
    <3>3. all \in [1 .. n + 1 -> S]
      BY <3>2
    <3>4. all = [i \in 1 .. n + 1 |-> all[i]]
      BY <3>3
    <3> QED
      BY <3>1, <3>4
  <2>6. \A i \in 1 .. n + 1 : Append(Sales, new)[i] = SaleOf(i)'
    BY <1>2, <1>4, <1>5, <1>6, <1>7, <2>4
  <2> QED
    BY <1>6, <2>5, <2>6
<1>9. Len(Sales) = n /\ DOMAIN Sales = 1 .. n
  BY <1>2, <1>6
<1>10. \A i \in DOMAIN Sales : Sales[i].number # number
  BY <1>2, <1>3, <1>6, <1>9 DEF SaleOf, NumbersTaken
<1> QED
  BY <1>1, <1>7, <1>8, <1>9, <1>10

\* An insert is a purchase, or a client lost to the unique index.
LEMMA BuyInShop ==
  ASSUME BookingsInv, NEW d \in Desks, Insert(d),
         UNCHANGED <<route, rate, account, walkInAudit>>
  PROVE  TheShop!Next
<1> USE DEF BookingsInv
<1>1. CASE UNCHANGED <<booking, addressBook>>
  <2>1. Len(booking) \in Nat
    BY BookingsAre
  <2>2. DeskFinish(d)
    BY <1>1, <2>1, InsertIs
  <2> QED
    BY <1>1, <2>2, LeaveStep
<1>2. CASE ~UNCHANGED <<booking, addressBook>>
  <2>1. PICK asked, terms, number, n : /\ asked = desk[d].asked /\ terms = desk[d].terms
                                       /\ number = desk[d].number /\ n = Len(booking)
    OBVIOUS
  <2>2. desk[d].op = "insert" /\ number \in Numbers
    BY <2>1, PlanIs DEF Insert
  <2>3. StandingOf(desk[d]) = [at |-> "quoted", asked |-> asked, terms |-> terms]
    BY <2>1, <2>2 DEF StandingOf
  <2>4. Standings[d] = [at |-> "quoted", asked |-> asked, terms |-> terms]
    BY <2>3 DEF Standings
  <2>5. PICK to : /\ to = IF asked.byAdmin THEN [op |-> "audit", booking |-> n + 1] ELSE DeskIdle
                  /\ desk' = [desk EXCEPT ![d] = to]
    BY <1>2, <2>1 DEF Insert, Continue, DeskFinish
  <2>6. StandingOf(to) = IF asked.byAdmin THEN [at |-> "record", sale |-> n + 1]
                                          ELSE TheShop!Outside
    BY <2>5 DEF StandingOf, DeskIdle, TheShop!Outside
  <2>7. TheShop!Goes(d, IF asked.byAdmin THEN [at |-> "record", sale |-> n + 1]
                                         ELSE TheShop!Outside)
    <3>1. BookingsTypeOK
      BY DEF BookingsInv
    <3>2. Standings' = [Standings EXCEPT ![d] = StandingOf(to)]
      BY <2>5, <3>1, StandsIs
    <3> QED
      BY <2>6, <3>2 DEF TheShop!Goes
  <2>8. /\ Len(Sales) = n
        /\ \A i \in DOMAIN Sales : Sales[i].number # number
        /\ Sales' = Append(Sales, TheShop!Sale(asked, terms, number))
    BY <1>2, <2>1, SalesStep
  <2>9. TheShop!Buy(d, number)
    BY <2>4, <2>7, <2>8, PricesSame, WelcomeSame DEF TheShop!Buy, TheShop!prices
  <2> QED
    BY <2>2, <2>9 DEF TheShop!Next
<1> QED
  BY <1>1, <1>2

\* The audit row of a walk-in is its record.
LEMMA RecordInShop ==
  ASSUME BookingsInv, NEW d \in Desks, AuditWalkIn(d),
         UNCHANGED <<route, rate, account, booking, addressBook>>
  PROVE  TheShop!Next
<1>1. desk[d].op = "audit" /\ walkInAudit' = walkInAudit \cup {desk[d].booking}
  BY DEF AuditWalkIn
<1>2. StandingOf(desk[d]) = [at |-> "record", sale |-> desk[d].booking]
  BY <1>1 DEF StandingOf
<1>3. StandingOf(DeskIdle) = TheShop!Outside
  BY DEF StandingOf, DeskIdle, TheShop!Outside
<1>4. desk' = [desk EXCEPT ![d] = DeskIdle]
  BY DEF AuditWalkIn, DeskFinish
<1>5. /\ Standings[d] = [at |-> "record", sale |-> desk[d].booking]
      /\ TheShop!Goes(d, TheShop!Outside)
      /\ ServedRoutes' = ServedRoutes /\ Tags' = Tags /\ Welcome' = Welcome
      /\ Sales' = Sales
  BY <1>2, <1>3, <1>4, ClientStep DEF BookingsInv
<1>6. TheShop!Record(d)
  BY <1>1, <1>5 DEF TheShop!Record, TheShop!prices
<1> QED
  BY <1>6 DEF TheShop!Next

\* Every step of a booking is one of a client, or none, and asks for no more than
\* the limit.
LEMMA DeskStepInShop ==
  ASSUME BookingsInv, ShopInv, NEW d \in Desks, DeskStep(d), UNCHANGED otherVars
  PROVE  [TheShop!Next]_(TheShop!vars) /\ WithinLimit(desk'[d])
<1>1. UNCHANGED <<route, rate, account>>
  BY DEF otherVars, routeVars, accountVars
<1>2. BookingsTypeOK
  BY DEF BookingsInv
<1>3. ASSUME DeskFinish(d)
      PROVE  WithinLimit(desk'[d])
  <2>1. desk'[d].op = "idle"
    BY <1>2, <1>3 DEF DeskFinish, DeskIdle, BookingsTypeOK
  <2> QED
    BY <2>1 DEF WithinLimit
<1>4. CASE Inquire(d) /\ UNCHANGED bookingTables
  <2>1. UNCHANGED <<booking, addressBook, walkInAudit>>
    BY <1>4 DEF bookingTables
  <2>2. CASE \/ \E u \in Emails, k \in Routes, weight \in Weights :
                  \/ \E save \in BOOLEAN : CreateRead(d, u, k, weight, save)
                  \/ WalkInRead(d, u, k, weight)
             \/ \E i \in DOMAIN booking : DuplicateRead(d, i)
             \/ DuplicateCheck(d)
    BY <1>1, <2>1, <2>2, EntersInShop
  <2>3. CASE Price(d)
    BY <1>1, <2>1, <2>3, QuoteInShop
  <2>4. CASE \E number \in Numbers : DrawNumber(d, number)
    BY <1>1, <2>1, <2>4, DrawInShop
  <2>5. CASE DeskFail(d)
    BY <1>1, <1>2, <1>3, <2>1, <2>5, LeaveStep DEF DeskFail
  <2> QED
    BY <1>4, <2>2, <2>3, <2>4, <2>5 DEF Inquire
<1>5. CASE Insert(d) /\ UNCHANGED walkInAudit
  <2>1. TheShop!Next
    BY <1>1, <1>5, BuyInShop
  <2>2. CASE DeskFinish(d)
    BY <1>3, <2>1, <2>2
  <2>3. CASE ~DeskFinish(d)
    <3>1. desk'[d].op = "audit"
      BY <1>2, <1>5, <2>3 DEF Insert, Continue, BookingsTypeOK
    <3> QED
      BY <2>1, <3>1 DEF WithinLimit
  <2> QED
    BY <2>2, <2>3
<1>6. CASE AuditWalkIn(d) /\ UNCHANGED <<booking, addressBook>>
  BY <1>1, <1>3, <1>6, RecordInShop DEF AuditWalkIn
<1> QED
  BY <1>4, <1>5, <1>6 DEF DeskStep

\* No step of a booking lets anything heavier be asked for, booked or copied.
LEMMA DeskKeepsShopInv ==
  ASSUME BookingsInv, ShopInv, NEW d \in Desks, DeskStep(d), UNCHANGED otherVars
  PROVE  ShopInv'
<1> USE DEF BookingsInv
<1>1. \A b \in Desks : WithinLimit(desk'[b])
  <2>1. WithinLimit(desk'[d])
    BY DeskStepInShop
  <2>2. ASSUME NEW b \in Desks, b # d
        PROVE  WithinLimit(desk'[b])
    BY <2>2, OtherSlots DEF ShopInv, WithinLimit
  <2> QED
    BY <2>1, <2>2
<1>2. \A i \in DOMAIN booking' : booking'[i].declaredWeight <= MAX_WEIGHT
  <2>1. CASE UNCHANGED booking
    BY <2>1 DEF ShopInv
  <2>2. CASE Insert(d) /\ ~UNCHANGED booking
    <3>1. PICK asked, terms, number : asked = desk[d].asked /\ terms = desk[d].terms
                                      /\ number = desk[d].number
      OBVIOUS
    <3>2. /\ asked \in Asked /\ terms \in Offers /\ number \in Numbers
          /\ asked.weight <= MAX_WEIGHT
      BY <2>2, <3>1, PlanIs DEF Insert, ShopInv
    <3>3. /\ DOMAIN booking' = 1 .. Len(booking) + 1
          /\ \A i \in DOMAIN booking : booking'[i] = booking[i]
          /\ booking'[Len(booking) + 1] = RowOf(asked, terms, number)
      BY <2>2, <3>1, InsertIs
    <3>4. RowOf(asked, terms, number).declaredWeight = asked.weight
      BY <3>2, RowIs
    <3>5. Len(booking) \in Nat /\ DOMAIN booking = 1 .. Len(booking)
      BY BookingsAre
    <3>6. \A i \in DOMAIN booking' : i \in DOMAIN booking \/ i = Len(booking) + 1
      BY <3>3, <3>5
    <3> QED
      BY <3>2, <3>3, <3>4, <3>6 DEF ShopInv
  <2> QED
    BY <2>1, <2>2 DEF DeskStep, bookingTables
<1> QED
  BY <1>1, <1>2 DEF ShopInv, WithinLimit

\* An opening day: prices and guests as the seed left them, nobody inside, nothing sold.
LEMMA ShopOpens ==
  ASSUME Init
  PROVE  TheShop!Init /\ ShopInv
<1>1. RoutesTypeOK
  BY RoutesInitInv DEF Init, RoutesInv
<1>2. ServedRoutes \in SUBSET Routes
  BY DEF ServedRoutes
<1>3. Tags \in [Routes -> SUBSET Offers]
  <2>1. ASSUME NEW k \in Routes
        PROVE  TagsOf(k) \subseteq Offers
    BY <1>1, HistoryIs DEF TagsOf, ActiveRates, RatesOf, RateRow
  <2> QED
    BY <2>1 DEF Tags
<1>4. Welcome \in [BOOLEAN -> SUBSET Emails]
  BY DEF Welcome, WelcomeTo
<1>5. Standings = [d \in Desks |-> TheShop!Outside]
  <2>1. StandingOf(DeskIdle) = TheShop!Outside
    BY DEF StandingOf, DeskIdle, TheShop!Outside
  <2> QED
    BY <2>1 DEF Standings, Init
<1>6. Sales = <<>>
  BY DEF Init, Sales
<1>7. ShopInv
  BY DEF ShopInv, Init, DeskIdle
<1> QED
  BY <1>2, <1>3, <1>4, <1>5, <1>6, <1>7 DEF TheShop!Init, Init

\* However routes, rates, accounts and bookings overlap and fail, every booking is of
\* a request that was let in once, quoted a price in force on a route then served, and
\* made once, whole, with its saved recipient, at that price: the chains of awaits
\* implement Shop (create, duplicate, createWalkIn, getPricing, nextTrackingNumber,
\* setRate).
THEOREM BookingsKeepShop == Spec => KeepsShop
<1>1. Init => TheShop!Init /\ ShopInv
  BY ShopOpens
<1>2. BookingsInv /\ ShopInv /\ [Next]_vars => ShopInv' /\ [TheShop!Next]_(TheShop!vars)
  <2> SUFFICES ASSUME BookingsInv, ShopInv, [Next]_vars
               PROVE  ShopInv' /\ [TheShop!Next]_(TheShop!vars)
    OBVIOUS
  <2>1. CASE RoutesNext /\ UNCHANGED <<bookingVars, accountVars>>
    <3>1. UNCHANGED <<booking, desk>>
      BY <2>1 DEF bookingVars
    <3> QED
      BY <2>1, <3>1, RoutesInShop DEF ShopInv
  <2>2. CASE AccountsNext /\ UNCHANGED <<bookingVars, routeVars>>
    <3>1. UNCHANGED <<booking, desk>>
      BY <2>2 DEF bookingVars
    <3> QED
      BY <2>2, <3>1, AccountsInShop DEF ShopInv
  <2>3. CASE BookingsNext /\ UNCHANGED otherVars
    <3>1. PICK d \in Desks : DeskStep(d)
      BY <2>3 DEF BookingsNext
    <3> QED
      BY <2>3, <3>1, DeskStepInShop, DeskKeepsShopInv
  <2>4. CASE UNCHANGED vars
    <3>1. UNCHANGED <<route, rate, account, booking, addressBook, walkInAudit, desk>>
      BY <2>4 DEF vars, bookingVars, otherVars, routeVars, accountVars
    <3>2. Standings' = Standings
      BY <3>1 DEF Standings
    <3> QED
      BY <3>1, <3>2, ShopStutters DEF ShopInv
  <2> QED
    BY <2>1, <2>2, <2>3, <2>4 DEF Next
<1> QED
  BY <1>1, <1>2, BookingsInvariant, PTL DEF Spec, KeepsShop, TheShop!Spec

===============================================================================
