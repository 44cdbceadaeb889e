---------------------------- MODULE SeedingProofs -----------------------------
(***************************************************************************)
(* What one may rely on, whatever number of people register and book while *)
(* the seed runs, breaks off and is run again: in production its accounts  *)
(* stay and an admin means that the routes are complete; anywhere its      *)
(* statements find what they need, a proof of payment has its file, and    *)
(* what the sample shipments tell could have happened; and a run that ends *)
(* leaves bills that agree and the figures that the README announces.      *)
(***************************************************************************)
EXTENDS Seeding, SequenceTheorems, FiniteSetTheorems, WellFoundedInduction,
        TLAPS

-------------------------------------------------------------------------------
(* The program of a production seed, statement by statement.               *)

Statements ==
  {clean[i] : i \in DOMAIN clean} \cup {seedRoutes[i] : i \in DOMAIN seedRoutes}
    \cup {seedAdmin[1]}

LEMMA ConcatIs ==
  ASSUME NEW S, NEW s \in Seq(S), NEW t \in Seq(S)
  PROVE  /\ s \o t \in Seq(S) /\ Len(s \o t) = Len(s) + Len(t)
         /\ \A k \in 1..Len(s) : (s \o t)[k] = s[k]
         /\ \A k \in 1..Len(t) : (s \o t)[Len(s) + k] = t[k]
<1>1. /\ s \o t \in Seq(S) /\ Len(s \o t) = Len(s) + Len(t)
      /\ Len(s) \in Nat /\ Len(t) \in Nat
      /\ \A k \in 1..(Len(s) + Len(t)) :
           (s \o t)[k] = IF k <= Len(s) THEN s[k] ELSE t[k - Len(s)]
  BY ConcatProperties, LenProperties
<1>2. ASSUME NEW k \in 1..Len(t)
      PROVE  (s \o t)[Len(s) + k] = t[k]
  <2>1. /\ Len(s) + k \in 1..(Len(s) + Len(t)) /\ ~(Len(s) + k <= Len(s))
        /\ (Len(s) + k) - Len(s) = k
    BY <1>1
  <2> QED
    BY <1>1, <2>1
<1> QED
  BY <1>1, <1>2

LEMMA CleanIs ==
  /\ clean \in Seq(Statements) /\ Len(clean) = 12
  /\ \A k \in 1..12 : clean[k].do = "deleteMany"
<1>1. Len(clean) = 12 /\ DOMAIN clean = 1..12
  BY DEF clean
<1>2. clean \in Seq({clean[i] : i \in DOMAIN clean})
  BY DEF clean
<1>3. \A k \in 1..12 : clean[k].do = "deleteMany"
  BY DEF clean, deleteMany
<1> QED
  BY <1>1, <1>2, <1>3, SeqMonotonic DEF Statements

LEMMA RoutesAre ==
  /\ Len(ROUTES) \in Nat /\ DOMAIN ROUTES = 1..Len(ROUTES)
  /\ seedRoutes \in Seq(Statements) /\ Len(seedRoutes) = Len(ROUTES)
<1>1. Len(ROUTES) \in Nat /\ DOMAIN ROUTES = 1..Len(ROUTES)
  BY DEF ROUTES
<1>2. seedRoutes \in [1..Len(ROUTES) -> {seedRoutes[i] : i \in DOMAIN seedRoutes}]
  BY <1>1 DEF seedRoutes
<1>3. /\ seedRoutes \in Seq({seedRoutes[i] : i \in DOMAIN seedRoutes})
      /\ Len(seedRoutes) = Len(ROUTES)
  BY <1>1, <1>2
<1> QED
  BY <1>1, <1>3, SeqMonotonic DEF Statements

LEMMA MinimalProgramIs ==
  LET n == Len(ROUTES)
  IN  /\ n \in Nat /\ DOMAIN ROUTES = 1..n
      /\ DOMAIN MinimalProgram = 1..(n + 13) /\ Len(MinimalProgram) = n + 13
      /\ \A k \in 1..12 : MinimalProgram[k].do = "deleteMany"
      /\ \A i \in 1..n : MinimalProgram[12 + i] = seedRoutes[i]
      /\ MinimalProgram[n + 13] = seedAdmin[1]
<1> DEFINE n == Len(ROUTES)
<1>1. n \in Nat /\ DOMAIN ROUTES = 1..n /\ Len(clean) = 12 /\ Len(seedRoutes) = n
  BY CleanIs, RoutesAre
<1>2. seedAdmin \in Seq(Statements) /\ Len(seedAdmin) = 1
  <2>1. seedAdmin \in Seq({seedAdmin[1]}) /\ Len(seedAdmin) = 1
    BY DEF seedAdmin
  <2> QED
    BY <2>1, SeqMonotonic DEF Statements
<1> DEFINE most == clean \o seedRoutes
<1>3. /\ most \in Seq(Statements) /\ Len(most) = 12 + n
      /\ \A k \in 1..12 : most[k] = clean[k]
      /\ \A k \in 1..n : most[12 + k] = seedRoutes[k]
  <2>1. clean \in Seq(Statements) /\ seedRoutes \in Seq(Statements)
    BY CleanIs, RoutesAre
  <2>2. /\ most \in Seq(Statements) /\ Len(most) = Len(clean) + Len(seedRoutes)
        /\ \A k \in 1..Len(clean) : most[k] = clean[k]
        /\ \A k \in 1..Len(seedRoutes) : most[Len(clean) + k] = seedRoutes[k]
    BY <2>1, ConcatIs
  <2> HIDE DEF most, n
  <2> QED
    BY <1>1, <2>2
<1>4. MinimalProgram = most \o seedAdmin
  BY DEF MinimalProgram
<1> HIDE DEF most, n
<1>5. /\ MinimalProgram \in Seq(Statements) /\ Len(MinimalProgram) = (12 + n) + 1
      /\ \A k \in 1..(12 + n) : MinimalProgram[k] = most[k]
      /\ MinimalProgram[(12 + n) + 1] = seedAdmin[1]
  <2>0. most \in Seq(Statements) /\ seedAdmin \in Seq(Statements)
    BY <1>2, <1>3
  <2>1. /\ most \o seedAdmin \in Seq(Statements)
        /\ Len(most \o seedAdmin) = Len(most) + Len(seedAdmin)
        /\ \A k \in 1..Len(most) : (most \o seedAdmin)[k] = most[k]
        /\ \A k \in 1..Len(seedAdmin) : (most \o seedAdmin)[Len(most) + k] = seedAdmin[k]
    BY <2>0, ConcatIs
  <2> QED
    BY <1>2, <1>3, <1>4, <2>1
<1>6. /\ Len(MinimalProgram) = n + 13 /\ DOMAIN MinimalProgram = 1..(n + 13)
      /\ MinimalProgram[n + 13] = seedAdmin[1]
  BY <1>1, <1>5, LenProperties
<1>7. \A k \in 1..12 : MinimalProgram[k].do = "deleteMany"
  BY <1>1, <1>3, <1>5, CleanIs
<1>8. ASSUME NEW i \in 1..n
      PROVE  MinimalProgram[12 + i] = seedRoutes[i]
  <2>1. 12 + i \in 1..(12 + n)
    BY <1>1
  <2> QED
    BY <1>3, <1>5, <2>1
<1> QED
  BY <1>1, <1>6, <1>7, <1>8 DEF n

\* The row of a route and that of its rate, and the row of the admin.
LEMMA RouteStatement ==
  ASSUME NEW i \in DOMAIN ROUTES
  PROVE  LET rows == seedRoutes[i].rows
         IN  /\ seedRoutes[i].do = "create" /\ DOMAIN rows = {1, 2}
             /\ rows[1].table = "routes" /\ rows[1].row.id = ROUTES[i].code
             /\ rows[2].table = "rates" /\ rows[2].row.id = ROUTES[i].code
<1> DEFINE first == In("routes", ROUTES[i].code, << >>, [serviceType |-> ROUTES[i].serviceType])
           second == In("rates", ROUTES[i].code, [routes |-> ROUTES[i].code], ROUTES[i].rate)
<1>1. seedRoutes[i] = create(<<first, second>>)
  BY DEF seedRoutes
<1> HIDE DEF first, second
<1>2. /\ create(<<first, second>>).do = "create"
      /\ create(<<first, second>>).rows = <<first, second>>
  BY DEF create
<1>3. DOMAIN <<first, second>> = {1, 2}
  OBVIOUS
<1>4. /\ first.table = "routes" /\ first.row.id = ROUTES[i].code
      /\ second.table = "rates" /\ second.row.id = ROUTES[i].code
  BY DEF first, second, In
<1> QED
  BY <1>1, <1>2, <1>3, <1>4

LEMMA AdminStatement ==
  /\ seedAdmin[1].do = "create" /\ DOMAIN seedAdmin[1].rows = {1}
  /\ seedAdmin[1].rows[1].table = "users"
BY DEF seedAdmin, create, In

\* A statement of a production seed is one of three.
LEMMA StatementsAre ==
  ASSUME NEW k \in DOMAIN MinimalProgram
  PROVE  \/ k \in 1..12 /\ MinimalProgram[k].do = "deleteMany"
         \/ \E i \in DOMAIN ROUTES : k = 12 + i /\ MinimalProgram[k] = seedRoutes[i]
         \/ k = Len(ROUTES) + 13 /\ MinimalProgram[k] = seedAdmin[1]
<1> DEFINE n == Len(ROUTES)
<1>1. /\ n \in Nat /\ DOMAIN ROUTES = 1..n /\ DOMAIN MinimalProgram = 1..(n + 13)
      /\ \A i \in 1..n : MinimalProgram[12 + i] = seedRoutes[i]
      /\ MinimalProgram[n + 13] = seedAdmin[1]
      /\ \A i \in 1..12 : MinimalProgram[i].do = "deleteMany"
  BY MinimalProgramIs
<1> HIDE DEF n
<1>2. CASE k <= 12
  BY <1>1, <1>2
<1>3. CASE k > 12 /\ k <= 12 + n
  <2>1. k - 12 \in 1..n /\ k = 12 + (k - 12)
    BY <1>1, <1>3
  <2> QED
    BY <1>1, <2>1
<1>4. CASE k > 12 + n
  <2>1. k = n + 13
    BY <1>1, <1>4
  <2> QED
    BY <1>1, <2>1 DEF n
<1> QED
  BY <1>1, <1>2, <1>3, <1>4

-------------------------------------------------------------------------------
(* The inductive invariant.                                                *)

\* The first n routes and their rates are there.
RoutesUpTo(n) ==
  \A i \in DOMAIN ROUTES :
    i <= n => ROUTES[i].code \in Ids("routes") \cap Ids("rates")

\* In production only the minimal program runs, the routes follow it, and when there
\* is an admin it has ended and left them all.
ProductionSound ==
  /\ seed.at # 0 => seed.minimal
  /\ RoutesUpTo(seed.at - 13)
  /\ "admin" \in Ids("users") =>
       seed.at \notin DOMAIN MinimalProgram /\ RoutesUpTo(Len(ROUTES))

ProductionInv ==
  /\ DOMAIN db = Tables
  /\ seed \in [minimal : BOOLEAN, at : Nat]
  /\ production => ProductionSound

LEMMA RoutesStay ==
  ASSUME NEW n, RoutesUpTo(n), db["routes"] \subseteq db'["routes"],
         db["rates"] \subseteq db'["rates"]
  PROVE  RoutesUpTo(n)'
BY DEF RoutesUpTo, Ids

\* Before its first route a seed promises none.
LEMMA NoRoutesYet ==
  ASSUME NEW n \in Int, n <= 0
  PROVE  RoutesUpTo(n) /\ RoutesUpTo(n)'
BY RoutesAre DEF RoutesUpTo

LEMMA StartKeeps ==
  ASSUME ProductionInv, NEW minimal \in BOOLEAN, Start(minimal)
  PROVE  ProductionInv'
<1>1. /\ seed' = [minimal |-> minimal, at |-> 1] /\ db' = db /\ production' = production
      /\ production => minimal /\ db["users"] = {}
  BY DEF Start, SafeForProduction
<1>2. RoutesUpTo(1 - 13)'
  BY NoRoutesYet
<1>3. production => "admin" \notin Ids("users")'
  BY <1>1 DEF Ids
<1> QED
  BY <1>1, <1>2, <1>3 DEF ProductionInv, ProductionSound

LEMMA StopKeeps ==
  ASSUME ProductionInv, Stop
  PROVE  ProductionInv'
<1>1. /\ seed' = [minimal |-> FALSE, at |-> 0] /\ db' = db /\ production' = production
  BY DEF Stop, NotRunning
<1>2. RoutesUpTo(0 - 13)'
  BY NoRoutesYet
<1>3. \A n : RoutesUpTo(n)' <=> RoutesUpTo(n)
  BY <1>1 DEF RoutesUpTo, Ids
<1>4. Ids("users")' = Ids("users") /\ 0 \notin DOMAIN MinimalProgram
  BY <1>1, MinimalProgramIs DEF Ids
<1> QED
  BY <1>1, <1>2, <1>3, <1>4 DEF ProductionInv, ProductionSound

\* A visitor is not the admin, and takes nothing away.
LEMMA VisitorKeeps ==
  ASSUME ProductionInv, NEW table \in Tables, NEW row, VisitorWrites(table, row),
         table = "users" => row.id # "admin"
  PROVE  ProductionInv'
<1>1. /\ DOMAIN db' = Tables /\ \A t \in Tables : db[t] \subseteq db'[t]
      /\ db'["users"] \subseteq db["users"] \cup (IF table = "users" THEN {row} ELSE {})
      /\ UNCHANGED <<production, seed>>
  BY DEF VisitorWrites, ProductionInv, Tables
<1>2. \A n : RoutesUpTo(n) => RoutesUpTo(n)'
  BY <1>1, RoutesStay DEF Tables
<1>3. "admin" \in Ids("users")' => "admin" \in Ids("users")
  BY <1>1 DEF Ids
<1> QED
  BY <1>1, <1>2, <1>3 DEF ProductionInv, ProductionSound

\* What is the same for each statement: it is one of the minimal program, and there is
\* no admin yet.
LEMMA RunningInProduction ==
  ASSUME ProductionInv, production, Running
  PROVE  /\ Program = MinimalProgram /\ seed.at \in DOMAIN MinimalProgram
         /\ "admin" \notin Ids("users") /\ seed.minimal
BY DEF ProductionInv, ProductionSound, Running, Program

LEMMA AdvanceIs ==
  ASSUME ProductionInv, Advance
  PROVE  /\ seed' \in [minimal : BOOLEAN, at : Nat]
         /\ seed'.at = seed.at + 1 /\ seed'.minimal = seed.minimal
BY DEF ProductionInv, Advance

LEMMA DeleteManyKeeps ==
  ASSUME ProductionInv, DeleteMany
  PROVE  ProductionInv'
<1>1. /\ production' = production /\ DOMAIN db' = Tables
      /\ db'["users"] \in {{}, db["users"]} /\ Running /\ Program[seed.at].do = "deleteMany"
  BY DEF DeleteMany, Tables
<1>2. /\ seed' \in [minimal : BOOLEAN, at : Nat]
      /\ seed'.at = seed.at + 1 /\ seed'.minimal = seed.minimal
  BY AdvanceIs DEF DeleteMany
<1>3. ASSUME production
      PROVE  ProductionSound'
  <2>1. /\ Program = MinimalProgram /\ seed.at \in DOMAIN MinimalProgram
        /\ "admin" \notin Ids("users") /\ seed.minimal
    BY <1>1, <1>3, RunningInProduction
  <2>2. seed.at \in 1..12
    BY <1>1, <2>1, StatementsAre, RouteStatement, AdminStatement
  <2>3. RoutesUpTo(seed.at - 13)'
    <3>1. PICK n \in Int : n = (seed.at + 1) - 13 /\ n <= 0
      BY <2>2
    <3>2. seed'.at - 13 = n
      BY <1>2, <3>1
    <3>3. RoutesUpTo(n)'
      BY <3>1, NoRoutesYet
    <3> QED
      BY <3>2, <3>3 DEF RoutesUpTo
  <2>4. "admin" \notin Ids("users")'
    BY <1>1, <2>1 DEF Ids
  <2> QED
    BY <1>2, <2>1, <2>3, <2>4 DEF ProductionSound
<1> QED
  BY <1>1, <1>2, <1>3 DEF ProductionInv

\* What the insert of some rows adds to a table.
LEMMA CreateAdds ==
  ASSUME ProductionInv, Create
  PROVE  LET rows == Program[seed.at].rows
         IN  /\ DOMAIN db' = Tables
             /\ \A t \in Tables :
                  db'[t] = db[t] \cup
                    {rows[i].row : i \in {j \in DOMAIN rows : rows[j].table = t}}
BY DEF Create

LEMMA CreateKeeps ==
  ASSUME ProductionInv, Create
  PROVE  ProductionInv'
<1> DEFINE rows == Program[seed.at].rows
<1>1. /\ production' = production /\ DOMAIN db' = Tables /\ Running
      /\ Program[seed.at].do = "create"
      /\ \A t \in Tables :
           db'[t] = db[t] \cup
             {rows[i].row : i \in {j \in DOMAIN rows : rows[j].table = t}}
  BY CreateAdds DEF Create
<1>2. /\ seed' \in [minimal : BOOLEAN, at : Nat]
      /\ seed'.at = seed.at + 1 /\ seed'.minimal = seed.minimal
  BY AdvanceIs DEF Create
<1>3. \A n : RoutesUpTo(n) => RoutesUpTo(n)'
  BY <1>1, RoutesStay DEF Tables
<1>4. ASSUME production
      PROVE  ProductionSound'
  <2>1. /\ Program = MinimalProgram /\ seed.at \in DOMAIN MinimalProgram
        /\ "admin" \notin Ids("users") /\ seed.minimal
    BY <1>1, <1>4, RunningInProduction
  <2>2. PICK n \in Nat : /\ n = Len(ROUTES) /\ DOMAIN ROUTES = 1..n
                         /\ DOMAIN MinimalProgram = 1..(n + 13)
    BY MinimalProgramIs
  <2>3. PICK at \in Nat : at = seed.at
    BY DEF ProductionInv
  <2>4. RoutesUpTo(at - 13)'
    BY <1>3, <1>4, <2>3 DEF ProductionInv, ProductionSound
  <2>5. CASE \E i \in DOMAIN ROUTES : at = 12 + i /\ MinimalProgram[at] = seedRoutes[i]
    <3>1. PICK i \in DOMAIN ROUTES : at = 12 + i /\ MinimalProgram[at] = seedRoutes[i]
      BY <2>5
    <3>2. /\ DOMAIN rows = {1, 2}
          /\ rows[1].table = "routes" /\ rows[1].row.id = ROUTES[i].code
          /\ rows[2].table = "rates" /\ rows[2].row.id = ROUTES[i].code
      BY <2>1, <2>3, <3>1, RouteStatement
    <3> HIDE DEF rows
    <3>3. rows[1].row \in db'["routes"] /\ rows[2].row \in db'["rates"]
      BY <1>1, <3>2 DEF Tables
    <3>4. ROUTES[i].code \in Ids("routes")' \cap Ids("rates")'
      BY <3>2, <3>3 DEF Ids
    <3>5. db'["users"] = db["users"]
      <4>1. {j \in DOMAIN rows : rows[j].table = "users"} = {}
        BY <3>2
      <4>2. db'["users"] =
              db["users"] \cup
                {rows[j].row : j \in {l \in DOMAIN rows : rows[l].table = "users"}}
        BY <1>1 DEF Tables
      <4> QED
        BY <4>1, <4>2
    <3>6. \A j \in DOMAIN ROUTES : j <= i => j <= at - 13 \/ j = i
      BY <2>2, <3>1
    <3>7. RoutesUpTo(i)'
      BY <2>4, <3>4, <3>6 DEF RoutesUpTo
    <3>8. seed'.at - 13 = i
      BY <1>2, <2>2, <2>3, <3>1
    <3>9. RoutesUpTo(seed.at - 13)'
      BY <3>7, <3>8 DEF RoutesUpTo
    <3> QED
      BY <1>2, <2>1, <3>5, <3>9 DEF ProductionSound, Ids
  <2>6. CASE at = n + 13
    <3>1. n = at - 13 /\ seed'.at = n + 14
      BY <1>2, <2>3, <2>6
    <3>2. RoutesUpTo(n)'
      BY <2>4, <3>1
    <3>3. seed'.at \notin DOMAIN MinimalProgram
      BY <2>2, <3>1
    <3>4. RoutesUpTo(seed.at - 13)' /\ RoutesUpTo(Len(ROUTES))'
      BY <2>2, <3>2 DEF RoutesUpTo
    <3> QED
      BY <1>2, <2>1, <3>3, <3>4 DEF ProductionSound
  <2>7. MinimalProgram[at].do # "deleteMany"
    BY <1>1, <2>1, <2>3
  <2> QED
    BY <2>1, <2>2, <2>3, <2>5, <2>6, <2>7, StatementsAre
<1> QED
  BY <1>1, <1>2, <1>4 DEF ProductionInv

\* No sample payments in production.
LEMMA WriteFileKeeps ==
  ASSUME ProductionInv, WriteFile
  PROVE  ProductionInv'
<1>1. /\ UNCHANGED <<production, db>> /\ Running
      /\ Program[seed.at].do = "writeFile" /\ seed' \in [minimal : BOOLEAN, at : Nat]
  BY AdvanceIs DEF WriteFile
<1>2. ~production
  BY <1>1, RunningInProduction, StatementsAre, RouteStatement, AdminStatement
<1> QED
  BY <1>1, <1>2 DEF ProductionInv

LEMMA ProductionStep == ProductionInv /\ [SeedingNext]_seedingVars => ProductionInv'
<1> SUFFICES ASSUME ProductionInv, [SeedingNext]_seedingVars
             PROVE  ProductionInv'
  OBVIOUS
<1>1. ASSUME NEW minimal \in BOOLEAN, Start(minimal)
      PROVE  ProductionInv'
  BY <1>1, StartKeeps
<1>2. CASE DeleteMany
  BY <1>2, DeleteManyKeeps
<1>3. CASE Create
  BY <1>3, CreateKeeps
<1>4. CASE WriteFile
  BY <1>4, WriteFileKeeps
<1>5. CASE Stop
  BY <1>5, StopKeeps
<1>6. ASSUME NEW v \in Visitors, Register(v)
      PROVE  ProductionInv'
  <2>1. v # "admin"
    BY VisitorsAssumption
  <2> QED
    BY <1>6, <2>1, VisitorKeeps DEF Register, Tables
<1>7. ASSUME NEW v \in Visitors, Book(v, ROUTES[1].code)
      PROVE  ProductionInv'
  BY <1>7, VisitorKeeps DEF Book, Tables
<1>8. CASE UNCHANGED seedingVars
  BY <1>8 DEF seedingVars, ProductionInv, ProductionSound, RoutesUpTo, Ids
<1> QED
  BY <1>1, <1>2, <1>3, <1>4, <1>5, <1>6, <1>7, <1>8 DEF SeedingNext

LEMMA ProductionStart == SeedingInit => ProductionInv
<1> SUFFICES ASSUME SeedingInit
             PROVE  ProductionInv
  OBVIOUS
<1>1. seed = [minimal |-> FALSE, at |-> 0] /\ db = [t \in Tables |-> {}]
  BY DEF SeedingInit, NotRunning
<1>2. RoutesUpTo(0 - 13)
  BY NoRoutesYet
<1>3. "admin" \notin Ids("users")
  BY <1>1 DEF Ids, Tables
<1> QED
  BY <1>1, <1>2, <1>3 DEF ProductionInv, ProductionSound

LEMMA ProductionCorrect == SeedingSpec => []ProductionInv
<1> QED
  BY ProductionStart, ProductionStep, PTL DEF SeedingSpec

-------------------------------------------------------------------------------
(* The theorems.                                                           *)

\* An admin in a production database means that every route is there with its rate,
\* wherever the seed broke off: what the guard then refuses to repeat is complete
\* (main, assertSafeForProduction).
THEOREM AdminAlwaysMeansSeeded == SeedingSpec => []AdminMeansSeeded
<1>1. ProductionInv => AdminMeansSeeded
  <2> SUFFICES ASSUME ProductionInv, production, "admin" \in Ids("users"),
                      NEW i \in DOMAIN ROUTES
               PROVE  ROUTES[i].code \in Ids("routes") \cap Ids("rates")
    BY DEF AdminMeansSeeded
  <2>1. RoutesUpTo(Len(ROUTES)) /\ i <= Len(ROUTES)
    BY RoutesAre DEF ProductionInv, ProductionSound
  <2> QED
    BY <2>1 DEF RoutesUpTo
<1> QED
  BY <1>1, ProductionCorrect, PTL

\* The account is there, and no seed is running.
AccountStands(id) == production /\ seed.at = 0 /\ id \in Ids("users")

LEMMA AccountStandsOn ==
  ASSUME NEW id, ProductionInv, AccountStands(id), [SeedingNext]_seedingVars
  PROVE  AccountStands(id)'
<1>1. ~Running /\ db["users"] # {} /\ seed.at = 0 /\ production
  BY DEF AccountStands, Running, Ids
<1>2. ASSUME NEW table \in Tables, NEW row, VisitorWrites(table, row)
      PROVE  AccountStands(id)'
  <2>1. db["users"] \subseteq db'["users"] /\ UNCHANGED <<production, seed>>
    BY <1>2 DEF VisitorWrites, ProductionInv, Tables
  <2> QED
    BY <2>1 DEF AccountStands, Ids
<1>3. \A minimal \in BOOLEAN : ~Start(minimal)
  BY <1>1 DEF Start, SafeForProduction
<1>4. ~DeleteMany /\ ~Create /\ ~WriteFile /\ ~Stop
  BY <1>1 DEF DeleteMany, Create, WriteFile, Stop
<1>5. ASSUME NEW v \in Visitors, Register(v) \/ Book(v, ROUTES[1].code)
      PROVE  AccountStands(id)'
  BY <1>2, <1>5 DEF Register, Book, Tables
<1>6. CASE UNCHANGED seedingVars
  BY <1>6 DEF seedingVars, AccountStands, Ids
<1> QED
  BY <1>3, <1>4, <1>5, <1>6 DEF SeedingNext

\* In production an account that exists while no seed runs is never deleted by one,
\* whoever registers and books and however often the seed is tried again
\* (assertSafeForProduction).
THEOREM ProductionAlwaysKeepsAccounts == SeedingSpec => ProductionKeepsAccounts
<1> SUFFICES ASSUME NEW id \in Visitors \cup {"admin"}
             PROVE  SeedingSpec =>
                      [](production /\ seed.at = 0 /\ id \in Ids("users")
                           => [](id \in Ids("users")))
  BY DEF ProductionKeepsAccounts
<1>1. ProductionInv /\ AccountStands(id) /\ [SeedingNext]_seedingVars => AccountStands(id)'
  BY AccountStandsOn
<1>2. production /\ seed.at = 0 /\ id \in Ids("users") => AccountStands(id)
  BY DEF AccountStands
<1>3. AccountStands(id) => id \in Ids("users")
  BY DEF AccountStands
<1> QED
  BY <1>1, <1>2, <1>3, ProductionCorrect, PTL DEF SeedingSpec

-------------------------------------------------------------------------------
(* Induction, and sequences that are joined.                               *)

Below == {pair \in Nat \X Nat : pair[1] < pair[2]}

LEMMA BelowIsWellFounded == IsWellFoundedOn(Below, Nat)
BY NatLessThanWellFounded DEF OpToRel, Below

LEMMA BelowHolds == \A m, n \in Nat : m < n => <<m, n>> \in Below
BY DEF Below

LEMMA LeastNatural ==
  ASSUME NEW Some, Some \subseteq Nat, Some # {}
  PROVE  \E least \in Some : \A other \in Some : least <= other
<1>1. IsWellFoundedOn(Below, Nat)
  BY BelowIsWellFounded
<1>2. PICK least \in Some : \A other \in Some : ~(<<other, least>> \in Below)
  BY <1>1, WFMin
<1>3. \A other \in Some : ~(other < least)
  BY <1>2, BelowHolds
<1> QED
  BY <1>3

\* Induction, of a set of naturals.
LEMMA NaturalsReached ==
  ASSUME NEW S, 0 \in S, \A n \in Nat : n \in S => n + 1 \in S
  PROVE  Nat \subseteq S
<1> DEFINE Missed == Nat \ S
<1> SUFFICES ASSUME Missed # {} PROVE FALSE
  OBVIOUS
<1>1. Missed \subseteq Nat
  OBVIOUS
<1> HIDE DEF Missed
<1>2. PICK least \in Missed : \A other \in Missed : least <= other
  BY <1>1, LeastNatural
<1> USE DEF Missed
<1>3. least # 0 /\ least - 1 \in Nat /\ ~(least <= least - 1)
  BY <1>2
<1>4. least - 1 \in S
  BY <1>2, <1>3
<1> QED
  BY <1>2, <1>3, <1>4

IsSequence(s) == s \in Seq({s[i] : i \in DOMAIN s})

LEMMA SequenceIs ==
  ASSUME NEW s, IsSequence(s)
  PROVE  Len(s) \in Nat /\ DOMAIN s = 1 .. Len(s)
BY LenProperties DEF IsSequence

LEMMA InSequence ==
  ASSUME NEW S, NEW s \in Seq(S)
  PROVE  IsSequence(s)
<1>1. Len(s) \in Nat /\ DOMAIN s = 1 .. Len(s) /\ s \in [1 .. Len(s) -> S]
  BY LenProperties
<1>2. s \in [1 .. Len(s) -> {s[i] : i \in DOMAIN s}]
  BY <1>1
<1> QED
  BY <1>1, <1>2 DEF IsSequence

\* A function on an interval is one.
LEMMA ListIs ==
  ASSUME NEW n \in Nat, NEW s, DOMAIN s = 1 .. n, s = [i \in DOMAIN s |-> s[i]]
  PROVE  IsSequence(s) /\ Len(s) = n
<1>1. s \in [1 .. n -> {s[i] : i \in DOMAIN s}]
  OBVIOUS
<1> QED
  BY <1>1 DEF IsSequence

LEMMA JoinIs ==
  ASSUME NEW s, NEW t, IsSequence(s), IsSequence(t)
  PROVE  /\ IsSequence(s \o t) /\ Len(s \o t) = Len(s) + Len(t)
         /\ \A k \in 1 .. Len(s) : (s \o t)[k] = s[k]
         /\ \A k \in 1 .. Len(t) : (s \o t)[Len(s) + k] = t[k]
<1>1. PICK S : S = {s[i] : i \in DOMAIN s} \cup {t[i] : i \in DOMAIN t}
  OBVIOUS
<1>2. s \in Seq(S) /\ t \in Seq(S)
  <2>1. {s[i] : i \in DOMAIN s} \subseteq S /\ {t[i] : i \in DOMAIN t} \subseteq S
    BY <1>1
  <2> QED
    BY <2>1, SeqMonotonic DEF IsSequence
<1>3. /\ s \o t \in Seq(S) /\ Len(s \o t) = Len(s) + Len(t)
      /\ \A k \in 1 .. Len(s) : (s \o t)[k] = s[k]
      /\ \A k \in 1 .. Len(t) : (s \o t)[Len(s) + k] = t[k]
  BY <1>2, ConcatIs
<1> QED
  BY <1>3, InSequence

-------------------------------------------------------------------------------
(* FlattenSeq, unfolded.                                                   *)

\* flat[i] is the first i sequences, joined.
Flattens(flat, seqs, n) ==
  flat = [i \in 1 .. n |-> IF i = 1 THEN seqs[i] ELSE flat[i-1] \o seqs[i]]

LEMMA FlattensIs ==
  ASSUME NEW seqs, NEW n, NEW flat, Flattens(flat, seqs, n), NEW i \in 1 .. n
  PROVE  flat[i] = IF i = 1 THEN seqs[i] ELSE flat[i-1] \o seqs[i]
<1>1. PICK body : body = [j \in 1 .. n |-> IF j = 1 THEN seqs[j] ELSE flat[j-1] \o seqs[j]]
  OBVIOUS
<1>2. body[i] = IF i = 1 THEN seqs[i] ELSE flat[i-1] \o seqs[i]
  BY <1>1
<1>3. flat = body
  BY <1>1 DEF Flattens
<1> QED
  BY <1>2, <1>3

LEMMA FlattensExists ==
  ASSUME NEW seqs, NEW most \in Nat
  PROVE  \E flat : Flattens(flat, seqs, most)
<1> DEFINE Reached == {n \in Nat : \E flat : Flattens(flat, seqs, n)}
<1>1. 0 \in Reached
  <2>1. Flattens([i \in 1 .. 0 |-> i], seqs, 0)
    BY DEF Flattens
  <2> QED
    BY <2>1
<1>2. ASSUME NEW n \in Nat, n \in Reached
      PROVE  n + 1 \in Reached
  <2>1. PICK flat : Flattens(flat, seqs, n)
    BY <1>2
  <2> DEFINE more == [i \in 1 .. n + 1 |-> IF i <= n THEN flat[i]
                        ELSE IF i = 1 THEN seqs[i] ELSE flat[i-1] \o seqs[i]]
  <2>2. \A i \in 1 .. n : more[i] = flat[i]
    OBVIOUS
  <2>3. ASSUME NEW i \in 1 .. n + 1
        PROVE  more[i] = IF i = 1 THEN seqs[i] ELSE more[i-1] \o seqs[i]
    <3>1. CASE i <= n
      <4>1. flat[i] = IF i = 1 THEN seqs[i] ELSE flat[i-1] \o seqs[i]
        BY <2>1, <3>1, FlattensIs
      <4>2. more[i] = flat[i] /\ (i # 1 => i - 1 \in 1 .. n)
        BY <3>1
      <4> QED
        BY <2>2, <4>1, <4>2
    <3>2. CASE i = n + 1
      <4>1. i # 1 => i - 1 \in 1 .. n
        BY <3>2
      <4>2. more[i] = IF i = 1 THEN seqs[i] ELSE flat[i-1] \o seqs[i]
        BY <3>2
      <4> QED
        BY <2>2, <4>1, <4>2
    <3> QED
      BY <3>1, <3>2
  <2>4. more = [i \in 1 .. n + 1 |-> more[i]]
    OBVIOUS
  <2> HIDE DEF more
  <2>5. Flattens(more, seqs, n + 1)
    BY <2>3, <2>4 DEF Flattens
  <2> QED
    BY <2>5
<1> HIDE DEF Reached
<1>3. Nat \subseteq Reached
  BY <1>1, <1>2, NaturalsReached
<1> QED
  BY <1>3 DEF Reached

LEMMA FlattenIs ==
  ASSUME NEW seqs, Len(seqs) \in Nat, Len(seqs) # 0
  PROVE  \E flat : Flattens(flat, seqs, Len(seqs)) /\ FlattenSeq(seqs) = flat[Len(seqs)]
<1>1. \E flat : Flattens(flat, seqs, Len(seqs))
  BY FlattensExists
<1>2. PICK flat : flat = CHOOSE f : Flattens(f, seqs, Len(seqs))
  OBVIOUS
<1>3. Flattens(flat, seqs, Len(seqs))
  BY <1>1, <1>2
<1>4. FlattenSeq(seqs) = flat[Len(seqs)]
  BY <1>2 DEF FlattenSeq, Flattens
<1> QED
  BY <1>3, <1>4

-------------------------------------------------------------------------------
(* What statements write, and what they need to have been written before.  *)

\* The keys of the rows that a statement inserts, or the file that it writes.
Writes(statement) ==
  IF statement.do = "create"
  THEN {<<statement.rows[i].table, statement.rows[i].row.id>> : i \in DOMAIN statement.rows}
  ELSE IF statement.do = "writeFile" THEN {<<"files", statement.key>>} ELSE {}

\* What the statements before the k-th write, and what all of them do.
Before(statements, k) == UNION {Writes(statements[j]) : j \in 1 .. (k - 1)}

Adds(statements) == UNION {Writes(statements[j]) : j \in DOMAIN statements}

\* A row with a new key that refers to rows that are known, or come before it in the
\* same statement; an attachment whose file is there.
RowFits(rows, i, known) ==
  LET new == rows[i]
  IN  /\ new.table \in Tables
      /\ <<new.table, new.row.id>> \notin known
      /\ \A parent \in DOMAIN new.row.of :
           /\ parent \in Tables
           /\ \/ <<parent, new.row.of[parent]>> \in known
              \/ \E j \in 1 .. (i - 1) :
                   /\ rows[j].table = parent
                   /\ rows[j].row.id = new.row.of[parent]
      /\ new.table = "attachments" => <<"files", new.row.is.storageKey>> \in known

Fits(statement, known) ==
  \/ statement.do = "writeFile"
  \/ /\ statement.do = "create"
     /\ \A i \in DOMAIN statement.rows : RowFits(statement.rows, i, known)

\* Each statement fits what is known and what the earlier ones write.
FitAfter(statements, known) ==
  \A k \in DOMAIN statements : Fits(statements[k], known \cup Before(statements, k))

LEMMA JoinWrites ==
  ASSUME NEW s, NEW t, IsSequence(s), IsSequence(t)
  PROVE  /\ Adds(s \o t) = Adds(s) \cup Adds(t)
         /\ \A k \in 1 .. Len(s) : Before(s \o t, k) = Before(s, k)
         /\ \A k \in 1 .. Len(t) : Before(s \o t, Len(s) + k) = Adds(s) \cup Before(t, k)
<1>1. PICK both, m, n : both = s \o t /\ m = Len(s) /\ n = Len(t)
  OBVIOUS
<1>2. /\ m \in Nat /\ n \in Nat /\ DOMAIN s = 1 .. m /\ DOMAIN t = 1 .. n
      /\ DOMAIN both = 1 .. m + n
      /\ \A k \in 1 .. m : both[k] = s[k]
      /\ \A k \in 1 .. n : both[m + k] = t[k]
  BY <1>1, SequenceIs, JoinIs
<1>3. ASSUME NEW k \in 0 .. n
      PROVE  UNION {Writes(both[j]) : j \in 1 .. m + k}
               = Adds(s) \cup UNION {Writes(t[j]) : j \in 1 .. k}
  <2>1. ASSUME NEW j \in 1 .. m + k
        PROVE  (j \in 1 .. m /\ both[j] = s[j]) \/ \E l \in 1 .. k : both[j] = t[l]
    <3>1. CASE j <= m
      BY <1>2, <3>1
    <3>2. CASE j > m
      <4>1. j - m \in 1 .. k /\ m + (j - m) = j /\ j - m \in 1 .. n
        BY <1>2, <3>2
      <4> QED
        BY <1>2, <4>1
    <3> QED
      BY <1>2, <3>1, <3>2
  <2>2. UNION {Writes(both[j]) : j \in 1 .. m + k}
          \subseteq Adds(s) \cup UNION {Writes(t[j]) : j \in 1 .. k}
    BY <1>2, <2>1 DEF Adds
  <2>3. \A j \in 1 .. m : j \in 1 .. m + k
    BY <1>2
  <2>4. \A j \in 1 .. k : m + j \in 1 .. m + k /\ j \in 1 .. n
    BY <1>2
  <2>5. Adds(s) \subseteq UNION {Writes(both[j]) : j \in 1 .. m + k}
    BY <1>2, <2>3 DEF Adds
  <2>6. UNION {Writes(t[j]) : j \in 1 .. k} \subseteq UNION {Writes(both[j]) : j \in 1 .. m + k}
    BY <1>2, <2>4
  <2> QED
    BY <2>2, <2>5, <2>6
<1>4. Adds(both) = Adds(s) \cup Adds(t)
  BY <1>2, <1>3 DEF Adds
<1>5. ASSUME NEW k \in 1 .. m
      PROVE  Before(both, k) = Before(s, k)
  <2>1. \A j \in 1 .. (k - 1) : both[j] = s[j]
    BY <1>2
  <2> QED
    BY <2>1 DEF Before
<1>6. ASSUME NEW k \in 1 .. n
      PROVE  Before(both, m + k) = Adds(s) \cup Before(t, k)
  <2>1. k - 1 \in 0 .. n /\ m + (k - 1) = (m + k) - 1
    BY <1>2
  <2> QED
    BY <1>3, <2>1 DEF Before
<1> QED
  BY <1>1, <1>4, <1>5, <1>6

LEMMA JoinFits ==
  ASSUME NEW s, NEW t, IsSequence(s), IsSequence(t), NEW known,
         FitAfter(s, known), FitAfter(t, known \cup Adds(s))
  PROVE  FitAfter(s \o t, known)
<1>1. PICK both, m, n : both = s \o t /\ m = Len(s) /\ n = Len(t)
  OBVIOUS
<1>2. /\ m \in Nat /\ n \in Nat /\ DOMAIN s = 1 .. m /\ DOMAIN t = 1 .. n
      /\ DOMAIN both = 1 .. m + n
      /\ \A k \in 1 .. m : both[k] = s[k]
      /\ \A k \in 1 .. n : both[m + k] = t[k]
  BY <1>1, SequenceIs, JoinIs
<1>3. /\ \A k \in 1 .. m : Before(both, k) = Before(s, k)
      /\ \A k \in 1 .. n : Before(both, m + k) = Adds(s) \cup Before(t, k)
  BY <1>1, JoinWrites
<1>4. ASSUME NEW k \in 1 .. m + n
      PROVE  Fits(both[k], known \cup Before(both, k))
  <2>1. CASE k <= m
    <3>1. k \in 1 .. m
      BY <1>2, <2>1
    <3>2. Fits(s[k], known \cup Before(s, k))
      BY <1>2, <3>1 DEF FitAfter
    <3> QED
      BY <1>2, <1>3, <3>1, <3>2
  <2>2. CASE k > m
    <3>1. PICK l \in 1 .. n : k = m + l
      <4>1. k - m \in 1 .. n /\ k = m + (k - m)
        BY <1>2, <2>2
      <4> QED
        BY <4>1
    <3>2. Fits(t[l], (known \cup Adds(s)) \cup Before(t, l))
      BY <1>2 DEF FitAfter
    <3>3. (known \cup Adds(s)) \cup Before(t, l) = known \cup Before(both, k)
      BY <1>3, <3>1
    <3> QED
      BY <1>2, <3>1, <3>2, <3>3
  <2> QED
    BY <1>2, <2>1, <2>2
<1> QED
  BY <1>1, <1>2, <1>4 DEF FitAfter

\* More may be known, as long as it is nothing that is written.
LEMMA FitInMore ==
  ASSUME NEW s, NEW known, NEW more, FitAfter(s, known), known \subseteq more,
         \A pair \in more : pair \in Adds(s) => pair \in known
  PROVE  FitAfter(s, more)
<1> SUFFICES ASSUME NEW k \in DOMAIN s
             PROVE  Fits(s[k], more \cup Before(s, k))
  BY DEF FitAfter
<1>1. Fits(s[k], known \cup Before(s, k))
  BY DEF FitAfter
<1>2. CASE s[k].do = "writeFile"
  BY <1>2 DEF Fits
<1>3. CASE s[k].do = "create"
  <2> SUFFICES ASSUME NEW i \in DOMAIN s[k].rows
               PROVE  RowFits(s[k].rows, i, more \cup Before(s, k))
    BY <1>3 DEF Fits
  <2>1. RowFits(s[k].rows, i, known \cup Before(s, k))
    BY <1>1, <1>3 DEF Fits
  <2>2. PICK pair : pair = <<s[k].rows[i].table, s[k].rows[i].row.id>>
    OBVIOUS
  <2>3. pair \in Adds(s)
    BY <1>3, <2>2 DEF Adds, Writes
  <2>4. pair \notin known \cup Before(s, k)
    BY <2>1, <2>2 DEF RowFits
  <2>5. pair \notin more \cup Before(s, k)
    BY <2>3, <2>4
  <2> QED
    BY <2>1, <2>2, <2>5 DEF RowFits
<1> QED
  BY <1>1, <1>2, <1>3 DEF Fits

\* The blocks up to the n-th add.
AddsUpTo(blocks, n) == UNION {Adds(blocks[j]) : j \in 1 .. n}

\* Blocks that fit one after the other fit as one.
LEMMA FlattenFits ==
  ASSUME NEW blocks, IsSequence(blocks), NEW known,
         \A i \in DOMAIN blocks :
           IsSequence(blocks[i]) /\ FitAfter(blocks[i], known \cup AddsUpTo(blocks, i - 1))
  PROVE  /\ IsSequence(FlattenSeq(blocks))
         /\ FitAfter(FlattenSeq(blocks), known)
         /\ Adds(FlattenSeq(blocks)) = AddsUpTo(blocks, Len(blocks))
<1>1. PICK n \in Nat : n = Len(blocks) /\ DOMAIN blocks = 1 .. n
  BY SequenceIs
<1>2. CASE n = 0
  <2>1. FlattenSeq(blocks) = blocks /\ DOMAIN blocks = {}
    BY <1>1, <1>2 DEF FlattenSeq
  <2>2. Adds(blocks) = {} /\ AddsUpTo(blocks, n) = {}
    BY <1>2, <2>1 DEF Adds, AddsUpTo
  <2> QED
    BY <1>1, <2>1, <2>2 DEF FitAfter
<1>3. CASE n # 0
  <2>1. PICK flat : Flattens(flat, blocks, n) /\ FlattenSeq(blocks) = flat[n]
    BY <1>1, <1>3, FlattenIs
  <2> DEFINE Good(i) == /\ IsSequence(flat[i]) /\ FitAfter(flat[i], known)
                        /\ Adds(flat[i]) = AddsUpTo(blocks, i)
             Reached == {i \in Nat : i + 1 <= n => Good(i + 1)}
  <2>2. 0 \in Reached
    <3>1. flat[1] = blocks[1]
      BY <1>1, <1>3, <2>1, FlattensIs
    <3>2. AddsUpTo(blocks, 0) = {} /\ AddsUpTo(blocks, 1) = Adds(blocks[1])
      BY DEF AddsUpTo
    <3>3. IsSequence(blocks[1]) /\ FitAfter(blocks[1], known)
      <4>1. 1 \in DOMAIN blocks /\ 1 - 1 = 0
        BY <1>1, <1>3
      <4>2. known \cup AddsUpTo(blocks, 0) = known
        BY <3>2
      <4> QED
        BY <4>1, <4>2
    <3> QED
      BY <3>1, <3>2, <3>3
  <2>3. ASSUME NEW i \in 1 .. n, i + 1 \in 1 .. n, Good(i)
        PROVE  Good(i + 1)
    <3>1. flat[i + 1] = flat[i] \o blocks[i + 1]
      <4>1. i + 1 # 1 /\ (i + 1) - 1 = i
        OBVIOUS
      <4>2. flat[i + 1] = IF i + 1 = 1 THEN blocks[i + 1]
                          ELSE flat[(i + 1) - 1] \o blocks[i + 1]
        BY <2>1, <2>3, FlattensIs
      <4> QED
        BY <4>1, <4>2
    <3>2. /\ IsSequence(blocks[i + 1])
          /\ FitAfter(blocks[i + 1], known \cup AddsUpTo(blocks, i))
      <4>1. (i + 1) - 1 = i /\ i + 1 \in DOMAIN blocks
        BY <1>1, <2>3
      <4> QED
        BY <4>1
    <3>3. AddsUpTo(blocks, i + 1) = AddsUpTo(blocks, i) \cup Adds(blocks[i + 1])
      <4>1. 1 .. i + 1 = (1 .. i) \cup {i + 1}
        OBVIOUS
      <4> QED
        BY <4>1 DEF AddsUpTo
    <3>4. IsSequence(flat[i]) /\ FitAfter(flat[i], known) /\ Adds(flat[i]) = AddsUpTo(blocks, i)
      BY <2>3
    <3>5. IsSequence(flat[i] \o blocks[i + 1]) /\ FitAfter(flat[i] \o blocks[i + 1], known)
      BY <3>2, <3>4, JoinIs, JoinFits
    <3>6. Adds(flat[i] \o blocks[i + 1]) = AddsUpTo(blocks, i + 1)
      BY <3>2, <3>3, <3>4, JoinWrites
    <3> QED
      BY <3>1, <3>5, <3>6
  <2>4. ASSUME NEW i \in Nat, i \in Reached
        PROVE  i + 1 \in Reached
    <3>1. CASE (i + 1) + 1 <= n
      <4>1. i + 1 \in 1 .. n /\ (i + 1) + 1 \in 1 .. n /\ Good(i + 1)
        BY <1>1, <2>4, <3>1
      <4> QED
        BY <2>3, <4>1
    <3> QED
      BY <3>1
  <2> HIDE DEF Reached
  <2>5. Nat \subseteq Reached
    BY <2>2, <2>4, NaturalsReached
  <2>6. n - 1 \in Nat /\ (n - 1) + 1 = n
    BY <1>3
  <2>7. Good(n)
    BY <2>5, <2>6 DEF Reached
  <2> QED
    BY <1>1, <2>1, <2>7
<1> QED
  BY <1>2, <1>3

-------------------------------------------------------------------------------
(* A program that cleans and then fills, over whatever it finds.           *)

Seedlike(program) ==
  /\ IsSequence(program) /\ Len(program) >= 12
  /\ \A k \in 1 .. 12 : program[k] = clean[k]
  /\ \A k \in DOMAIN program : k > 12 => Fits(program[k], Before(program, k))

\* The tables that the deletions before a statement have emptied.
Cleaned(table, at) == \E j \in 1 .. 12 : j < at /\ clean[j].table = table

\* A row that the server wrote meanwhile.
Visits(table, id) ==
  \/ table = "users" /\ id \in Visitors
  \/ table = "shipments" /\ id[1] = "visitor"

\* What the statements so far have written is there, and nothing else is in the tables
\* they have emptied, but for the rows of visitors.
Found(program, at) ==
  /\ \A pair \in Before(program, at) :
       \/ pair[1] = "files" /\ pair[2] \in files
       \/ pair[1] \in Tables /\ pair[2] \in Ids(pair[1])
  /\ \A table \in Tables : Cleaned(table, at) =>
       \A id \in Ids(table) : Visits(table, id) \/ <<table, id>> \in Before(program, at)

FillingInv ==
  /\ DOMAIN db = Tables
  /\ seed \in [minimal : BOOLEAN, at : Nat]
  /\ AttachmentsHaveFiles
  /\ Found(Program, seed.at)

LEMMA CleanOrder ==
  /\ \A table \in Tables : \E j \in 1 .. 12 : clean[j].table = table
  /\ \A k \in 1 .. 12 : \A key \in RestrictingKeys :
       key[2] = clean[k].table => \E j \in 1 .. 12 : j < k /\ clean[j].table = key[1]
  /\ \A k \in 1 .. 12 : clean[k].do = "deleteMany" /\ Writes(clean[k]) = {}
<1>1. \A k \in 1 .. 12 : clean[k].do = "deleteMany"
  BY CleanIs
<1>2. /\ clean[1].table = "audit_logs" /\ clean[2].table = "payments"
      /\ clean[3].table = "attachments" /\ clean[4].table = "shipment_events"
      /\ clean[5].table = "shipment_items" /\ clean[6].table = "shipments"
      /\ clean[7].table = "recipients" /\ clean[8].table = "refresh_tokens"
      /\ clean[9].table = "agent_profiles" /\ clean[10].table = "users"
      /\ clean[11].table = "rates" /\ clean[12].table = "routes"
  BY DEF clean, deleteMany
<1>3. \A table \in Tables : \E j \in 1 .. 12 : clean[j].table = table
  BY <1>2 DEF Tables
<1>4. ASSUME NEW k \in 1 .. 12, NEW key \in RestrictingKeys, key[2] = clean[k].table
      PROVE  \E j \in 1 .. 12 : j < k /\ clean[j].table = key[1]
  <2>1. CASE key = <<"shipments", "users">>
    <3>1. k = 10
      BY <1>2, <1>4, <2>1
    <3> QED
      BY <1>2, <2>1, <3>1
  <2>2. CASE key = <<"shipments", "routes">>
    <3>1. k = 12
      BY <1>2, <1>4, <2>2
    <3> QED
      BY <1>2, <2>2, <3>1
  <2>3. CASE key = <<"attachments", "users">>
    <3>1. k = 10
      BY <1>2, <1>4, <2>3
    <3> QED
      BY <1>2, <2>3, <3>1
  <2>4. CASE key = <<"payments", "attachments">>
    <3>1. k = 3
      BY <1>2, <1>4, <2>4
    <3> QED
      BY <1>2, <2>4, <3>1
  <2> QED
    BY <1>4, <2>1, <2>2, <2>3, <2>4 DEF RestrictingKeys
<1>5. \A k \in 1 .. 12 : Writes(clean[k]) = {}
  BY <1>1 DEF Writes
<1> QED
  BY <1>1, <1>3, <1>4, <1>5

LEMMA BeforeNext ==
  ASSUME NEW program, NEW k \in Nat
  PROVE  /\ Before(program, k + 1) = IF k = 0 THEN {} ELSE Before(program, k) \cup Writes(program[k])
         /\ Before(program, 0) = {} /\ Before(program, 1) = {}
<1>1. CASE k = 0
  <2>1. 1 .. ((k + 1) - 1) = {} /\ 1 .. (0 - 1) = {} /\ 1 .. (1 - 1) = {}
    BY <1>1
  <2> QED
    BY <1>1, <2>1 DEF Before
<1>2. CASE k # 0
  <2>1. 1 .. ((k + 1) - 1) = (1 .. (k - 1)) \cup {k} /\ 1 .. (0 - 1) = {} /\ 1 .. (1 - 1) = {}
    BY <1>2
  <2> QED
    BY <1>2, <2>1 DEF Before
<1> QED
  BY <1>1, <1>2

\* While it cleans it writes nothing.
LEMMA NothingBeforeRows ==
  ASSUME NEW program, Seedlike(program), NEW k \in 0 .. 13
  PROVE  Before(program, k) = {}
<1>1. ASSUME NEW j \in 1 .. (k - 1)
      PROVE  Writes(program[j]) = {}
  <2>1. j \in 1 .. 12
    OBVIOUS
  <2> QED
    BY <2>1, CleanOrder DEF Seedlike
<1> QED
  BY <1>1 DEF Before

LEMMA DeletingKeepsFilling ==
  ASSUME FillingInv, Seedlike(Program), DeleteMany
  PROVE  FillingInv'
<1>1. PICK program, k : program = Program /\ k = seed.at
  OBVIOUS
<1>2. /\ k \in Nat /\ k # 0 /\ k \in DOMAIN program /\ program[k].do = "deleteMany"
      /\ Seedlike(program) /\ Found(program, k)
  BY <1>1 DEF DeleteMany, Running, FillingInv
<1>3. k \in 1 .. 12 /\ program[k] = clean[k]
  <2>1. ~(k > 12)
    BY <1>2 DEF Seedlike, Fits
  <2> QED
    BY <1>2, <2>1 DEF Seedlike
<1>4. /\ seed' \in [minimal : BOOLEAN, at : Nat]
      /\ seed'.at = k + 1 /\ Program' = program
  BY <1>1 DEF DeleteMany, Advance, FillingInv, Program
<1>5. /\ DOMAIN db' = Tables /\ files' = files
      /\ \A t \in Tables : db'[t] \subseteq db[t]
      /\ db'[clean[k].table] = {} \/ clean[k].table \notin Tables
  BY <1>1, <1>3 DEF DeleteMany
<1>6. Before(program, k) = {} /\ Before(program, k + 1) = {}
  BY <1>2, <1>3, NothingBeforeRows
<1>7. ASSUME NEW t \in Tables, Cleaned(t, k + 1), NEW id \in Ids(t)'
      PROVE  Visits(t, id)
  <2>1. id \in Ids(t)
    BY <1>5 DEF Ids
  <2>2. t # clean[k].table
    BY <1>5 DEF Ids
  <2>3. Cleaned(t, k)
    <3>1. PICK j \in 1 .. 12 : j < k + 1 /\ clean[j].table = t
      BY <1>7 DEF Cleaned
    <3>2. j < k
      BY <1>3, <2>2, <3>1
    <3> QED
      BY <3>1, <3>2 DEF Cleaned
  <2> QED
    BY <1>2, <1>6, <2>1, <2>3 DEF Found
<1>8. Found(program, k + 1)'
  BY <1>6, <1>7 DEF Found
<1>9. AttachmentsHaveFiles'
  BY <1>5 DEF FillingInv, AttachmentsHaveFiles, Tables
<1>10. Found(Program, seed.at)'
  BY <1>4, <1>8 DEF Found
<1> QED
  BY <1>4, <1>5, <1>9, <1>10 DEF FillingInv

\* More rows, more files, and new rows of visitors only.
LEMMA VisitKeepsFound ==
  ASSUME NEW program, NEW at, Found(program, at), DOMAIN db = Tables,
         NEW table \in Tables, NEW row, VisitorWrites(table, row), Visits(table, row.id)
  PROVE  Found(program, at)'
<1>1. /\ files' = files
      /\ \A t \in Tables : db'[t] = IF t = table THEN db[t] \cup {row} ELSE db[t]
  BY DEF VisitorWrites
<1>2. \A t \in Tables : Ids(t)' = IF t = table THEN Ids(t) \cup {row.id} ELSE Ids(t)
  BY <1>1 DEF Ids
<1>3. ASSUME NEW pair \in Before(program, at)
      PROVE  \/ pair[1] = "files" /\ pair[2] \in files'
             \/ pair[1] \in Tables /\ pair[2] \in Ids(pair[1])'
  BY <1>1, <1>2 DEF Found
<1>4. ASSUME NEW t \in Tables, Cleaned(t, at), NEW id \in Ids(t)'
      PROVE  Visits(t, id) \/ <<t, id>> \in Before(program, at)
  BY <1>2, <1>4 DEF Found
<1> QED
  BY <1>3, <1>4 DEF Found

LEMMA VisitKeepsFilling ==
  ASSUME FillingInv, NEW table \in {"users", "shipments"}, NEW row,
         VisitorWrites(table, row), Visits(table, row.id)
  PROVE  FillingInv'
<1>1. table \in Tables /\ UNCHANGED <<production, files, seed>> /\ DOMAIN db' = Tables
      /\ db'["attachments"] = db["attachments"] /\ Program' = Program
  BY DEF VisitorWrites, FillingInv, Tables, Program
<1>2. PICK program, at : program = Program /\ at = seed.at
  OBVIOUS
<1>3. Found(program, at)'
  BY <1>1, <1>2, VisitKeepsFound DEF FillingInv
<1>4. Found(Program, seed.at)'
  BY <1>1, <1>2, <1>3 DEF Found
<1> QED
  BY <1>1, <1>4 DEF FillingInv, AttachmentsHaveFiles

\* At the beginning, and when there is no run, nothing is promised.
LEMMA NothingPromised ==
  ASSUME NEW program, NEW at \in {0, 1}
  PROVE  Found(program, at) /\ Found(program, at)'
<1>1. Before(program, at) = {}
  BY BeforeNext
<1>2. \A table : ~Cleaned(table, at)
  BY DEF Cleaned
<1> QED
  BY <1>1, <1>2 DEF Found

LEMMA StartKeepsFilling ==
  ASSUME FillingInv, (\E minimal \in BOOLEAN : Start(minimal)) \/ Stop
  PROVE  FillingInv'
<1>1. /\ UNCHANGED <<db, files>> /\ seed' \in [minimal : BOOLEAN, at : Nat]
      /\ seed'.at \in {0, 1}
  <2>1. PICK minimal \in BOOLEAN, at \in {0, 1} :
          seed' = [minimal |-> minimal, at |-> at] /\ UNCHANGED <<db, files>>
    BY DEF Start, Stop, NotRunning
  <2> QED
    BY <2>1
<1>2. PICK program, at : program = Program' /\ at = seed'.at
  OBVIOUS
<1>3. Found(program, at)'
  BY <1>1, <1>2, NothingPromised
<1>4. Found(Program, seed.at)'
  BY <1>2, <1>3 DEF Found
<1> QED
  BY <1>1, <1>4 DEF FillingInv, AttachmentsHaveFiles

\* A statement that fills comes when every table has been emptied.
LEMMA PastCleaning ==
  ASSUME NEW program, Seedlike(program), NEW k \in Nat, k \in DOMAIN program,
         program[k].do # "deleteMany"
  PROVE  /\ k > 12 /\ Fits(program[k], Before(program, k))
         /\ \A table \in Tables : Cleaned(table, k) /\ Cleaned(table, k + 1)
         /\ Before(program, k + 1) = Before(program, k) \cup Writes(program[k])
<1>1. k > 12
  <2>1. DOMAIN program = 1 .. Len(program) /\ k \in 1 .. Len(program)
    BY SequenceIs DEF Seedlike
  <2>2. ~(k \in 1 .. 12)
    BY CleanOrder DEF Seedlike
  <2> QED
    BY <2>1, <2>2
<1>2. Fits(program[k], Before(program, k))
  BY <1>1 DEF Seedlike
<1>3. ASSUME NEW table \in Tables
      PROVE  Cleaned(table, k) /\ Cleaned(table, k + 1)
  <2>1. PICK j \in 1 .. 12 : clean[j].table = table
    BY CleanOrder
  <2>2. j < k /\ j < k + 1
    BY <1>1
  <2> QED
    BY <2>1, <2>2 DEF Cleaned
<1>4. k # 0
  BY <1>1
<1> QED
  BY <1>1, <1>2, <1>3, <1>4, BeforeNext

LEMMA WritingKeepsFilling ==
  ASSUME FillingInv, Seedlike(Program), WriteFile
  PROVE  FillingInv'
<1>1. PICK program, k : program = Program /\ k = seed.at
  OBVIOUS
<1>2. /\ k \in Nat /\ k \in DOMAIN program /\ Found(program, k)
      /\ program[k].do = "writeFile" /\ Seedlike(program)
      /\ db' = db /\ files' = files \cup {program[k].key}
  BY <1>1 DEF WriteFile, Running, FillingInv
<1>3. /\ seed' \in [minimal : BOOLEAN, at : Nat]
      /\ seed'.at = k + 1 /\ Program' = program
  BY <1>1 DEF WriteFile, Advance, FillingInv, Program
<1>4. /\ \A table \in Tables : Cleaned(table, k)
      /\ Before(program, k + 1) = Before(program, k) \cup {<<"files", program[k].key>>}
  BY <1>2, PastCleaning DEF Writes
<1>5. \A t : Ids(t)' = Ids(t)
  BY <1>2 DEF Ids
<1>6. ASSUME NEW pair \in Before(program, k + 1)
      PROVE  \/ pair[1] = "files" /\ pair[2] \in files'
             \/ pair[1] \in Tables /\ pair[2] \in Ids(pair[1])'
  BY <1>2, <1>4, <1>5 DEF Found
<1>7. ASSUME NEW t \in Tables, NEW id \in Ids(t)'
      PROVE  Visits(t, id) \/ <<t, id>> \in Before(program, k + 1)
  BY <1>2, <1>4, <1>5 DEF Found
<1>8. Found(program, k + 1)'
  BY <1>6, <1>7 DEF Found
<1>9. Found(Program, seed.at)'
  BY <1>3, <1>8 DEF Found
<1> QED
  BY <1>2, <1>3, <1>9 DEF FillingInv, AttachmentsHaveFiles

LEMMA CreatingKeepsFilling ==
  ASSUME FillingInv, Seedlike(Program), Create
  PROVE  FillingInv'
<1>1. PICK program, k, rows : program = Program /\ k = seed.at /\ rows = Program[seed.at].rows
  OBVIOUS
<1>2. /\ k \in Nat /\ k \in DOMAIN program /\ Found(program, k) /\ Seedlike(program)
      /\ program[k].do = "create" /\ program[k].rows = rows
      /\ files' = files /\ DOMAIN db' = Tables /\ AttachmentsHaveFiles
      /\ \A t \in Tables :
           db'[t] = db[t] \cup {rows[i].row : i \in {j \in DOMAIN rows : rows[j].table = t}}
  BY <1>1 DEF Create, Running, FillingInv
<1>3. /\ seed' \in [minimal : BOOLEAN, at : Nat]
      /\ seed'.at = k + 1 /\ Program' = program
  BY <1>1 DEF Create, Advance, FillingInv, Program
<1>4. PICK known : known = Before(program, k)
  OBVIOUS
<1>5. /\ \A i \in DOMAIN rows : RowFits(rows, i, known)
      /\ \A table \in Tables : Cleaned(table, k)
      /\ Before(program, k + 1) =
           known \cup {<<rows[i].table, rows[i].row.id>> : i \in DOMAIN rows}
  BY <1>2, <1>4, PastCleaning DEF Writes, Fits
<1>6. \A t \in Tables :
        Ids(t)' = Ids(t) \cup {rows[i].row.id : i \in {j \in DOMAIN rows : rows[j].table = t}}
  BY <1>2 DEF Ids
<1>7. ASSUME NEW pair \in Before(program, k + 1)
      PROVE  \/ pair[1] = "files" /\ pair[2] \in files'
             \/ pair[1] \in Tables /\ pair[2] \in Ids(pair[1])'
  <2>1. CASE pair \in known
    BY <1>2, <1>4, <1>6, <2>1 DEF Found
  <2>2. CASE pair \notin known
    <3>1. PICK i \in DOMAIN rows : pair = <<rows[i].table, rows[i].row.id>>
      BY <1>5, <2>2
    <3>2. rows[i].table \in Tables
      BY <1>5 DEF RowFits
    <3> QED
      BY <1>6, <3>1, <3>2
  <2> QED
    BY <2>1, <2>2
<1>8. ASSUME NEW t \in Tables, NEW id \in Ids(t)'
      PROVE  Visits(t, id) \/ <<t, id>> \in Before(program, k + 1)
  <2>1. CASE id \in Ids(t)
    BY <1>2, <1>4, <1>5, <2>1 DEF Found
  <2>2. CASE id \notin Ids(t)
    <3>1. PICK i \in DOMAIN rows : rows[i].table = t /\ rows[i].row.id = id
      BY <1>6, <2>2
    <3> QED
      BY <1>5, <3>1
  <2> QED
    BY <2>1, <2>2
<1>9. ASSUME NEW row \in db'["attachments"]
      PROVE  row.is.storageKey \in files'
  <2>1. CASE row \in db["attachments"]
    BY <1>2, <2>1 DEF AttachmentsHaveFiles
  <2>2. CASE row \notin db["attachments"]
    <3>1. PICK i \in DOMAIN rows : rows[i].table = "attachments" /\ rows[i].row = row
      BY <1>2, <2>2 DEF Tables
    <3>2. <<"files", row.is.storageKey>> \in known
      BY <1>5, <3>1 DEF RowFits
    <3>3. PICK pair : pair = <<"files", row.is.storageKey>>
      OBVIOUS
    <3>4. pair \in known /\ pair[1] = "files" /\ pair[2] = row.is.storageKey
      BY <3>2, <3>3
    <3>5. \/ pair[1] = "files" /\ pair[2] \in files
          \/ pair[1] \in Tables /\ pair[2] \in Ids(pair[1])
      BY <1>2, <1>4, <3>4 DEF Found
    <3>6. pair[1] \notin Tables
      BY <3>4 DEF Tables
    <3> QED
      BY <1>2, <3>4, <3>5, <3>6
  <2> QED
    BY <2>1, <2>2
<1>10. Found(program, k + 1)'
  BY <1>7, <1>8 DEF Found
<1>11. Found(Program, seed.at)'
  BY <1>3, <1>10 DEF Found
<1> QED
  BY <1>2, <1>3, <1>9, <1>11 DEF FillingInv, AttachmentsHaveFiles

LEMMA FillingStep ==
  ASSUME FillingInv, Seedlike(Program), [SeedingNext]_seedingVars
  PROVE  FillingInv'
<1>1. CASE (\E minimal \in BOOLEAN : Start(minimal)) \/ Stop
  BY <1>1, StartKeepsFilling
<1>2. CASE DeleteMany
  BY <1>2, DeletingKeepsFilling
<1>3. CASE Create
  BY <1>3, CreatingKeepsFilling
<1>4. CASE WriteFile
  BY <1>4, WritingKeepsFilling
<1>5. ASSUME NEW v \in Visitors, Register(v)
      PROVE  FillingInv'
  <2>1. PICK row : VisitorWrites("users", row) /\ row.id = v
    BY <1>5 DEF Register
  <2> QED
    BY <2>1, VisitKeepsFilling DEF Visits
<1>6. ASSUME NEW v \in Visitors, Book(v, ROUTES[1].code)
      PROVE  FillingInv'
  <2>1. PICK row : VisitorWrites("shipments", row) /\ row.id = <<"visitor", v>>
    BY <1>6 DEF Book
  <2>2. row.id[1] = "visitor"
    BY <2>1
  <2> QED
    BY <2>1, <2>2, VisitKeepsFilling DEF Visits
<1>7. CASE UNCHANGED seedingVars
  BY <1>7 DEF seedingVars, FillingInv, AttachmentsHaveFiles, Found, Ids, Program
<1> QED
  BY <1>1, <1>2, <1>3, <1>4, <1>5, <1>6, <1>7 DEF SeedingNext

LEMMA FillingStart == SeedingInit => FillingInv
<1> SUFFICES ASSUME SeedingInit
             PROVE  FillingInv
  OBVIOUS
<1>1. /\ seed = [minimal |-> FALSE, at |-> 0] /\ db = [t \in Tables |-> {}]
  BY DEF SeedingInit, NotRunning
<1>2. Found(Program, seed.at)
  BY <1>1, NothingPromised
<1> QED
  BY <1>1, <1>2 DEF FillingInv, AttachmentsHaveFiles, Tables

\* Without rows of visitors the tables hold what the run wrote, so that each statement
\* finds what it needs.
LEMMA FillingRefusesNothing ==
  ASSUME FillingInv, Seedlike(Program)
  PROVE  NothingIsRefused
<1> SUFFICES ASSUME Running, NoVisitor, Refused(Program[seed.at])
             PROVE  FALSE
  BY DEF NothingIsRefused
<1>1. PICK program, k, statement :
        program = Program /\ k = seed.at /\ statement = Program[seed.at]
  OBVIOUS
<1>2. /\ k \in Nat /\ k \in DOMAIN program /\ Found(program, k) /\ Seedlike(program)
      /\ statement = program[k] /\ Refused(statement)
  BY <1>1 DEF Running, FillingInv
<1>3. ASSUME NEW t \in Tables, Cleaned(t, k), NEW id \in Ids(t)
      PROVE  <<t, id>> \in Before(program, k)
  <2>1. ~Visits(t, id)
    BY DEF NoVisitor, Visits
  <2> QED
    BY <1>2, <1>3, <2>1 DEF Found
<1>4. CASE statement.do = "deleteMany"
  <2>1. k \in 1 .. 12 /\ statement = clean[k]
    <3>1. DOMAIN program = 1 .. Len(program)
      BY <1>2, SequenceIs DEF Seedlike
    <3>2. ~(k > 12)
      BY <1>2, <1>4 DEF Seedlike, Fits
    <3> QED
      BY <1>2, <3>1, <3>2 DEF Seedlike
  <2>2. PICK key \in RestrictingKeys : key[2] = statement.table /\ db[key[1]] # {}
    BY <1>2, <1>4 DEF Refused
  <2>3. Cleaned(key[1], k)
    BY <2>1, <2>2, CleanOrder DEF Cleaned
  <2>4. key[1] \in Tables
    BY DEF RestrictingKeys, Tables
  <2>5. Before(program, k) = {}
    BY <1>2, <2>1, NothingBeforeRows
  <2>6. \E id : id \in Ids(key[1])
    BY <2>2 DEF Ids
  <2> QED
    BY <1>3, <2>3, <2>4, <2>5, <2>6
<1>5. CASE statement.do = "create"
  <2>1. PICK rows, known : rows = statement.rows /\ known = Before(program, k)
    OBVIOUS
  <2>2. /\ \A i \in DOMAIN rows : RowFits(rows, i, known)
        /\ \A table \in Tables : Cleaned(table, k)
    BY <1>2, <1>5, <2>1, PastCleaning DEF Fits
  <2>3. PICK i \in DOMAIN rows :
          \/ rows[i].row.id \in Ids(rows[i].table)
          \/ \E parent \in DOMAIN rows[i].row.of :
               /\ rows[i].row.of[parent] \notin Ids(parent)
               /\ \A j \in 1 .. (i - 1) :
                    rows[j].table # parent \/ rows[j].row.id # rows[i].row.of[parent]
    <3>1. statement.do # "deleteMany"
      BY <1>5
    <3>2. \E i \in DOMAIN statement.rows :
            \/ statement.rows[i].row.id \in Ids(statement.rows[i].table)
            \/ \E parent \in DOMAIN statement.rows[i].row.of :
                 /\ statement.rows[i].row.of[parent] \notin Ids(parent)
                 /\ \A j \in 1 .. (i - 1) :
                      statement.rows[j].table # parent
                        \/ statement.rows[j].row.id # statement.rows[i].row.of[parent]
      BY <1>2, <3>1 DEF Refused
    <3> QED
      BY <2>1, <3>2
  <2>4. RowFits(rows, i, known)
    BY <2>2
  <2>5. ~(rows[i].row.id \in Ids(rows[i].table))
    BY <1>3, <2>1, <2>2, <2>4 DEF RowFits
  <2>6. PICK parent \in DOMAIN rows[i].row.of :
          /\ rows[i].row.of[parent] \notin Ids(parent)
          /\ \A j \in 1 .. (i - 1) :
               rows[j].table # parent \/ rows[j].row.id # rows[i].row.of[parent]
    BY <2>3, <2>5
  <2>7. parent \in Tables /\ <<parent, rows[i].row.of[parent]>> \in known
    BY <2>4, <2>6 DEF RowFits
  <2>8. rows[i].row.of[parent] \in Ids(parent)
    <3>1. PICK pair : pair = <<parent, rows[i].row.of[parent]>>
      OBVIOUS
    <3>2. pair \in known /\ pair[1] = parent /\ pair[2] = rows[i].row.of[parent]
      BY <2>7, <3>1
    <3>3. \/ pair[1] = "files" /\ pair[2] \in files
          \/ pair[1] \in Tables /\ pair[2] \in Ids(pair[1])
      BY <1>2, <2>1, <3>2 DEF Found
    <3>4. pair[1] # "files"
      BY <2>7, <3>2 DEF Tables
    <3> QED
      BY <3>2, <3>3, <3>4
  <2> QED
    BY <2>6, <2>8
<1> QED
  BY <1>2, <1>4, <1>5 DEF Refused

-------------------------------------------------------------------------------
(* The program of the seed is such a program.                              *)

LEMMA CleanIsSeedlike == Seedlike(clean) /\ Adds(clean) = {}
<1>1. IsSequence(clean) /\ Len(clean) = 12 /\ DOMAIN clean = 1 .. 12
  BY CleanIs, InSequence, SequenceIs
<1>2. Adds(clean) = {}
  BY <1>1, CleanOrder DEF Adds
<1> QED
  BY <1>1, <1>2 DEF Seedlike

LEMMA JoinSeedlike ==
  ASSUME NEW s, Seedlike(s), NEW t, IsSequence(t), FitAfter(t, Adds(s))
  PROVE  Seedlike(s \o t) /\ Adds(s \o t) = Adds(s) \cup Adds(t)
<1>1. PICK both, m, n : both = s \o t /\ m = Len(s) /\ n = Len(t)
  OBVIOUS
<1>2. /\ m \in Nat /\ m >= 12 /\ n \in Nat /\ DOMAIN s = 1 .. m /\ DOMAIN t = 1 .. n
      /\ DOMAIN both = 1 .. m + n /\ Len(both) = m + n /\ IsSequence(both)
      /\ \A k \in 1 .. m : both[k] = s[k]
      /\ \A k \in 1 .. n : both[m + k] = t[k]
  BY <1>1, SequenceIs, JoinIs DEF Seedlike
<1>3. /\ \A k \in 1 .. m : Before(both, k) = Before(s, k)
      /\ \A k \in 1 .. n : Before(both, m + k) = Adds(s) \cup Before(t, k)
      /\ Adds(both) = Adds(s) \cup Adds(t)
  BY <1>1, JoinWrites DEF Seedlike
<1>4. ASSUME NEW k \in 1 .. m + n, k > 12
      PROVE  Fits(both[k], Before(both, k))
  <2>1. CASE k <= m
    <3>1. k \in 1 .. m
      BY <1>2, <2>1
    <3>2. Fits(s[k], Before(s, k))
      BY <1>2, <1>4, <3>1 DEF Seedlike
    <3> QED
      BY <1>2, <1>3, <3>1, <3>2
  <2>2. CASE k > m
    <3>1. PICK l \in 1 .. n : k = m + l
      <4>1. k - m \in 1 .. n /\ k = m + (k - m)
        BY <1>2, <2>2
      <4> QED
        BY <4>1
    <3>2. Fits(t[l], Adds(s) \cup Before(t, l))
      BY <1>2 DEF FitAfter
    <3> QED
      BY <1>2, <1>3, <3>1, <3>2
  <2> QED
    BY <1>2, <2>1, <2>2
<1>5. \A k \in 1 .. 12 : both[k] = clean[k]
  BY <1>2 DEF Seedlike
<1>6. Seedlike(both)
  BY <1>2, <1>4, <1>5 DEF Seedlike
<1> QED
  BY <1>1, <1>3, <1>6

\* Each code and each account once.
LEMMA CodesAre ==
  /\ DOMAIN ROUTES = 1 .. 8
  /\ \A i, j \in DOMAIN ROUTES : ROUTES[i].code = ROUTES[j].code => i = j
<1>1. /\ ROUTES[1].code = "PLW" /\ ROUTES[2].code = "UPG" /\ ROUTES[3].code = "MDC"
      /\ ROUTES[4].code = "JABODETABEK" /\ ROUTES[5].code = "JABAR"
      /\ ROUTES[6].code = "BANTEN" /\ ROUTES[7].code = "JATENG_DIY"
      /\ ROUTES[8].code = "JATIM"
  BY DEF ROUTES, Port, Door
<1>2. DOMAIN ROUTES = 1 .. 8
  BY DEF ROUTES
<1> QED
  BY <1>1, <1>2

LEMMA UsersAre ==
  /\ DOMAIN USERS = 1 .. 9
  /\ \A i \in DOMAIN USERS : USERS[i].id # "admin"
  /\ \A i, j \in DOMAIN USERS : USERS[i].id = USERS[j].id => i = j
<1>1. /\ USERS[1].id = "customer" /\ USERS[2].id = "agent-approved"
      /\ USERS[3].id = "agent-pending" /\ USERS[4].id = "cust-dewi"
      /\ USERS[5].id = "cust-rahmat" /\ USERS[6].id = "cust-suspended"
      /\ USERS[7].id = "agent-nusantara" /\ USERS[8].id = "agent-rejected"
      /\ USERS[9].id = "agent-baru2"
  BY DEF USERS, User
<1>2. DOMAIN USERS = 1 .. 9
  BY DEF USERS
<1> QED
  BY <1>1, <1>2

Codes    == {ROUTES[i].code : i \in DOMAIN ROUTES}
Accounts == {USERS[i].id : i \in DOMAIN USERS}

LEMMA RouteWrites ==
  ASSUME NEW i \in DOMAIN ROUTES
  PROVE  LET rows == seedRoutes[i].rows
         IN  /\ DOMAIN rows[1].row.of = {} /\ DOMAIN rows[2].row.of = {"routes"}
             /\ rows[2].row.of["routes"] = ROUTES[i].code
             /\ Writes(seedRoutes[i]) = {<<"routes", ROUTES[i].code>>, <<"rates", ROUTES[i].code>>}
<1>1. PICK first, second :
        /\ first = In("routes", ROUTES[i].code, << >>, [serviceType |-> ROUTES[i].serviceType])
        /\ second = In("rates", ROUTES[i].code, [routes |-> ROUTES[i].code], ROUTES[i].rate)
  OBVIOUS
<1>2. /\ first.table = "routes" /\ second.table = "rates"
      /\ first.row.id = ROUTES[i].code /\ second.row.id = ROUTES[i].code
      /\ DOMAIN first.row.of = {} /\ DOMAIN second.row.of = {"routes"}
      /\ second.row.of["routes"] = ROUTES[i].code
  BY <1>1 DEF In
<1>3. seedRoutes[i] = create(<<first, second>>)
  BY <1>1 DEF seedRoutes
<1>4. /\ seedRoutes[i].do = "create" /\ DOMAIN seedRoutes[i].rows = {1, 2}
      /\ seedRoutes[i].rows[1] = first /\ seedRoutes[i].rows[2] = second
  BY <1>3 DEF create
<1>5. Writes(seedRoutes[i]) = {<<"routes", ROUTES[i].code>>, <<"rates", ROUTES[i].code>>}
  BY <1>2, <1>4 DEF Writes
<1> QED
  BY <1>2, <1>4, <1>5

\* The routes come on an empty database, each with its rate.
LEMMA RoutesFit ==
  /\ IsSequence(seedRoutes) /\ FitAfter(seedRoutes, {})
  /\ Adds(seedRoutes) = {"routes", "rates"} \X Codes
<1>1. IsSequence(seedRoutes) /\ DOMAIN seedRoutes = DOMAIN ROUTES /\ DOMAIN ROUTES = 1 .. 8
  BY RoutesAre, CodesAre, InSequence DEF seedRoutes
<1>2. \A i \in DOMAIN ROUTES :
        Writes(seedRoutes[i]) = {<<"routes", ROUTES[i].code>>, <<"rates", ROUTES[i].code>>}
  BY RouteWrites
<1>3. ASSUME NEW k \in DOMAIN seedRoutes
      PROVE  Fits(seedRoutes[k], {} \cup Before(seedRoutes, k))
  <2>1. PICK known, rows, code :
          known = Before(seedRoutes, k) /\ rows = seedRoutes[k].rows /\ code = ROUTES[k].code
    OBVIOUS
  <2>2. k \in DOMAIN ROUTES /\ \A j \in 1 .. (k - 1) : j \in DOMAIN ROUTES /\ j # k
    BY <1>1
  <2>3. \A j \in 1 .. (k - 1) : ROUTES[j].code # code
    BY <2>1, <2>2, CodesAre
  <2>4. \A pair \in known : \E j \in 1 .. (k - 1) : pair[2] = ROUTES[j].code
    <3>1. \A j \in 1 .. (k - 1) :
            Writes(seedRoutes[j]) = {<<"routes", ROUTES[j].code>>, <<"rates", ROUTES[j].code>>}
      BY <1>2, <2>2
    <3> QED
      BY <2>1, <3>1 DEF Before
  <2>5. \A t : <<t, code>> \notin known
    BY <2>3, <2>4
  <2>6. /\ seedRoutes[k].do = "create" /\ DOMAIN rows = {1, 2}
        /\ rows[1].table = "routes" /\ rows[1].row.id = code
        /\ rows[2].table = "rates" /\ rows[2].row.id = code
        /\ DOMAIN rows[1].row.of = {} /\ DOMAIN rows[2].row.of = {"routes"}
        /\ rows[2].row.of["routes"] = code
    BY <2>1, <2>2, RouteStatement, RouteWrites
  <2>7. RowFits(rows, 1, known)
    BY <2>5, <2>6 DEF RowFits, Tables
  <2>8. RowFits(rows, 2, known)
    <3>1. 1 \in 1 .. (2 - 1)
      OBVIOUS
    <3> QED
      BY <2>5, <2>6, <3>1 DEF RowFits, Tables
  <2> QED
    BY <2>1, <2>6, <2>7, <2>8 DEF Fits
<1>4. Adds(seedRoutes) = {"routes", "rates"} \X Codes
  <2>1. ASSUME NEW pair \in Adds(seedRoutes)
        PROVE  pair \in {"routes", "rates"} \X Codes
    BY <1>1, <1>2 DEF Adds, Codes
  <2>2. ASSUME NEW pair \in {"routes", "rates"} \X Codes
        PROVE  pair \in Adds(seedRoutes)
    BY <1>1, <1>2 DEF Adds, Codes
  <2> QED
    BY <2>1, <2>2
<1> QED
  BY <1>1, <1>3, <1>4 DEF FitAfter

LEMMA AdminFits ==
  /\ IsSequence(seedAdmin) /\ Adds(seedAdmin) = {<<"users", "admin">>}
  /\ FitAfter(seedAdmin, {"routes", "rates"} \X Codes)
<1>1. PICK row : row = In("users", "admin", << >>, [role |-> "ADMIN"])
  OBVIOUS
<1>2. row.table = "users" /\ row.row.id = "admin" /\ DOMAIN row.row.of = {}
  BY <1>1 DEF In
<1>3. seedAdmin = <<create(<<row>>)>>
  BY <1>1 DEF seedAdmin
<1>4. /\ IsSequence(seedAdmin) /\ DOMAIN seedAdmin = {1}
      /\ seedAdmin[1].do = "create" /\ seedAdmin[1].rows = <<row>>
  <2>1. seedAdmin \in Seq({create(<<row>>)}) /\ DOMAIN seedAdmin = {1}
    BY <1>3
  <2>2. seedAdmin[1] = create(<<row>>)
    BY <1>3
  <2> QED
    BY <2>1, <2>2, InSequence DEF create
<1>5. Writes(seedAdmin[1]) = {<<"users", "admin">>}
  BY <1>2, <1>4 DEF Writes
<1>6. ASSUME NEW known, <<"users", "admin">> \notin known
      PROVE  Fits(seedAdmin[1], known)
  BY <1>2, <1>4, <1>6 DEF Fits, RowFits, Tables
<1>7. /\ Before(seedAdmin, 1) = {}
      /\ <<"users", "admin">> \notin ({"routes", "rates"} \X Codes) \cup {}
  BY BeforeNext
<1>8. Adds(seedAdmin) = {<<"users", "admin">>}
  BY <1>4, <1>5 DEF Adds
<1> QED
  BY <1>4, <1>6, <1>7, <1>8 DEF FitAfter

LEMMA MinimalIsSeedlike ==
  /\ Seedlike(MinimalProgram)
  /\ Adds(MinimalProgram) = ({"routes", "rates"} \X Codes) \cup {<<"users", "admin">>}
<1>1. /\ Seedlike(clean \o seedRoutes)
      /\ Adds(clean \o seedRoutes) = {"routes", "rates"} \X Codes
  <2>1. Adds(clean) \cup Adds(seedRoutes) = {"routes", "rates"} \X Codes
    BY CleanIsSeedlike, RoutesFit
  <2> QED
    BY <2>1, CleanIsSeedlike, RoutesFit, JoinSeedlike
<1> QED
  BY <1>1, AdminFits, JoinSeedlike DEF MinimalProgram

LEMMA UserWrites ==
  ASSUME NEW i \in DOMAIN USERS
  PROVE  LET rows == seedUsers[i].rows
         IN  /\ seedUsers[i].do = "create" /\ 1 \in DOMAIN rows /\ DOMAIN rows \subseteq {1, 2}
             /\ rows[1].table = "users" /\ rows[1].row.id = USERS[i].id
             /\ DOMAIN rows[1].row.of = {}
             /\ 2 \in DOMAIN rows =>
                  /\ rows[2].table = "agent_profiles" /\ rows[2].row.id = USERS[i].id
                  /\ DOMAIN rows[2].row.of = {"users"}
                  /\ rows[2].row.of["users"] = USERS[i].id
<1>1. PICK id, first, second :
        /\ id = USERS[i].id
        /\ first = In("users", USERS[i].id, << >>, [role |-> USERS[i].role])
        /\ second = In("agent_profiles", USERS[i].id, [users |-> USERS[i].id],
                       [approvalStatus |-> USERS[i].approvalStatus])
  OBVIOUS
<1>2. /\ first.table = "users" /\ first.row.id = id /\ DOMAIN first.row.of = {}
      /\ second.table = "agent_profiles" /\ second.row.id = id
      /\ DOMAIN second.row.of = {"users"} /\ second.row.of["users"] = id
  BY <1>1 DEF In
<1>3. PICK rest \in {<< >>, <<second>>} : seedUsers[i] = create(<<first>> \o rest)
  BY <1>1 DEF seedUsers
<1>4. PICK rows : rows = <<first>> \o rest
  OBVIOUS
<1>5. /\ IsSequence(<<first>>) /\ Len(<<first>>) = 1 /\ <<first>>[1] = first
      /\ IsSequence(<<second>>) /\ Len(<<second>>) = 1 /\ <<second>>[1] = second
      /\ IsSequence(<< >>) /\ Len(<< >>) = 0
  <2>1. <<first>> \in Seq({first}) /\ <<second>> \in Seq({second}) /\ << >> \in Seq({})
    OBVIOUS
  <2> QED
    BY <2>1, InSequence
<1>6. /\ IsSequence(rows) /\ Len(rows) = 1 + Len(rest) /\ rows[1] = first
      /\ \A k \in 1 .. Len(rest) : rows[1 + k] = rest[k]
  <2>1. /\ IsSequence(<<first>> \o rest)
        /\ Len(<<first>> \o rest) = Len(<<first>>) + Len(rest)
        /\ \A k \in 1 .. Len(<<first>>) : (<<first>> \o rest)[k] = <<first>>[k]
        /\ \A k \in 1 .. Len(rest) : (<<first>> \o rest)[Len(<<first>>) + k] = rest[k]
    BY <1>5, JoinIs
  <2> QED
    BY <1>4, <1>5, <2>1
<1>7. DOMAIN rows = 1 .. Len(rows) /\ Len(rest) \in {0, 1}
  BY <1>5, <1>6, SequenceIs
<1>8. DOMAIN rows \subseteq {1, 2} /\ 1 \in DOMAIN rows
  BY <1>6, <1>7
<1>9. 2 \in DOMAIN rows => rows[2] = second
  <2> SUFFICES ASSUME 2 \in DOMAIN rows
               PROVE  rows[2] = second
    OBVIOUS
  <2>1. Len(rest) = 1
    BY <1>6, <1>7
  <2>2. rest = <<second>>
    BY <1>5, <2>1
  <2>3. rows[1 + 1] = rest[1]
    BY <1>6, <2>1
  <2> QED
    BY <1>5, <2>2, <2>3
<1>10. seedUsers[i].do = "create" /\ seedUsers[i].rows = rows
  BY <1>3, <1>4 DEF create
<1> QED
  BY <1>1, <1>2, <1>6, <1>8, <1>9, <1>10

LEMMA UsersFit ==
  ASSUME NEW known, known = ({"routes", "rates"} \X Codes) \cup {<<"users", "admin">>}
  PROVE  /\ IsSequence(seedUsers) /\ FitAfter(seedUsers, known)
         /\ {"users"} \X Accounts \subseteq Adds(seedUsers)
         /\ Adds(seedUsers) \subseteq {"users", "agent_profiles"} \X Accounts
<1>1. IsSequence(seedUsers) /\ DOMAIN seedUsers = DOMAIN USERS /\ DOMAIN USERS = 1 .. 9
  BY UsersAre, ListIs DEF seedUsers
<1>2. ASSUME NEW i \in DOMAIN USERS
      PROVE  /\ <<"users", USERS[i].id>> \in Writes(seedUsers[i])
             /\ Writes(seedUsers[i]) \subseteq {"users", "agent_profiles"} \X {USERS[i].id}
  <2>1. PICK rows, id : rows = seedUsers[i].rows /\ id = USERS[i].id
    OBVIOUS
  <2>2. /\ seedUsers[i].do = "create" /\ 1 \in DOMAIN rows /\ DOMAIN rows \subseteq {1, 2}
        /\ rows[1].table = "users" /\ rows[1].row.id = id
        /\ 2 \in DOMAIN rows => rows[2].table = "agent_profiles" /\ rows[2].row.id = id
    BY <2>1, UserWrites
  <2>3. Writes(seedUsers[i]) = {<<rows[j].table, rows[j].row.id>> : j \in DOMAIN rows}
    BY <2>1, <2>2 DEF Writes
  <2> QED
    BY <2>1, <2>2, <2>3
<1>3. ASSUME NEW k \in DOMAIN seedUsers
      PROVE  Fits(seedUsers[k], known \cup Before(seedUsers, k))
  <2>1. PICK all, rows, id :
          /\ all = known \cup Before(seedUsers, k) /\ rows = seedUsers[k].rows
          /\ id = USERS[k].id
    OBVIOUS
  <2>2. k \in DOMAIN USERS /\ \A j \in 1 .. (k - 1) : j \in DOMAIN USERS /\ j # k
    BY <1>1
  <2>3. \A j \in 1 .. (k - 1) : USERS[j].id # id
    BY <2>1, <2>2, UsersAre
  <2>4. \A pair \in Before(seedUsers, k) : \E j \in 1 .. (k - 1) : pair[2] = USERS[j].id
    <3>1. \A j \in 1 .. (k - 1) :
            Writes(seedUsers[j]) \subseteq {"users", "agent_profiles"} \X {USERS[j].id}
      BY <1>2, <2>2
    <3> QED
      BY <3>1 DEF Before
  <2>5. <<"users", id>> \notin all /\ <<"agent_profiles", id>> \notin all
    <3>1. id # "admin"
      BY <2>1, <2>2, UsersAre
    <3>2. <<"users", id>> \notin known /\ <<"agent_profiles", id>> \notin known
      BY <3>1
    <3>3. <<"users", id>> \notin Before(seedUsers, k)
      BY <2>3, <2>4
    <3>4. <<"agent_profiles", id>> \notin Before(seedUsers, k)
      BY <2>3, <2>4
    <3> QED
      BY <2>1, <3>2, <3>3, <3>4
  <2>6. /\ seedUsers[k].do = "create" /\ DOMAIN rows \subseteq {1, 2}
        /\ rows[1].table = "users" /\ rows[1].row.id = id
        /\ DOMAIN rows[1].row.of = {}
        /\ 2 \in DOMAIN rows =>
             /\ rows[2].table = "agent_profiles" /\ rows[2].row.id = id
             /\ DOMAIN rows[2].row.of = {"users"} /\ rows[2].row.of["users"] = id
    BY <2>1, <2>2, UserWrites
  <2>7. RowFits(rows, 1, all)
    BY <2>5, <2>6 DEF RowFits, Tables
  <2>8. 2 \in DOMAIN rows => RowFits(rows, 2, all)
    <3>1. 1 \in 1 .. (2 - 1)
      OBVIOUS
    <3> QED
      BY <2>5, <2>6, <3>1 DEF RowFits, Tables
  <2> QED
    BY <2>1, <2>6, <2>7, <2>8 DEF Fits
<1>4. {"users"} \X Accounts \subseteq Adds(seedUsers)
  BY <1>1, <1>2 DEF Adds, Accounts
<1>5. Adds(seedUsers) \subseteq {"users", "agent_profiles"} \X Accounts
  <2>1. \A i \in DOMAIN USERS : USERS[i].id \in Accounts
    BY DEF Accounts
  <2> QED
    BY <1>1, <1>2, <2>1 DEF Adds
<1> QED
  BY <1>1, <1>3, <1>4, <1>5 DEF FitAfter

LEMMA SomeAccounts == {"customer", "agent-approved"} \subseteq Accounts
<1>1. USERS[1].id = "customer" /\ USERS[2].id = "agent-approved"
  BY DEF USERS, User
<1> QED
  BY <1>1, UsersAre DEF Accounts

LEMMA RecipientsFit ==
  ASSUME NEW known, {"users"} \X Accounts \subseteq known,
         \A pair \in known : pair[1] # "recipients"
  PROVE  /\ IsSequence(seedRecipients) /\ FitAfter(seedRecipients, known)
         /\ \A pair \in Adds(seedRecipients) : pair[1] = "recipients"
<1>1. /\ DOMAIN RECIPIENTS = 1 .. 2
      /\ RECIPIENTS[1].id = "recipient-1" /\ RECIPIENTS[1].user = "customer"
      /\ RECIPIENTS[2].id = "recipient-2" /\ RECIPIENTS[2].user = "agent-approved"
  BY DEF RECIPIENTS
<1>2. IsSequence(seedRecipients) /\ DOMAIN seedRecipients = 1 .. 2
  BY <1>1, ListIs DEF seedRecipients
<1>3. ASSUME NEW i \in 1 .. 2
      PROVE  /\ seedRecipients[i].do = "create" /\ DOMAIN seedRecipients[i].rows = {1}
             /\ seedRecipients[i].rows[1].table = "recipients"
             /\ seedRecipients[i].rows[1].row.id = RECIPIENTS[i].id
             /\ DOMAIN seedRecipients[i].rows[1].row.of = {"users"}
             /\ seedRecipients[i].rows[1].row.of["users"] = RECIPIENTS[i].user
             /\ Writes(seedRecipients[i]) = {<<"recipients", RECIPIENTS[i].id>>}
  <2>1. PICK row : row = In("recipients", RECIPIENTS[i].id, [users |-> RECIPIENTS[i].user], << >>)
    OBVIOUS
  <2>2. /\ row.table = "recipients" /\ row.row.id = RECIPIENTS[i].id
        /\ DOMAIN row.row.of = {"users"} /\ row.row.of["users"] = RECIPIENTS[i].user
    BY <2>1 DEF In
  <2>3. seedRecipients[i] = create(<<row>>)
    BY <1>1, <2>1 DEF seedRecipients
  <2>4. /\ seedRecipients[i].do = "create" /\ DOMAIN seedRecipients[i].rows = {1}
        /\ seedRecipients[i].rows[1] = row
    BY <2>3 DEF create
  <2>5. Writes(seedRecipients[i]) = {<<"recipients", RECIPIENTS[i].id>>}
    BY <2>2, <2>4 DEF Writes
  <2> QED
    BY <2>2, <2>4, <2>5
<1>4. /\ <<"users", "customer">> \in known /\ <<"users", "agent-approved">> \in known
  BY SomeAccounts
<1>5. ASSUME NEW k \in 1 .. 2
      PROVE  Fits(seedRecipients[k], known \cup Before(seedRecipients, k))
  <2>1. PICK all, rows :
          all = known \cup Before(seedRecipients, k) /\ rows = seedRecipients[k].rows
    OBVIOUS
  <2>2. <<"recipients", RECIPIENTS[k].id>> \notin all
    <3>1. <<"recipients", RECIPIENTS[k].id>> \notin known
      OBVIOUS
    <3>2. <<"recipients", RECIPIENTS[k].id>> \notin Before(seedRecipients, k)
      <4>1. CASE k = 1
        BY <4>1, BeforeNext
      <4>2. CASE k = 2
        <5>1. \A j \in 1 .. (k - 1) : Writes(seedRecipients[j]) = {<<"recipients", "recipient-1">>}
          <6>1. \A j \in 1 .. (k - 1) : j = 1
            BY <4>2
          <6> QED
            BY <1>1, <1>3, <6>1
        <5> QED
          BY <1>1, <4>2, <5>1 DEF Before
      <4> QED
        BY <4>1, <4>2
    <3> QED
      BY <2>1, <3>1, <3>2
  <2>3. <<"users", RECIPIENTS[k].user>> \in all
    <3>1. k = 1 \/ k = 2
      OBVIOUS
    <3> QED
      BY <1>1, <1>4, <2>1, <3>1
  <2>4. RowFits(rows, 1, all)
    BY <1>3, <2>1, <2>2, <2>3 DEF RowFits, Tables
  <2> QED
    BY <1>3, <2>1, <2>4 DEF Fits
<1>6. \A pair \in Adds(seedRecipients) : pair[1] = "recipients"
  BY <1>2, <1>3 DEF Adds
<1> QED
  BY <1>2, <1>5, <1>6 DEF FitAfter

-------------------------------------------------------------------------------
(* A sample shipment and its payment.                                      *)

About(id) ==
  ({"shipments", "shipment_items", "files", "attachments", "payments"} \X {id})
    \cup {<<"shipment_events", <<id, step>>>> : step \in Nat}

LEMMA AboutApart ==
  ASSUME NEW id, NEW other, id # other
  PROVE  About(id) \cap About(other) = {}
<1> SUFFICES ASSUME NEW pair, pair \in About(id), pair \in About(other)
             PROVE  FALSE
  OBVIOUS
<1>1. CASE pair[1] = "shipment_events"
  <2>1. pair[2][1] = id /\ pair[2][1] = other
    BY <1>1 DEF About
  <2> QED
    BY <2>1
<1>2. CASE pair[1] # "shipment_events"
  <2>1. pair[2] = id /\ pair[2] = other
    BY <1>2 DEF About
  <2> QED
    BY <2>1
<1> QED
  BY <1>1, <1>2

\* A statement by itself.
LEMMA OneStatement ==
  ASSUME NEW statement
  PROVE  /\ IsSequence(<<statement>>) /\ Len(<<statement>>) = 1
         /\ DOMAIN <<statement>> = {1} /\ <<statement>>[1] = statement
         /\ Adds(<<statement>>) = Writes(statement)
         /\ \A known : Fits(statement, known) => FitAfter(<<statement>>, known)
<1>1. <<statement>> \in Seq({statement})
  OBVIOUS
<1>2. /\ IsSequence(<<statement>>) /\ Len(<<statement>>) = 1
      /\ DOMAIN <<statement>> = {1} /\ <<statement>>[1] = statement
  <2>1. Len(<<statement>>) = 1 /\ DOMAIN <<statement>> = {1} /\ <<statement>>[1] = statement
    OBVIOUS
  <2> QED
    BY <1>1, <2>1, InSequence
<1>3. Adds(<<statement>>) = Writes(statement)
  BY <1>2 DEF Adds
<1>4. Before(<<statement>>, 1) = {}
  BY BeforeNext
<1> HIDE DEF FitAfter
<1>5. ASSUME NEW known, Fits(statement, known)
      PROVE  FitAfter(<<statement>>, known)
  <2>1. known \cup Before(<<statement>>, 1) = known
    BY <1>4
  <2> QED
    BY <1>2, <1>5, <2>1 DEF FitAfter
<1> QED
  BY <1>2, <1>3, <1>5

LEMMA ShipmentRows ==
  ASSUME NEW id, NEW user, NEW code, NEW is, NEW steps, IsSequence(steps)
  PROVE  LET rows == createShipment(id, user, code, is, steps)[1].rows
         IN  /\ createShipment(id, user, code, is, steps) = <<create(rows)>>
             /\ IsSequence(rows) /\ Len(rows) = 2 + Len(steps)
             /\ rows[1].table = "shipments" /\ rows[1].row.id = id
             /\ rows[1].row.is = is
             /\ DOMAIN rows[1].row.of = {"users", "routes"}
             /\ rows[1].row.of["users"] = user /\ rows[1].row.of["routes"] = code
             /\ rows[2].table = "shipment_items" /\ rows[2].row.id = id
             /\ DOMAIN rows[2].row.of = {"shipments"} /\ rows[2].row.of["shipments"] = id
             /\ \A k \in 1 .. Len(steps) :
                  /\ rows[2 + k].table = "shipment_events"
                  /\ rows[2 + k].row.id = <<id, k>> /\ rows[2 + k].row.is = steps[k]
                  /\ DOMAIN rows[2 + k].row.of = {"shipments"}
                  /\ rows[2 + k].row.of["shipments"] = id
<1>1. PICK first, second, events :
        /\ first = In("shipments", id, [users |-> user, routes |-> code], is)
        /\ second = In("shipment_items", id, [shipments |-> id], << >>)
        /\ events = [step \in DOMAIN steps |->
                       In("shipment_events", <<id, step>>, [shipments |-> id], steps[step])]
  OBVIOUS
<1>2. /\ first.table = "shipments" /\ first.row.id = id /\ first.row.is = is
      /\ DOMAIN first.row.of = {"users", "routes"}
      /\ first.row.of["users"] = user /\ first.row.of["routes"] = code
      /\ second.table = "shipment_items" /\ second.row.id = id
      /\ DOMAIN second.row.of = {"shipments"} /\ second.row.of["shipments"] = id
  BY <1>1 DEF In
<1>3. PICK n \in Nat : n = Len(steps) /\ DOMAIN steps = 1 .. n
  BY SequenceIs
<1>4. IsSequence(events) /\ Len(events) = n
  BY <1>1, <1>3, ListIs
<1>5. ASSUME NEW k \in 1 .. n
      PROVE  /\ events[k].table = "shipment_events"
             /\ events[k].row.id = <<id, k>> /\ events[k].row.is = steps[k]
             /\ DOMAIN events[k].row.of = {"shipments"}
             /\ events[k].row.of["shipments"] = id
  <2>1. events[k] = In("shipment_events", <<id, k>>, [shipments |-> id], steps[k])
    BY <1>1, <1>3
  <2> QED
    BY <2>1 DEF In
<1>6. /\ IsSequence(<<first, second>>) /\ Len(<<first, second>>) = 2
      /\ <<first, second>>[1] = first /\ <<first, second>>[2] = second
  <2>1. <<first, second>> \in Seq({first, second})
    OBVIOUS
  <2> QED
    BY <2>1, InSequence
<1>7. PICK rows : rows = <<first, second>> \o events
  OBVIOUS
<1>8. /\ IsSequence(rows) /\ Len(rows) = 2 + n
      /\ rows[1] = first /\ rows[2] = second
      /\ \A k \in 1 .. n : rows[2 + k] = events[k]
  <2>1. /\ IsSequence(<<first, second>> \o events)
        /\ Len(<<first, second>> \o events) = Len(<<first, second>>) + Len(events)
        /\ \A k \in 1 .. Len(<<first, second>>) :
             (<<first, second>> \o events)[k] = <<first, second>>[k]
        /\ \A k \in 1 .. Len(events) :
             (<<first, second>> \o events)[Len(<<first, second>>) + k] = events[k]
    BY <1>4, <1>6, JoinIs
  <2> QED
    BY <1>4, <1>6, <1>7, <2>1
<1>9. createShipment(id, user, code, is, steps) = <<create(rows)>>
  BY <1>1, <1>7 DEF createShipment
<1>10. createShipment(id, user, code, is, steps)[1].rows = rows
  BY <1>9 DEF create
<1> QED
  BY <1>2, <1>3, <1>5, <1>8, <1>9, <1>10

LEMMA ShipmentFits ==
  ASSUME NEW id, NEW user, NEW code, NEW is, NEW steps, IsSequence(steps)
  PROVE  LET block == createShipment(id, user, code, is, steps)
         IN  /\ IsSequence(block) /\ <<"shipments", id>> \in Adds(block)
             /\ FitAfter(block, {<<"users", user>>, <<"routes", code>>})
             /\ Adds(block) \subseteq About(id)
             /\ \A pair \in Adds(block) :
                  pair[1] \in {"shipments", "shipment_items", "shipment_events"}
<1>1. PICK block, rows, statement :
        /\ block = createShipment(id, user, code, is, steps)
        /\ rows = createShipment(id, user, code, is, steps)[1].rows
        /\ statement = create(rows)
  OBVIOUS
<1>2. PICK n \in Nat : n = Len(steps)
  BY SequenceIs
<1>3. /\ block = <<statement>> /\ IsSequence(rows) /\ Len(rows) = 2 + n
      /\ rows[1].table = "shipments" /\ rows[1].row.id = id
      /\ DOMAIN rows[1].row.of = {"users", "routes"}
      /\ rows[1].row.of["users"] = user /\ rows[1].row.of["routes"] = code
      /\ rows[2].table = "shipment_items" /\ rows[2].row.id = id
      /\ DOMAIN rows[2].row.of = {"shipments"} /\ rows[2].row.of["shipments"] = id
      /\ \A k \in 1 .. n :
           /\ rows[2 + k].table = "shipment_events" /\ rows[2 + k].row.id = <<id, k>>
           /\ DOMAIN rows[2 + k].row.of = {"shipments"}
           /\ rows[2 + k].row.of["shipments"] = id
  BY <1>1, <1>2, ShipmentRows
<1>4. DOMAIN rows = 1 .. 2 + n /\ statement.do = "create" /\ statement.rows = rows
  BY <1>1, <1>3, SequenceIs DEF create
<1>5. \A i \in 1 .. 2 + n : i = 1 \/ i = 2 \/ \E k \in 1 .. n : i = 2 + k
  <2> SUFFICES ASSUME NEW i \in 1 .. 2 + n, i > 2
               PROVE  \E k \in 1 .. n : i = 2 + k
    OBVIOUS
  <2>1. i - 2 \in 1 .. n /\ i = 2 + (i - 2)
    OBVIOUS
  <2> QED
    BY <2>1
<1>6. PICK known : known = {<<"users", user>>, <<"routes", code>>}
  OBVIOUS
<1>7. ASSUME NEW i \in 1 .. 2 + n
      PROVE  RowFits(rows, i, known)
  <2>1. CASE i = 1
    BY <1>3, <1>6, <2>1 DEF RowFits, Tables
  <2>2. CASE i = 2
    <3>1. 1 \in 1 .. (i - 1)
      BY <2>2
    <3> QED
      BY <1>3, <1>6, <2>2, <3>1 DEF RowFits, Tables
  <2>3. CASE \E k \in 1 .. n : i = 2 + k
    <3>1. PICK k \in 1 .. n : i = 2 + k
      BY <2>3
    <3>2. /\ rows[i].table = "shipment_events"
          /\ DOMAIN rows[i].row.of = {"shipments"} /\ rows[i].row.of["shipments"] = id
      BY <1>3, <3>1
    <3>3. 1 \in 1 .. (i - 1)
      BY <3>1
    <3> QED
      BY <1>3, <1>6, <3>2, <3>3 DEF RowFits, Tables
  <2> QED
    BY <1>5, <2>1, <2>2, <2>3
<1>8. Fits(statement, known)
  BY <1>4, <1>7 DEF Fits
<1>9. Writes(statement) = {<<rows[i].table, rows[i].row.id>> : i \in 1 .. 2 + n}
  BY <1>4 DEF Writes
<1>10. ASSUME NEW pair \in Writes(statement)
       PROVE  /\ pair \in About(id)
              /\ pair[1] \in {"shipments", "shipment_items", "shipment_events"}
  <2>1. PICK i \in 1 .. 2 + n : pair = <<rows[i].table, rows[i].row.id>>
    BY <1>9
  <2>2. CASE i = 1 \/ i = 2
    BY <1>3, <2>1, <2>2 DEF About
  <2>3. CASE \E k \in 1 .. n : i = 2 + k
    <3>1. PICK k \in 1 .. n : pair = <<"shipment_events", <<id, k>>>>
      BY <1>3, <2>1, <2>3
    <3> QED
      BY <3>1 DEF About
  <2> QED
    BY <1>5, <2>2, <2>3
<1>11. <<"shipments", id>> \in Writes(statement)
  <2>1. 1 \in 1 .. 2 + n
    OBVIOUS
  <2> QED
    BY <1>3, <1>9, <2>1
<1>12. /\ IsSequence(block) /\ Adds(block) = Writes(statement) /\ FitAfter(block, known)
  BY <1>3, <1>8, OneStatement
<1> QED
  BY <1>1, <1>6, <1>10, <1>11, <1>12

LEMMA PaymentFits ==
  ASSUME NEW id, NEW user, NEW is
  PROVE  LET block == createPayment(id, user, is)
         IN  /\ IsSequence(block)
             /\ FitAfter(block, {<<"users", user>>, <<"shipments", id>>})
             /\ Adds(block) \subseteq {"files", "attachments", "payments"} \X {id}
<1>1. PICK block, proof, payment :
        /\ block = createPayment(id, user, is)
        /\ proof = In("attachments", id, [users |-> user], [storageKey |-> id])
        /\ payment = In("payments", id, [shipments |-> id, attachments |-> id], is)
  OBVIOUS
<1>2. block = <<writeFile(id), create(<<proof>>), create(<<payment>>)>>
  BY <1>1 DEF createPayment
<1>3. /\ IsSequence(block) /\ DOMAIN block = 1 .. 3 /\ block[1] = writeFile(id)
      /\ block[2] = create(<<proof>>) /\ block[3] = create(<<payment>>)
  <2>1. /\ block \in Seq({writeFile(id), create(<<proof>>), create(<<payment>>)})
        /\ DOMAIN block = 1 .. 3
    BY <1>2
  <2> QED
    BY <1>2, <2>1, InSequence
<1>4. /\ proof.table = "attachments" /\ proof.row.id = id
      /\ proof.row.is.storageKey = id
      /\ DOMAIN proof.row.of = {"users"} /\ proof.row.of["users"] = user
  BY <1>1 DEF In
<1>5. /\ payment.table = "payments" /\ payment.row.id = id
      /\ DOMAIN payment.row.of = {"shipments", "attachments"}
      /\ payment.row.of["shipments"] = id /\ payment.row.of["attachments"] = id
  BY <1>1 DEF In
<1>6. block[1].do = "writeFile" /\ block[1].key = id
  BY <1>3 DEF writeFile
<1>7. /\ block[2].do = "create" /\ DOMAIN block[2].rows = {1} /\ block[2].rows[1] = proof
      /\ block[3].do = "create" /\ DOMAIN block[3].rows = {1} /\ block[3].rows[1] = payment
  BY <1>3 DEF create
<1>8. /\ Writes(block[1]) = {<<"files", id>>}
      /\ Writes(block[2]) = {<<"attachments", id>>}
      /\ Writes(block[3]) = {<<"payments", id>>}
  <2>1. Writes(block[1]) = {<<"files", id>>}
    BY <1>6 DEF Writes
  <2>2. Writes(block[2]) = {<<"attachments", id>>}
    BY <1>4, <1>7 DEF Writes
  <2>3. Writes(block[3]) = {<<"payments", id>>}
    BY <1>5, <1>7 DEF Writes
  <2> QED
    BY <2>1, <2>2, <2>3
<1>9. Adds(block) \subseteq {"files", "attachments", "payments"} \X {id}
  <2>1. \A i \in 1 .. 3 : i = 1 \/ i = 2 \/ i = 3
    OBVIOUS
  <2>2. \A i \in 1 .. 3 : Writes(block[i]) \subseteq {"files", "attachments", "payments"} \X {id}
    BY <1>8, <2>1
  <2> QED
    BY <1>3, <2>2 DEF Adds
<1>10. PICK known : known = {<<"users", user>>, <<"shipments", id>>}
  OBVIOUS
<1>11. /\ Before(block, 2) = {<<"files", id>>}
       /\ Before(block, 3) = {<<"files", id>>, <<"attachments", id>>}
  <2>1. 1 .. (2 - 1) = {1} /\ 1 .. (3 - 1) = {1, 2}
    OBVIOUS
  <2> QED
    BY <1>8, <2>1 DEF Before
<1>12. Fits(block[2], known \cup Before(block, 2))
  <2>1. PICK all : all = known \cup Before(block, 2)
    OBVIOUS
  <2>2. /\ <<"users", user>> \in all /\ <<"files", id>> \in all
        /\ <<"attachments", id>> \notin all
    BY <1>10, <1>11, <2>1
  <2>3. RowFits(block[2].rows, 1, all)
    BY <1>4, <1>7, <2>2 DEF RowFits, Tables
  <2> QED
    BY <1>7, <2>1, <2>3 DEF Fits
<1>13. Fits(block[3], known \cup Before(block, 3))
  <2>1. PICK all : all = known \cup Before(block, 3)
    OBVIOUS
  <2>2. /\ <<"shipments", id>> \in all /\ <<"attachments", id>> \in all
        /\ <<"payments", id>> \notin all
    BY <1>10, <1>11, <2>1
  <2>3. RowFits(block[3].rows, 1, all)
    BY <1>5, <1>7, <2>2 DEF RowFits, Tables
  <2> QED
    BY <1>7, <2>1, <2>3 DEF Fits
<1>14. Fits(block[1], known \cup Before(block, 1))
  BY <1>6 DEF Fits
<1>15. FitAfter(block, known)
  <2>1. \A i \in 1 .. 3 : i = 1 \/ i = 2 \/ i = 3
    OBVIOUS
  <2> QED
    BY <1>3, <1>12, <1>13, <1>14, <2>1 DEF FitAfter
<1> QED
  BY <1>1, <1>3, <1>9, <1>10, <1>15

-------------------------------------------------------------------------------
(* The plan of the sample shipments.                                       *)

LEMMA FlattenIsSequence ==
  ASSUME NEW blocks, IsSequence(blocks), \A i \in DOMAIN blocks : IsSequence(blocks[i])
  PROVE  IsSequence(FlattenSeq(blocks))
<1>1. PICK n \in Nat : n = Len(blocks) /\ DOMAIN blocks = 1 .. n
  BY SequenceIs
<1>2. CASE n = 0
  BY <1>1, <1>2 DEF FlattenSeq
<1>3. CASE n # 0
  <2>1. PICK flat : Flattens(flat, blocks, n) /\ FlattenSeq(blocks) = flat[n]
    BY <1>1, <1>3, FlattenIs
  <2> DEFINE Reached == {i \in Nat : i + 1 <= n => IsSequence(flat[i + 1])}
  <2>2. 0 \in Reached
    <3>1. flat[1] = blocks[1]
      BY <1>1, <1>3, <2>1, FlattensIs
    <3>2. 1 \in DOMAIN blocks
      BY <1>1, <1>3
    <3> QED
      BY <3>1, <3>2
  <2>3. ASSUME NEW i \in 1 .. n, i + 1 \in 1 .. n, IsSequence(flat[i])
        PROVE  IsSequence(flat[i + 1])
    <3>1. i + 1 # 1 /\ (i + 1) - 1 = i
      OBVIOUS
    <3>2. flat[i + 1] = IF i + 1 = 1 THEN blocks[i + 1]
                        ELSE flat[(i + 1) - 1] \o blocks[i + 1]
      BY <2>1, <2>3, FlattensIs
    <3>3. IsSequence(blocks[i + 1])
      BY <1>1, <2>3
    <3> QED
      BY <2>3, <3>1, <3>2, <3>3, JoinIs
  <2>4. ASSUME NEW i \in Nat, i \in Reached
        PROVE  i + 1 \in Reached
    <3>1. CASE (i + 1) + 1 <= n
      <4>1. i + 1 \in 1 .. n /\ (i + 1) + 1 \in 1 .. n /\ IsSequence(flat[i + 1])
        BY <1>1, <2>4, <3>1
      <4> QED
        BY <2>3, <4>1
    <3> QED
      BY <3>1
  <2> HIDE DEF Reached
  <2>5. Nat \subseteq Reached
    BY <2>2, <2>4, NaturalsReached
  <2>6. n - 1 \in Nat /\ (n - 1) + 1 = n
    BY <1>3
  <2> QED
    BY <2>1, <2>5, <2>6 DEF Reached
<1> QED
  BY <1>2, <1>3

LEMMA StatusPathIs == STATUS_PATH \in Seq(Status) /\ Len(STATUS_PATH) = 8
BY DEF STATUS_PATH, Status

LEMMA PathIs ==
  ASSUME NEW plan
  PROVE  IsSequence(filteredPath(plan))
<1>1. PICK effective :
        effective = IF plan.previousStatus = NULL THEN plan.status ELSE plan.previousStatus
  OBVIOUS
<1> DEFINE until == CHOOSE i \in DOMAIN STATUS_PATH : STATUS_PATH[i] = effective
           path  == IF Contains(STATUS_PATH, effective) THEN SubSeq(STATUS_PATH, 1, until)
                    ELSE <<"PENDING_PAYMENT">>
<1>3. IsSequence(path)
  <2>1. CASE Contains(STATUS_PATH, effective)
    <3>1. DOMAIN STATUS_PATH = 1 .. 8 /\ Len(STATUS_PATH) = 8
      BY StatusPathIs, LenProperties
    <3>2. \E i \in DOMAIN STATUS_PATH : STATUS_PATH[i] = effective
      BY <2>1, <3>1 DEF Contains
    <3>3. PICK last : last = until
      OBVIOUS
    <3>4. last \in 1 .. 8
      BY <3>1, <3>2, <3>3
    <3> HIDE DEF until
    <3>5. \A i \in 1 .. last : STATUS_PATH[i] \in Status
      <4>1. \A i \in 1 .. 8 : STATUS_PATH[i] \in Status
        BY <3>1, StatusPathIs, LenProperties
      <4> QED
        BY <3>4, <4>1
    <3>6. SubSeq(STATUS_PATH, 1, last) \in Seq(Status)
      BY <3>4, <3>5, StatusPathIs
    <3> QED
      BY <2>1, <3>3, <3>6, InSequence
  <2>2. CASE ~Contains(STATUS_PATH, effective)
    <3>1. <<"PENDING_PAYMENT">> \in Seq({"PENDING_PAYMENT"})
      OBVIOUS
    <3> QED
      BY <2>2, <3>1, InSequence
  <2> QED
    BY <2>1, <2>2
<1> HIDE DEF path
<1>4. PICK n \in Nat : n = Len(path) /\ DOMAIN path = 1 .. n
  BY <1>3, SequenceIs
<1>5. PICK service, parts :
        /\ service = routeOf(plan.destination).serviceType
        /\ parts = [step \in DOMAIN path |->
             IF isAllowedForService(path[step], service) THEN <<path[step]>> ELSE << >>]
  OBVIOUS
<1>6. IsSequence(parts) /\ DOMAIN parts = 1 .. n
  BY <1>4, <1>5, ListIs
<1>7. ASSUME NEW i \in 1 .. n
      PROVE  IsSequence(parts[i])
  <2>1. <<path[i]>> \in Seq({path[i]}) /\ << >> \in Seq({})
    OBVIOUS
  <2>2. IsSequence(<<path[i]>>) /\ IsSequence(<< >>)
    BY <2>1, InSequence
  <2>3. parts[i] \in {<<path[i]>>, << >>}
    BY <1>4, <1>5
  <2> QED
    BY <2>2, <2>3
<1>8. filteredPath(plan) = FlattenSeq(parts)
  BY <1>1, <1>5 DEF filteredPath, path
<1> QED
  BY <1>6, <1>7, <1>8, FlattenIsSequence

LEMMA TimelineIs ==
  ASSUME NEW plan
  PROVE  IsSequence(timeline(plan))
<1>1. PICK path, created : path = filteredPath(plan) /\ created = createdDaysAgo(plan)
  OBVIOUS
<1>2. PICK pace : pace = AtLeast(1, created \div (Len(path) + 1))
  OBVIOUS
<1>3. PICK steps, rest :
        /\ steps = [step \in DOMAIN path |->
             At(path[step], AtLeast(plan.staleDays, created - (step - 1) * pace))]
        /\ rest = IF plan.previousStatus = NULL THEN << >>
                  ELSE <<At(plan.status, plan.staleDays)>>
  OBVIOUS
<1>4. timeline(plan) = steps \o rest
  BY <1>1, <1>2, <1>3 DEF timeline
<1>5. IsSequence(path)
  BY <1>1, PathIs
<1>6. PICK n \in Nat : DOMAIN path = 1 .. n
  BY <1>5, SequenceIs
<1>7. IsSequence(steps)
  BY <1>3, <1>6, ListIs
<1>8. IsSequence(rest)
  <2>1. PICK last : last = At(plan.status, plan.staleDays)
    OBVIOUS
  <2>2. <<last>> \in Seq({last}) /\ << >> \in Seq({})
    OBVIOUS
  <2>3. IsSequence(<<last>>) /\ IsSequence(<< >>)
    BY <2>2, InSequence
  <2> QED
    BY <1>3, <2>1, <2>3
<1> QED
  BY <1>4, <1>7, <1>8, JoinIs

LEMMA SomeCodes ==
  {"PLW", "UPG", "MDC", "JABODETABEK", "JABAR", "JATENG_DIY", "JATIM"} \subseteq Codes
<1>1. /\ ROUTES[1].code = "PLW" /\ ROUTES[2].code = "UPG" /\ ROUTES[3].code = "MDC"
      /\ ROUTES[4].code = "JABODETABEK" /\ ROUTES[5].code = "JABAR"
      /\ ROUTES[7].code = "JATENG_DIY" /\ ROUTES[8].code = "JATIM"
  BY DEF ROUTES, Port, Door
<1> QED
  BY <1>1, CodesAre DEF Codes

LEMMA AwaitingGoes ==
  ASSUME NEW code, NEW weight, NEW days, NEW delta
  PROVE  Awaiting(code, weight, days, delta).destination = code
<1>1. PICK entry : entry = Entry("PENDING_PAYMENT", code, weight, days)
  OBVIOUS
<1>2. entry.destination = code /\ "destination" \in DOMAIN entry
  BY <1>1 DEF Entry
<1>3. Awaiting(code, weight, days, delta)
        = [entry EXCEPT !.awaitingVerification = TRUE, !.claimedDelta = delta]
  BY <1>1 DEF Awaiting
<1> QED
  BY <1>2, <1>3

\* Each entry goes to a route that there is.
LEMMA PlanIs ==
  /\ DOMAIN OPERATIONAL_PLAN = 1 .. 37
  /\ \A i \in DOMAIN OPERATIONAL_PLAN : OPERATIONAL_PLAN[i].destination \in Codes
<1>1. DOMAIN OPERATIONAL_PLAN = 1 .. 37
  BY DEF OPERATIONAL_PLAN
<1>2. /\ OPERATIONAL_PLAN[3] = Awaiting("PLW", 150, 1, 0)
      /\ OPERATIONAL_PLAN[4] = Awaiting("MDC", 60, 2, 0)
      /\ OPERATIONAL_PLAN[5] = Awaiting("JATENG_DIY", 45, 3, -50000)
      /\ OPERATIONAL_PLAN[6] = Awaiting("JABODETABEK", 20, 4, 0)
  BY DEF OPERATIONAL_PLAN
<1>3. /\ OPERATIONAL_PLAN[3].destination = "PLW" /\ OPERATIONAL_PLAN[4].destination = "MDC"
      /\ OPERATIONAL_PLAN[5].destination = "JATENG_DIY"
      /\ OPERATIONAL_PLAN[6].destination = "JABODETABEK"
  BY <1>2, AwaitingGoes
<1>4. /\ OPERATIONAL_PLAN[1].destination = "UPG" /\ OPERATIONAL_PLAN[2].destination = "JATIM"
      /\ OPERATIONAL_PLAN[7].destination = "UPG" /\ OPERATIONAL_PLAN[8].destination = "JABAR"
      /\ OPERATIONAL_PLAN[9].destination = "MDC" /\ OPERATIONAL_PLAN[10].destination = "UPG"
      /\ OPERATIONAL_PLAN[11].destination = "PLW" /\ OPERATIONAL_PLAN[12].destination = "MDC"
      /\ OPERATIONAL_PLAN[13].destination = "JATIM" /\ OPERATIONAL_PLAN[14].destination = "JATENG_DIY"
      /\ OPERATIONAL_PLAN[15].destination = "UPG"
  BY DEF OPERATIONAL_PLAN, Entry, OnHold
<1>5. /\ OPERATIONAL_PLAN[16].destination = "PLW" /\ OPERATIONAL_PLAN[17].destination = "MDC"
      /\ OPERATIONAL_PLAN[18].destination = "JABAR" /\ OPERATIONAL_PLAN[19].destination = "UPG"
      /\ OPERATIONAL_PLAN[20].destination = "PLW" /\ OPERATIONAL_PLAN[21].destination = "JATIM"
      /\ OPERATIONAL_PLAN[22].destination = "UPG" /\ OPERATIONAL_PLAN[23].destination = "MDC"
      /\ OPERATIONAL_PLAN[24].destination = "PLW" /\ OPERATIONAL_PLAN[25].destination = "JABODETABEK"
      /\ OPERATIONAL_PLAN[26].destination = "JATENG_DIY"
  BY DEF OPERATIONAL_PLAN, Entry, OnHold
<1>6. /\ OPERATIONAL_PLAN[27].destination = "JATIM" /\ OPERATIONAL_PLAN[28].destination = "UPG"
      /\ OPERATIONAL_PLAN[29].destination = "PLW" /\ OPERATIONAL_PLAN[30].destination = "MDC"
      /\ OPERATIONAL_PLAN[31].destination = "JABODETABEK" /\ OPERATIONAL_PLAN[32].destination = "JATIM"
      /\ OPERATIONAL_PLAN[33].destination = "JABAR" /\ OPERATIONAL_PLAN[34].destination = "MDC"
      /\ OPERATIONAL_PLAN[35].destination = "JATIM" /\ OPERATIONAL_PLAN[36].destination = "UPG"
      /\ OPERATIONAL_PLAN[37].destination = "JATENG_DIY"
  BY DEF OPERATIONAL_PLAN, Entry, OnHold
<1>7. /\ "PLW" \in Codes /\ "UPG" \in Codes /\ "MDC" \in Codes /\ "JABODETABEK" \in Codes
      /\ "JABAR" \in Codes /\ "JATENG_DIY" \in Codes /\ "JATIM" \in Codes
  BY SomeCodes
<1> QED
  BY <1>1, <1>3, <1>4, <1>5, <1>6, <1>7

LEMMA SendersAre ==
  ASSUME NEW index \in Nat, index # 0
  PROVE  OPERATIONAL_SENDERS[((index - 1) % Len(OPERATIONAL_SENDERS)) + 1] \in Accounts
<1>1. /\ Len(OPERATIONAL_SENDERS) = 4
      /\ OPERATIONAL_SENDERS[1] = "cust-dewi" /\ OPERATIONAL_SENDERS[2] = "cust-rahmat"
      /\ OPERATIONAL_SENDERS[3] = "agent-nusantara"
      /\ OPERATIONAL_SENDERS[4] = "cust-suspended"
  BY DEF OPERATIONAL_SENDERS
<1>2. /\ USERS[4].id = "cust-dewi" /\ USERS[5].id = "cust-rahmat"
      /\ USERS[7].id = "agent-nusantara" /\ USERS[6].id = "cust-suspended"
  BY DEF USERS, User
<1>3. {"cust-dewi", "cust-rahmat", "agent-nusantara", "cust-suspended"} \subseteq Accounts
  BY <1>2, UsersAre DEF Accounts
<1>4. PICK turn \in 0 .. 3 : turn = (index - 1) % Len(OPERATIONAL_SENDERS)
  BY <1>1
<1>5. turn + 1 \in {1, 2, 3, 4}
  OBVIOUS
<1> QED
  BY <1>1, <1>3, <1>4, <1>5

-------------------------------------------------------------------------------
(* The sample shipments.                                                   *)

\* A block that needs a part of what is there, and adds nothing else that is there.
LEMMA BlockJoins ==
  ASSUME NEW s, NEW block, IsSequence(s), IsSequence(block), NEW known, NEW needs,
         FitAfter(s, known), FitAfter(block, needs), needs \subseteq known \cup Adds(s),
         \A pair \in known \cup Adds(s) : pair \in Adds(block) => pair \in needs
  PROVE  /\ IsSequence(s \o block) /\ FitAfter(s \o block, known)
         /\ Adds(s \o block) = Adds(s) \cup Adds(block)
<1>1. FitAfter(block, known \cup Adds(s))
  BY FitInMore
<1> QED
  BY <1>1, JoinIs, JoinFits, JoinWrites

\* What is there before the first shipment.
Ready(known) ==
  /\ {"users"} \X Accounts \subseteq known /\ {"routes"} \X Codes \subseteq known
  /\ \A pair \in known :
       pair[1] \in {"routes", "rates", "users", "agent_profiles", "recipients"}

LEMMA ReadyIsApart ==
  ASSUME NEW known, Ready(known), NEW id
  PROVE  known \cap About(id) = {}
BY DEF Ready, About

LEMMA CustomerShipmentsFit ==
  ASSUME NEW known, Ready(known)
  PROVE  /\ IsSequence(seedCustomerShipments) /\ FitAfter(seedCustomerShipments, known)
         /\ \A pair \in Adds(seedCustomerShipments) :
              \E n \in 1 .. 3 : pair \in About(<<"shipment", n>>)
<1> DEFINE first  == calculateRateFor(routeOf("UPG"), 120)
           second == calculateRateFor(routeOf("JATIM"), 40)
           third  == calculateRateFor(routeOf("MDC"), 75)
           steps1 == <<At("PENDING_PAYMENT", 4), At("PAID", 4),
                       At("RECEIVED_AT_WAREHOUSE", 2), At("IN_TRANSIT", 1)>>
           steps2 == <<At("PENDING_PAYMENT", 1)>>
           steps3 == <<At("PENDING_PAYMENT", 26), At("PAID", 26),
                       At("RECEIVED_AT_WAREHOUSE", 25), At("IN_TRANSIT", 24),
                       At("ARRIVED_AT_DESTINATION", 22), At("READY_FOR_PICKUP", 22),
                       At("DELIVERED", 21)>>
           is1 == ShipmentIs("IN_TRANSIT", NULL, "PAID", 120, 124, first, 0, 4, 1)
           is2 == ShipmentIs("PENDING_PAYMENT", NULL, "UNPAID", 40, 0, second,
                             second.total, 1, 1)
           is3 == ShipmentIs("DELIVERED", NULL, "PAID", 75, 75, third, 0, 26, 21)
           a == createShipment(<<"shipment", 1>>, "customer", "UPG", is1, steps1)
           b == createPayment(<<"shipment", 1>>, "customer", Verified(first.total, 4))
           c == createShipment(<<"shipment", 2>>, "customer", "JATIM", is2, steps2)
           d == createShipment(<<"shipment", 3>>, "agent-approved", "MDC", is3, steps3)
           e == createPayment(<<"shipment", 3>>, "agent-approved", Verified(third.total, 26))
<1>1. seedCustomerShipments = a \o b \o c \o d \o e
  BY DEF seedCustomerShipments
<1>2. IsSequence(steps1) /\ IsSequence(steps2) /\ IsSequence(steps3)
  <2>1. /\ steps1 \in Seq({At("PENDING_PAYMENT", 4), At("PAID", 4),
                           At("RECEIVED_AT_WAREHOUSE", 2), At("IN_TRANSIT", 1)})
        /\ steps2 \in Seq({At("PENDING_PAYMENT", 1)})
        /\ steps3 \in Seq({At("PENDING_PAYMENT", 26), At("PAID", 26),
                           At("RECEIVED_AT_WAREHOUSE", 25), At("IN_TRANSIT", 24),
                           At("ARRIVED_AT_DESTINATION", 22), At("READY_FOR_PICKUP", 22),
                           At("DELIVERED", 21)})
    OBVIOUS
  <2> HIDE DEF steps1, steps2, steps3
  <2> QED
    BY <2>1, InSequence
<1>3. PICK id1, id2, id3 :
        id1 = <<"shipment", 1>> /\ id2 = <<"shipment", 2>> /\ id3 = <<"shipment", 3>>
  OBVIOUS
<1>4. id1 # id2 /\ id1 # id3 /\ id2 # id3
  BY <1>3
<1> HIDE DEF steps1, steps2, steps3, is1, is2, is3, first, second, third
<1>5. /\ IsSequence(a) /\ <<"shipments", id1>> \in Adds(a) /\ Adds(a) \subseteq About(id1)
      /\ FitAfter(a, {<<"users", "customer">>, <<"routes", "UPG">>})
      /\ \A pair \in Adds(a) : pair[1] \in {"shipments", "shipment_items", "shipment_events"}
  BY <1>2, <1>3, ShipmentFits
<1>6. /\ IsSequence(b) /\ Adds(b) \subseteq {"files", "attachments", "payments"} \X {id1}
      /\ FitAfter(b, {<<"users", "customer">>, <<"shipments", id1>>})
  BY <1>3, PaymentFits
<1>7. /\ IsSequence(c) /\ Adds(c) \subseteq About(id2)
      /\ FitAfter(c, {<<"users", "customer">>, <<"routes", "JATIM">>})
  BY <1>2, <1>3, ShipmentFits
<1>8. /\ IsSequence(d) /\ <<"shipments", id3>> \in Adds(d) /\ Adds(d) \subseteq About(id3)
      /\ FitAfter(d, {<<"users", "agent-approved">>, <<"routes", "MDC">>})
      /\ \A pair \in Adds(d) : pair[1] \in {"shipments", "shipment_items", "shipment_events"}
  BY <1>2, <1>3, ShipmentFits
<1>9. /\ IsSequence(e) /\ Adds(e) \subseteq {"files", "attachments", "payments"} \X {id3}
      /\ FitAfter(e, {<<"users", "agent-approved">>, <<"shipments", id3>>})
  BY <1>3, PaymentFits
<1> HIDE DEF a, b, c, d, e
<1>10. /\ <<"users", "customer">> \in known /\ <<"users", "agent-approved">> \in known
       /\ <<"routes", "UPG">> \in known /\ <<"routes", "JATIM">> \in known
       /\ <<"routes", "MDC">> \in known
  BY SomeAccounts, SomeCodes DEF Ready
<1>11. \A id : known \cap About(id) = {}
  BY ReadyIsApart
<1>12. \A id : {"files", "attachments", "payments"} \X {id} \subseteq About(id)
  BY DEF About
<1>13. /\ About(id1) \cap About(id2) = {} /\ About(id1) \cap About(id3) = {}
       /\ About(id2) \cap About(id3) = {}
  BY <1>4, AboutApart
<1>14. FitAfter(a, known)
  BY <1>5, <1>10, <1>11, FitInMore
<1>15. /\ IsSequence(a \o b) /\ FitAfter(a \o b, known) /\ Adds(a \o b) = Adds(a) \cup Adds(b)
  <2>1. \A pair \in known \cup Adds(a) : pair \notin Adds(b)
    BY <1>5, <1>6, <1>11, <1>12
  <2>2. {<<"users", "customer">>, <<"shipments", id1>>} \subseteq known \cup Adds(a)
    BY <1>5, <1>10
  <2> QED
    BY <1>5, <1>6, <1>14, <2>1, <2>2, BlockJoins
<1>16. PICK ab : ab = a \o b
  OBVIOUS
<1>17. IsSequence(ab) /\ FitAfter(ab, known) /\ Adds(ab) \subseteq About(id1)
  BY <1>5, <1>6, <1>12, <1>15, <1>16
<1>18. /\ IsSequence(ab \o c) /\ FitAfter(ab \o c, known)
       /\ Adds(ab \o c) = Adds(ab) \cup Adds(c)
  <2>1. \A pair \in known \cup Adds(ab) : pair \notin Adds(c)
    BY <1>7, <1>11, <1>13, <1>17
  <2>2. {<<"users", "customer">>, <<"routes", "JATIM">>} \subseteq known \cup Adds(ab)
    BY <1>10
  <2> QED
    BY <1>7, <1>17, <2>1, <2>2, BlockJoins
<1>19. PICK abc : abc = ab \o c
  OBVIOUS
<1>20. /\ IsSequence(abc) /\ FitAfter(abc, known)
       /\ Adds(abc) \subseteq About(id1) \cup About(id2)
  BY <1>7, <1>17, <1>18, <1>19
<1>21. /\ IsSequence(abc \o d) /\ FitAfter(abc \o d, known)
       /\ Adds(abc \o d) = Adds(abc) \cup Adds(d)
  <2>1. \A pair \in known \cup Adds(abc) : pair \notin Adds(d)
    BY <1>8, <1>11, <1>13, <1>20
  <2>2. {<<"users", "agent-approved">>, <<"routes", "MDC">>} \subseteq known \cup Adds(abc)
    BY <1>10
  <2> QED
    BY <1>8, <1>20, <2>1, <2>2, BlockJoins
<1>22. PICK abcd : abcd = abc \o d
  OBVIOUS
<1>23. /\ IsSequence(abcd) /\ FitAfter(abcd, known)
       /\ Adds(abcd) = Adds(abc) \cup Adds(d)
  BY <1>21, <1>22
<1>24. /\ IsSequence(abcd \o e) /\ FitAfter(abcd \o e, known)
       /\ Adds(abcd \o e) = Adds(abcd) \cup Adds(e)
  <2>1. \A pair \in known \cup Adds(abcd) : pair \notin Adds(e)
    <3>1. Adds(e) \subseteq About(id3)
      BY <1>9, <1>12
    <3>2. \A pair \in known \cup Adds(abc) : pair \notin Adds(e)
      BY <1>11, <1>13, <1>20, <3>1
    <3>3. \A pair \in Adds(d) : pair \notin Adds(e)
      BY <1>8, <1>9
    <3> QED
      BY <1>23, <3>2, <3>3
  <2>2. {<<"users", "agent-approved">>, <<"shipments", id3>>} \subseteq known \cup Adds(abcd)
    BY <1>8, <1>10, <1>23
  <2> QED
    BY <1>9, <1>23, <2>1, <2>2, BlockJoins
<1>25. seedCustomerShipments = abcd \o e
  BY <1>1, <1>16, <1>19, <1>22
<1>26. ASSUME NEW pair \in Adds(seedCustomerShipments)
       PROVE  \E n \in 1 .. 3 : pair \in About(<<"shipment", n>>)
  <2>1. pair \in About(id1) \cup About(id2) \cup About(id3)
    BY <1>8, <1>9, <1>12, <1>20, <1>23, <1>24, <1>25
  <2>2. 1 \in 1 .. 3 /\ 2 \in 1 .. 3 /\ 3 \in 1 .. 3
    OBVIOUS
  <2> QED
    BY <1>3, <2>1, <2>2
<1> QED
  BY <1>24, <1>25, <1>26

\* An entry of the plan needs its sender and its route.
LEMMA EntryFits ==
  ASSUME NEW index \in DOMAIN OPERATIONAL_PLAN
  PROVE  LET block == operationalShipment(index)
         IN  /\ IsSequence(block) /\ Adds(block) \subseteq About(<<"shipment-op", index - 1>>)
             /\ FitAfter(block, ({"users"} \X Accounts) \cup ({"routes"} \X Codes))
<1>1. PICK plan, sender, id :
        /\ plan = OPERATIONAL_PLAN[index]
        /\ sender = OPERATIONAL_SENDERS[((index - 1) % Len(OPERATIONAL_SENDERS)) + 1]
        /\ id = <<"shipment-op", index - 1>>
  OBVIOUS
<1>2. PICK rate : rate = calculateRateFor(routeOf(plan.destination), plan.weight)
  OBVIOUS
<1>3. PICK isPaid : isPaid = Contains(filteredPath(plan), "PAID")
  OBVIOUS
<1>4. PICK is :
        is = ShipmentIs(plan.status, plan.previousStatus,
          IF isPaid THEN "PAID"
          ELSE IF plan.awaitingVerification THEN "WAITING_VERIFICATION" ELSE "UNPAID",
          plan.weight, IF isPaid THEN plan.weight ELSE 0, rate,
          IF isPaid THEN 0 ELSE rate.total, createdDaysAgo(plan), plan.staleDays)
  OBVIOUS
<1>5. PICK pay : pay = operationalPayment(plan, rate.total)
  OBVIOUS
<1>6. PICK shipment, payments :
        /\ shipment = createShipment(id, sender, plan.destination, is, timeline(plan))
        /\ payments = [i \in DOMAIN pay |-> createPayment(id, sender, pay[i])]
  OBVIOUS
<1>7. operationalShipment(index) = shipment \o FlattenSeq(payments)
  BY <1>1, <1>2, <1>3, <1>4, <1>5, <1>6 DEF operationalShipment
<1>8. sender \in Accounts /\ plan.destination \in Codes
  <2>1. index \in Nat /\ index # 0
    BY PlanIs
  <2> QED
    BY <1>1, <2>1, PlanIs, SendersAre
<1>9. PICK known : known = ({"users"} \X Accounts) \cup ({"routes"} \X Codes)
  OBVIOUS
<1>10. /\ IsSequence(shipment) /\ <<"shipments", id>> \in Adds(shipment)
       /\ FitAfter(shipment, {<<"users", sender>>, <<"routes", plan.destination>>})
       /\ Adds(shipment) \subseteq About(id)
       /\ \A pair \in Adds(shipment) :
            pair[1] \in {"shipments", "shipment_items", "shipment_events"}
  BY <1>6, TimelineIs, ShipmentFits
<1>11. FitAfter(shipment, known)
  <2>1. {<<"users", sender>>, <<"routes", plan.destination>>} \subseteq known
    BY <1>8, <1>9
  <2>2. \A pair \in known : pair \notin About(id)
    BY <1>9 DEF About
  <2> QED
    BY <1>10, <2>1, <2>2, FitInMore
<1>12. PICK n \in {0, 1} : DOMAIN pay = 1 .. n
  <2>1. \A payment : DOMAIN <<payment>> = 1 .. 1
    OBVIOUS
  <2>2. DOMAIN << >> = 1 .. 0
    OBVIOUS
  <2> QED
    BY <1>5, <2>1, <2>2 DEF operationalPayment
<1>13. IsSequence(payments) /\ Len(payments) = n /\ DOMAIN payments = 1 .. n
  BY <1>6, <1>12, ListIs
<1>14. PICK needs : needs = {<<"users", sender>>, <<"shipments", id>>}
  OBVIOUS
<1>15. ASSUME NEW i \in DOMAIN payments
       PROVE  /\ IsSequence(payments[i])
              /\ FitAfter(payments[i], needs \cup AddsUpTo(payments, i - 1))
              /\ Adds(payments[i]) \subseteq {"files", "attachments", "payments"} \X {id}
  <2>1. i = 1
    BY <1>13
  <2>2. AddsUpTo(payments, i - 1) = {}
    BY <2>1 DEF AddsUpTo
  <2>3. payments[i] = createPayment(id, sender, pay[i])
    BY <1>6
  <2>4. needs \cup AddsUpTo(payments, i - 1) = needs
    BY <2>2
  <2> QED
    BY <1>14, <2>3, <2>4, PaymentFits
<1>16. PICK paid : paid = FlattenSeq(payments)
  OBVIOUS
<1>17. IsSequence(paid) /\ FitAfter(paid, needs) /\ Adds(paid) = AddsUpTo(payments, n)
  BY <1>13, <1>15, <1>16, FlattenFits
<1>18. Adds(paid) \subseteq {"files", "attachments", "payments"} \X {id}
  BY <1>13, <1>15, <1>17 DEF AddsUpTo
<1>19. /\ IsSequence(shipment \o paid) /\ FitAfter(shipment \o paid, known)
       /\ Adds(shipment \o paid) = Adds(shipment) \cup Adds(paid)
  <2>1. needs \subseteq known \cup Adds(shipment)
    BY <1>8, <1>9, <1>10, <1>14
  <2>2. \A pair \in known \cup Adds(shipment) : pair \notin Adds(paid)
    BY <1>9, <1>10, <1>18
  <2> QED
    BY <1>10, <1>11, <1>17, <2>1, <2>2, BlockJoins
<1>20. Adds(shipment \o paid) \subseteq About(id)
  BY <1>10, <1>18, <1>19 DEF About
<1> QED
  BY <1>1, <1>7, <1>9, <1>16, <1>19, <1>20

LEMMA OperationalShipmentsFit ==
  ASSUME NEW known, NEW before, Ready(before), before \subseteq known,
         \A pair \in known : pair \in before \/ \E n \in 1 .. 3 : pair \in About(<<"shipment", n>>)
  PROVE  IsSequence(seedOperationalShipments) /\ FitAfter(seedOperationalShipments, known)
<1>1. PICK blocks : blocks = [index \in DOMAIN OPERATIONAL_PLAN |-> operationalShipment(index)]
  OBVIOUS
<1>2. DOMAIN blocks = 1 .. 37 /\ IsSequence(blocks)
  BY <1>1, PlanIs, ListIs
<1>3. PICK needs : needs = ({"users"} \X Accounts) \cup ({"routes"} \X Codes)
  OBVIOUS
<1>4. ASSUME NEW i \in 1 .. 37
      PROVE  /\ IsSequence(blocks[i]) /\ FitAfter(blocks[i], needs)
             /\ Adds(blocks[i]) \subseteq About(<<"shipment-op", i - 1>>)
  <2>1. blocks[i] = operationalShipment(i) /\ i \in DOMAIN OPERATIONAL_PLAN
    BY <1>1, <1>2, PlanIs
  <2> QED
    BY <1>3, <2>1, EntryFits
<1>5. ASSUME NEW i \in DOMAIN blocks
      PROVE  IsSequence(blocks[i]) /\ FitAfter(blocks[i], known \cup AddsUpTo(blocks, i - 1))
  <2>1. i \in 1 .. 37
    BY <1>2
  <2>2. PICK id : id = <<"shipment-op", i - 1>>
    OBVIOUS
  <2>3. needs \subseteq known
    BY <1>3 DEF Ready
  <2>4. known \cap About(id) = {}
    <3>1. before \cap About(id) = {}
      BY ReadyIsApart
    <3>2. ASSUME NEW n \in 1 .. 3
          PROVE  About(<<"shipment", n>>) \cap About(id) = {}
      <4>1. <<"shipment", n>> # id
        BY <2>2
      <4> QED
        BY <4>1, AboutApart
    <3> QED
      BY <3>1, <3>2
  <2>5. ASSUME NEW j \in 1 .. (i - 1)
        PROVE  Adds(blocks[j]) \cap About(id) = {}
    <3>1. j \in 1 .. 37 /\ j - 1 # i - 1
      BY <2>1
    <3>2. <<"shipment-op", j - 1>> # id
      BY <2>2, <3>1
    <3>3. About(<<"shipment-op", j - 1>>) \cap About(id) = {}
      BY <3>2, AboutApart
    <3> QED
      BY <1>4, <3>1, <3>3
  <2>6. AddsUpTo(blocks, i - 1) \cap About(id) = {}
    BY <2>5 DEF AddsUpTo
  <2>7. \A pair \in known \cup AddsUpTo(blocks, i - 1) : pair \notin Adds(blocks[i])
    BY <1>4, <2>1, <2>2, <2>4, <2>6
  <2>8. IsSequence(blocks[i]) /\ FitAfter(blocks[i], needs)
    BY <1>4, <2>1
  <2>9. PICK more : more = known \cup AddsUpTo(blocks, i - 1)
    OBVIOUS
  <2>10. FitAfter(blocks[i], more)
    BY <2>3, <2>7, <2>8, <2>9, FitInMore
  <2> QED
    BY <2>8, <2>9, <2>10
<1>6. IsSequence(FlattenSeq(blocks)) /\ FitAfter(FlattenSeq(blocks), known)
  BY <1>2, <1>5, FlattenFits
<1> QED
  BY <1>1, <1>6 DEF seedOperationalShipments

LEMMA FullIsSeedlike == Seedlike(FullProgram)
<1>1. PICK minimal, base :
        /\ minimal = MinimalProgram
        /\ base = ({"routes", "rates"} \X Codes) \cup {<<"users", "admin">>}
  OBVIOUS
<1>2. Seedlike(minimal) /\ Adds(minimal) = base
  BY <1>1, MinimalIsSeedlike
<1>3. /\ IsSequence(seedUsers) /\ FitAfter(seedUsers, base)
      /\ {"users"} \X Accounts \subseteq Adds(seedUsers)
      /\ Adds(seedUsers) \subseteq {"users", "agent_profiles"} \X Accounts
  BY <1>1, UsersFit
<1>4. PICK withUsers : withUsers = minimal \o seedUsers
  OBVIOUS
<1>5. Seedlike(withUsers) /\ Adds(withUsers) = base \cup Adds(seedUsers)
  BY <1>2, <1>3, <1>4, JoinSeedlike
<1>6. /\ IsSequence(seedRecipients) /\ FitAfter(seedRecipients, Adds(withUsers))
      /\ \A pair \in Adds(seedRecipients) : pair[1] = "recipients"
  <2>1. {"users"} \X Accounts \subseteq Adds(withUsers)
    BY <1>3, <1>5
  <2>2. \A pair \in Adds(withUsers) : pair[1] # "recipients"
    BY <1>1, <1>3, <1>5
  <2> QED
    BY <2>1, <2>2, RecipientsFit
<1>7. PICK withRecipients : withRecipients = withUsers \o seedRecipients
  OBVIOUS
<1>8. /\ Seedlike(withRecipients)
      /\ Adds(withRecipients) = Adds(withUsers) \cup Adds(seedRecipients)
  BY <1>5, <1>6, <1>7, JoinSeedlike
<1>9. Ready(Adds(withRecipients))
  <2>1. {"users"} \X Accounts \subseteq Adds(withRecipients)
    BY <1>3, <1>5, <1>8
  <2>2. {"routes"} \X Codes \subseteq Adds(withRecipients)
    BY <1>1, <1>5, <1>8
  <2>3. \A pair \in base : pair[1] \in {"routes", "rates", "users"}
    BY <1>1
  <2>4. \A pair \in Adds(seedUsers) : pair[1] \in {"users", "agent_profiles"}
    BY <1>3
  <2> QED
    BY <1>5, <1>6, <1>8, <2>1, <2>2, <2>3, <2>4 DEF Ready
<1>10. /\ IsSequence(seedCustomerShipments)
       /\ FitAfter(seedCustomerShipments, Adds(withRecipients))
       /\ \A pair \in Adds(seedCustomerShipments) :
            \E n \in 1 .. 3 : pair \in About(<<"shipment", n>>)
  BY <1>9, CustomerShipmentsFit
<1>11. PICK withCustomers : withCustomers = withRecipients \o seedCustomerShipments
  OBVIOUS
<1>12. /\ Seedlike(withCustomers)
       /\ Adds(withCustomers) = Adds(withRecipients) \cup Adds(seedCustomerShipments)
  BY <1>8, <1>10, <1>11, JoinSeedlike
<1>13. /\ IsSequence(seedOperationalShipments)
       /\ FitAfter(seedOperationalShipments, Adds(withCustomers))
  <2>1. Adds(withRecipients) \subseteq Adds(withCustomers)
    BY <1>12
  <2>2. \A pair \in Adds(withCustomers) :
          \/ pair \in Adds(withRecipients)
          \/ \E n \in 1 .. 3 : pair \in About(<<"shipment", n>>)
    BY <1>10, <1>12
  <2> QED
    BY <1>9, <2>1, <2>2, OperationalShipmentsFit
<1>14. Seedlike(withCustomers \o seedOperationalShipments)
  BY <1>12, <1>13, JoinSeedlike
<1>15. FullProgram = withCustomers \o seedOperationalShipments
  BY <1>1, <1>4, <1>7, <1>11 DEF FullProgram
<1> QED
  BY <1>14, <1>15

LEMMA ProgramIsSeedlike == Seedlike(Program) /\ Seedlike(Program)'
<1>1. Program \in {MinimalProgram, FullProgram} /\ Program' \in {MinimalProgram, FullProgram}
  BY DEF Program
<1> QED
  BY <1>1, MinimalIsSeedlike, FullIsSeedlike

LEMMA FillingCorrect == SeedingSpec => []FillingInv
<1>1. FillingInv /\ [SeedingNext]_seedingVars => FillingInv'
  BY FillingStep, ProgramIsSeedlike
<1> QED
  BY <1>1, FillingStart, PTL DEF SeedingSpec

\* However often and wherever the seed broke off before, and however many people
\* registered and booked meanwhile: no statement of it is refused by a foreign key or
\* a unique index, as long as no row of theirs is left (clean, main).
THEOREM NothingIsEverRefused == SeedingSpec => []NothingIsRefused
<1>1. FillingInv => NothingIsRefused
  BY FillingRefusesNothing, ProgramIsSeedlike
<1> QED
  BY <1>1, FillingCorrect, PTL

\* Every attachment has its file, also in a database that a seed left half filled and
\* another one filled again (storeProof, createPayment).
THEOREM AttachmentsAlwaysHaveFiles == SeedingSpec => []AttachmentsHaveFiles
<1>1. FillingInv => AttachmentsHaveFiles
  BY DEF FillingInv
<1> QED
  BY <1>1, FillingCorrect, PTL

-------------------------------------------------------------------------------
(* The path of a sample shipment.                                          *)

LEMMA StatusPathItems ==
  /\ STATUS_PATH[1] = "PENDING_PAYMENT" /\ STATUS_PATH[2] = "PAID"
  /\ STATUS_PATH[3] = "RECEIVED_AT_WAREHOUSE" /\ STATUS_PATH[4] = "IN_TRANSIT"
  /\ STATUS_PATH[5] = "ARRIVED_AT_DESTINATION" /\ STATUS_PATH[6] = "READY_FOR_PICKUP"
  /\ STATUS_PATH[7] = "OUT_FOR_DELIVERY" /\ STATUS_PATH[8] = "DELIVERED"
  /\ DOMAIN STATUS_PATH = 1 .. 8 /\ Len(STATUS_PATH) = 8
BY DEF STATUS_PATH

\* The last item up to i that a service has.
LastAllowed(i, service) ==
  IF isAllowedForService(STATUS_PATH[i], service) THEN i ELSE i - 1

\* An item that the service lacks comes after one that it has, and the next item may
\* follow the last one before.
LEMMA PathSteps ==
  ASSUME NEW service \in ServiceType, NEW i \in 1 .. 7
  PROVE  /\ LastAllowed(i, service) \in 1 .. i
         /\ ~isAllowedForService(STATUS_PATH[i + 1], service) => LastAllowed(i, service) = i
         /\ isAllowedForService(STATUS_PATH[i + 1], service) =>
              isValidTransition(STATUS_PATH[LastAllowed(i, service)], STATUS_PATH[i + 1],
                                service, NULL)
<1>1. /\ STATUS_TRANSITIONS["PENDING_PAYMENT"] = {"PAID", "CANCELLED"}
      /\ STATUS_TRANSITIONS["PAID"] = {"RECEIVED_AT_WAREHOUSE", "CANCELLED"}
      /\ STATUS_TRANSITIONS["RECEIVED_AT_WAREHOUSE"] = {"IN_TRANSIT", "ON_HOLD", "CANCELLED"}
      /\ STATUS_TRANSITIONS["IN_TRANSIT"] = {"ARRIVED_AT_DESTINATION", "ON_HOLD"}
      /\ STATUS_TRANSITIONS["ARRIVED_AT_DESTINATION"] =
           {"READY_FOR_PICKUP", "OUT_FOR_DELIVERY", "ON_HOLD"}
      /\ STATUS_TRANSITIONS["READY_FOR_PICKUP"] = {"DELIVERED", "ON_HOLD"}
      /\ STATUS_TRANSITIONS["OUT_FOR_DELIVERY"] = {"DELIVERED", "ON_HOLD"}
  BY DEF STATUS_TRANSITIONS
<1>2. \A from, to :
        isValidTransition(from, to, service, NULL) <=>
          /\ to \in IF from = "ON_HOLD" THEN WaysOutOfHold(NULL) ELSE STATUS_TRANSITIONS[from]
          /\ isAllowedForService(to, service)
  BY DEF isValidTransition, getAllowedTransitions
<1>3. service = "PORT_TO_PORT" \/ service = "PORT_TO_DOOR"
  BY DEF ServiceType
<1>4. i = 1 \/ i = 2 \/ i = 3 \/ i = 4 \/ i = 5 \/ i = 6 \/ i = 7
  OBVIOUS
<1>5. \A k \in 1 .. 8 :
        isAllowedForService(STATUS_PATH[k], service) <=>
          /\ k = 6 => service = "PORT_TO_PORT"
          /\ k = 7 => service = "PORT_TO_DOOR"
  <2> SUFFICES ASSUME NEW k \in 1 .. 8
               PROVE  isAllowedForService(STATUS_PATH[k], service) <=>
                        /\ k = 6 => service = "PORT_TO_PORT"
                        /\ k = 7 => service = "PORT_TO_DOOR"
    OBVIOUS
  <2>1. k = 1 \/ k = 2 \/ k = 3 \/ k = 4 \/ k = 5 \/ k = 6 \/ k = 7 \/ k = 8
    OBVIOUS
  <2> QED
    BY <2>1, StatusPathItems DEF isAllowedForService
<1>6. i \in 1 .. 8 /\ i + 1 \in 1 .. 8
  OBVIOUS
<1>7. LastAllowed(i, service) \in 1 .. i
  BY <1>5, <1>6 DEF LastAllowed
<1>8. ~isAllowedForService(STATUS_PATH[i + 1], service) => LastAllowed(i, service) = i
  BY <1>3, <1>5, <1>6 DEF LastAllowed
<1>9. ASSUME isAllowedForService(STATUS_PATH[i + 1], service)
      PROVE  isValidTransition(STATUS_PATH[LastAllowed(i, service)], STATUS_PATH[i + 1],
                               service, NULL)
  <2>1. PICK last : last = LastAllowed(i, service)
    OBVIOUS
  <2>2. \/ i # 6 /\ i # 7 /\ last = i
        \/ i = 6 /\ service = "PORT_TO_DOOR" /\ last = 5
        \/ i = 7 /\ service = "PORT_TO_DOOR" /\ last = 7
        \/ i = 7 /\ service = "PORT_TO_PORT" /\ last = 6
    <3>1. i = 6 => service = "PORT_TO_DOOR"
      BY <1>5, <1>6, <1>9
    <3>2. last = IF (i = 6 => service = "PORT_TO_PORT") /\ (i = 7 => service = "PORT_TO_DOOR")
                 THEN i ELSE i - 1
      BY <1>5, <1>6, <2>1 DEF LastAllowed
    <3> QED
      BY <1>3, <3>1, <3>2
  <2>3. STATUS_PATH[i + 1] \in STATUS_TRANSITIONS[STATUS_PATH[last]]
    <3>1. CASE i = 1 \/ i = 2 \/ i = 3 \/ i = 4
      BY <1>1, <2>2, <3>1, StatusPathItems
    <3>2. CASE i = 5 \/ i = 6
      BY <1>1, <2>2, <3>2, StatusPathItems
    <3>3. CASE i = 7
      BY <1>1, <2>2, <3>3, StatusPathItems
    <3> QED
      BY <1>4, <3>1, <3>2, <3>3
  <2>4. STATUS_PATH[last] # "ON_HOLD"
    <3>1. last \in 1 .. 7
      BY <1>7, <2>1
    <3> QED
      BY <3>1, StatusPathItems
  <2> QED
    BY <1>2, <1>9, <2>1, <2>3, <2>4
<1> QED
  BY <1>7, <1>8, <1>9

\* A history of a service: from the booking, by legal steps, to a status.
Chain(path, service, last) ==
  /\ IsSequence(path) /\ Len(path) >= 1
  /\ path[1] = "PENDING_PAYMENT" /\ path[Len(path)] = last
  /\ \A k \in 1 .. Len(path) :
       path[k] \in Status \ {"ON_HOLD", "CANCELLED"} /\ (k # 1 => path[k] # "PENDING_PAYMENT")
  /\ \A k \in 1 .. Len(path) :
       k > 1 => isValidTransition(path[k - 1], path[k], service, NULL)

LEMMA ChainGrows ==
  ASSUME NEW path, NEW service, NEW last, Chain(path, service, last),
         NEW next \in Status \ {"PENDING_PAYMENT", "ON_HOLD", "CANCELLED"},
         isValidTransition(last, next, service, NULL)
  PROVE  Chain(path \o <<next>>, service, next)
<1>1. PICK n \in Nat : n = Len(path) /\ n >= 1
  BY SequenceIs DEF Chain
<1>2. IsSequence(<<next>>) /\ Len(<<next>>) = 1 /\ <<next>>[1] = next
  BY OneStatement
<1>3. PICK more : more = path \o <<next>>
  OBVIOUS
<1>4. /\ IsSequence(more) /\ Len(more) = n + 1
      /\ \A k \in 1 .. n : more[k] = path[k]
      /\ more[n + 1] = next
  <2>1. /\ IsSequence(path \o <<next>>) /\ Len(path \o <<next>>) = Len(path) + Len(<<next>>)
        /\ \A k \in 1 .. Len(path) : (path \o <<next>>)[k] = path[k]
        /\ \A k \in 1 .. Len(<<next>>) : (path \o <<next>>)[Len(path) + k] = <<next>>[k]
    BY <1>2, JoinIs DEF Chain
  <2> QED
    BY <1>1, <1>2, <1>3, <2>1
<1>5. ASSUME NEW k \in 1 .. n + 1
      PROVE  more[k] \in Status \ {"ON_HOLD", "CANCELLED"} /\ (k # 1 => more[k] # "PENDING_PAYMENT")
  <2>1. CASE k <= n
    BY <1>1, <1>4, <2>1 DEF Chain
  <2>2. CASE k = n + 1
    BY <1>4, <2>2
  <2> QED
    BY <2>1, <2>2
<1>6. ASSUME NEW k \in 1 .. n + 1, k > 1
      PROVE  isValidTransition(more[k - 1], more[k], service, NULL)
  <2>1. k - 1 \in 1 .. n /\ more[k - 1] = path[k - 1]
    BY <1>4, <1>6
  <2>2. CASE k <= n
    BY <1>1, <1>4, <1>6, <2>1, <2>2 DEF Chain
  <2>3. CASE k = n + 1
    <3>1. more[k - 1] = last
      BY <1>1, <2>1, <2>3 DEF Chain
    <3> QED
      BY <1>4, <2>3, <3>1
  <2> QED
    BY <2>2, <2>3
<1>7. more[1] = "PENDING_PAYMENT"
  BY <1>1, <1>4 DEF Chain
<1> QED
  BY <1>1, <1>3, <1>4, <1>5, <1>6, <1>7 DEF Chain

\* The beginning of the path, without the items that the service lacks.
Filtered(n, service) ==
  FlattenSeq([step \in 1 .. n |->
    IF isAllowedForService(STATUS_PATH[step], service) THEN <<STATUS_PATH[step]>> ELSE << >>])

LEMMA FilteredIs ==
  ASSUME NEW service \in ServiceType, NEW n \in 1 .. 8
  PROVE  Chain(Filtered(n, service), service, STATUS_PATH[LastAllowed(n, service)])
<1>1. PICK parts : parts = [step \in 1 .. n |->
        IF isAllowedForService(STATUS_PATH[step], service) THEN <<STATUS_PATH[step]>> ELSE << >>]
  OBVIOUS
<1>2. DOMAIN parts = 1 .. n /\ Len(parts) = n /\ n # 0
  BY <1>1, ListIs
<1>3. PICK flat : Flattens(flat, parts, n) /\ Filtered(n, service) = flat[n]
  <2>1. Filtered(n, service) = FlattenSeq(parts)
    BY <1>1 DEF Filtered
  <2>2. \E flat : Flattens(flat, parts, n) /\ FlattenSeq(parts) = flat[n]
    BY <1>2, FlattenIs
  <2> QED
    BY <2>1, <2>2
<1> DEFINE Good(i) == Chain(flat[i], service, STATUS_PATH[LastAllowed(i, service)])
           Reached == {i \in Nat : i + 1 <= n => Good(i + 1)}
<1>4. 0 \in Reached
  <2>1. flat[1] = parts[1]
    BY <1>2, <1>3, FlattensIs
  <2>2. isAllowedForService(STATUS_PATH[1], service)
    BY StatusPathItems DEF isAllowedForService
  <2>3. flat[1] = <<"PENDING_PAYMENT">> /\ LastAllowed(1, service) = 1
    BY <1>1, <2>1, <2>2, StatusPathItems DEF LastAllowed
  <2>4. PICK one : one = <<"PENDING_PAYMENT">>
    OBVIOUS
  <2>5. IsSequence(one) /\ Len(one) = 1 /\ one[1] = "PENDING_PAYMENT"
    BY <2>4, OneStatement
  <2>6. Chain(one, service, "PENDING_PAYMENT")
    BY <2>5 DEF Chain, Status
  <2> QED
    BY <2>3, <2>4, <2>6, StatusPathItems
<1>5. ASSUME NEW i \in 1 .. n, i + 1 \in 1 .. n, Good(i)
      PROVE  Good(i + 1)
  <2>1. flat[i + 1] = flat[i] \o parts[i + 1]
    <3>1. i + 1 # 1 /\ (i + 1) - 1 = i
      OBVIOUS
    <3>2. flat[i + 1] = IF i + 1 = 1 THEN parts[i + 1]
                        ELSE flat[(i + 1) - 1] \o parts[i + 1]
      BY <1>3, <1>5, FlattensIs
    <3> QED
      BY <3>1, <3>2
  <2>2. i \in 1 .. 7 /\ i + 1 \in 1 .. 8
    BY <1>5
  <2>3. CASE isAllowedForService(STATUS_PATH[i + 1], service)
    <3>1. parts[i + 1] = <<STATUS_PATH[i + 1]>> /\ LastAllowed(i + 1, service) = i + 1
      BY <1>1, <1>5, <2>3 DEF LastAllowed
    <3>2. STATUS_PATH[i + 1] \in Status \ {"PENDING_PAYMENT", "ON_HOLD", "CANCELLED"}
      <4>1. i + 1 \in 2 .. 8
        BY <2>2
      <4>2. \A k \in 2 .. 8 :
              STATUS_PATH[k] \in Status \ {"PENDING_PAYMENT", "ON_HOLD", "CANCELLED"}
        BY StatusPathItems DEF Status
      <4> QED
        BY <4>1, <4>2
    <3>3. isValidTransition(STATUS_PATH[LastAllowed(i, service)], STATUS_PATH[i + 1],
                            service, NULL)
      BY <2>2, <2>3, PathSteps
    <3>4. Chain(flat[i] \o <<STATUS_PATH[i + 1]>>, service, STATUS_PATH[i + 1])
      BY <1>5, <3>2, <3>3, ChainGrows
    <3> QED
      BY <2>1, <3>1, <3>4
  <2>4. CASE ~isAllowedForService(STATUS_PATH[i + 1], service)
    <3>1. parts[i + 1] = << >> /\ LastAllowed(i + 1, service) = i
      BY <1>1, <1>5, <2>4 DEF LastAllowed
    <3>2. LastAllowed(i, service) = i
      BY <2>2, <2>4, PathSteps
    <3>3. flat[i] \o << >> = flat[i]
      <4>1. IsSequence(flat[i])
        BY <1>5 DEF Chain
      <4> QED
        BY <4>1, ConcatEmptySeq DEF IsSequence
    <3> QED
      BY <1>5, <2>1, <3>1, <3>2, <3>3
  <2> QED
    BY <2>3, <2>4
<1>6. ASSUME NEW i \in Nat, i \in Reached
      PROVE  i + 1 \in Reached
  <2>1. CASE (i + 1) + 1 <= n
    <3>1. i + 1 \in 1 .. n /\ (i + 1) + 1 \in 1 .. n /\ Good(i + 1)
      BY <1>6, <2>1
    <3> QED
      BY <1>5, <3>1
  <2> QED
    BY <2>1
<1> HIDE DEF Reached
<1>7. Nat \subseteq Reached
  BY <1>4, <1>6, NaturalsReached
<1>8. n - 1 \in Nat /\ (n - 1) + 1 = n
  OBVIOUS
<1> QED
  BY <1>3, <1>7, <1>8 DEF Reached

\* How far the path of an entry goes, and where it ends.
EntryAt(plan, n) ==
  LET effective == IF plan.previousStatus = NULL THEN plan.status ELSE plan.previousStatus
  IN  effective = STATUS_PATH[n] \/ (n = 1 /\ effective = "CANCELLED")

LEMMA FilteredPathIs ==
  ASSUME NEW plan, NEW n \in 1 .. 8, EntryAt(plan, n)
  PROVE  filteredPath(plan) = Filtered(n, routeOf(plan.destination).serviceType)
<1>1. PICK effective :
        effective = IF plan.previousStatus = NULL THEN plan.status ELSE plan.previousStatus
  OBVIOUS
<1>2. effective = STATUS_PATH[n] \/ (n = 1 /\ effective = "CANCELLED")
  BY <1>1 DEF EntryAt
<1> DEFINE until == CHOOSE i \in DOMAIN STATUS_PATH : STATUS_PATH[i] = effective
           path  == IF Contains(STATUS_PATH, effective) THEN SubSeq(STATUS_PATH, 1, until)
                    ELSE <<"PENDING_PAYMENT">>
<1>3. DOMAIN path = 1 .. n /\ \A k \in 1 .. n : path[k] = STATUS_PATH[k]
  <2>1. \A i, j \in 1 .. 8 : STATUS_PATH[i] = STATUS_PATH[j] => i = j
    BY StatusPathItems
  <2>2. \A i \in 1 .. 8 : STATUS_PATH[i] # "CANCELLED"
    BY StatusPathItems
  <2>3. CASE effective = STATUS_PATH[n]
    <3>1. Contains(STATUS_PATH, effective)
      BY <2>3, StatusPathItems DEF Contains
    <3>2. until \in 1 .. 8 /\ STATUS_PATH[until] = effective
      BY <2>3, StatusPathItems
    <3>3. until = n
      BY <2>1, <2>3, <3>2
    <3> HIDE DEF until
    <3>4. path = SubSeq(STATUS_PATH, 1, n)
      BY <3>1, <3>3
    <3>5. /\ DOMAIN SubSeq(STATUS_PATH, 1, n) = 1 .. n
          /\ \A k \in 1 .. n : SubSeq(STATUS_PATH, 1, n)[k] = STATUS_PATH[k]
      BY StatusPathIs, LenProperties
    <3> QED
      BY <3>4, <3>5
  <2>4. CASE n = 1 /\ effective = "CANCELLED"
    <3>1. ~Contains(STATUS_PATH, effective)
      BY <2>2, <2>4, StatusPathItems DEF Contains
    <3>2. path = <<"PENDING_PAYMENT">>
      BY <3>1
    <3>3. DOMAIN <<"PENDING_PAYMENT">> = 1 .. 1 /\ <<"PENDING_PAYMENT">>[1] = "PENDING_PAYMENT"
      OBVIOUS
    <3> HIDE DEF path
    <3> QED
      BY <2>4, <3>2, <3>3, StatusPathItems
  <2> QED
    BY <1>2, <2>3, <2>4
<1> HIDE DEF path
<1>4. PICK service : service = routeOf(plan.destination).serviceType
  OBVIOUS
<1>5. filteredPath(plan) = FlattenSeq([step \in DOMAIN path |->
        IF isAllowedForService(path[step], service) THEN <<path[step]>> ELSE << >>])
  BY <1>1, <1>4 DEF filteredPath, path
<1>6. [step \in DOMAIN path |->
         IF isAllowedForService(path[step], service) THEN <<path[step]>> ELSE << >>]
      = [step \in 1 .. n |->
         IF isAllowedForService(STATUS_PATH[step], service)
         THEN <<STATUS_PATH[step]>> ELSE << >>]
  BY <1>3
<1> QED
  BY <1>4, <1>5, <1>6 DEF Filtered

LEMMA RouteIs ==
  ASSUME NEW i \in DOMAIN ROUTES
  PROVE  routeOf(ROUTES[i].code) = ROUTES[i]
<1>1. PICK chosen \in DOMAIN ROUTES :
        /\ ROUTES[chosen].code = ROUTES[i].code
        /\ routeOf(ROUTES[i].code) = ROUTES[chosen]
  BY DEF routeOf
<1> QED
  BY <1>1, CodesAre

\* What the plan must see to: a service has the status of its entries, and holds only
\* where one can hold.
SoundEntry(plan) ==
  LET service == routeOf(plan.destination).serviceType
  IN  /\ service \in ServiceType
      /\ plan.staleDays \in Nat
      /\ \/ plan.previousStatus = NULL /\ plan.status = "CANCELLED"
         \/ \E n \in 1 .. 8 :
              /\ isAllowedForService(STATUS_PATH[n], service)
              /\ \/ plan.previousStatus = NULL /\ plan.status = STATUS_PATH[n]
                 \/ /\ plan.status = "ON_HOLD" /\ plan.previousStatus = STATUS_PATH[n]
                    /\ "ON_HOLD" \in STATUS_TRANSITIONS[STATUS_PATH[n]]

LEMMA EntryPath ==
  ASSUME NEW plan, SoundEntry(plan)
  PROVE  LET service == routeOf(plan.destination).serviceType
         IN  \E last \in Status :
               /\ Chain(filteredPath(plan), service, last)
               /\ \/ plan.previousStatus = NULL /\ plan.status = "CANCELLED"
                  \/ plan.previousStatus = NULL /\ plan.status = last
                     /\ plan.status # "ON_HOLD"
                  \/ /\ plan.previousStatus = last /\ plan.status = "ON_HOLD"
                     /\ last # NULL /\ isValidTransition(last, "ON_HOLD", service, NULL)
<1>1. PICK service \in ServiceType : service = routeOf(plan.destination).serviceType
  BY DEF SoundEntry
<1>2. \A k \in 1 .. 8 : STATUS_PATH[k] \in Status /\ STATUS_PATH[k] # "ON_HOLD" /\ STATUS_PATH[k] # NULL
  BY StatusPathItems DEF Status, NULL
<1>3. CASE plan.previousStatus = NULL /\ plan.status = "CANCELLED"
  <2>1. EntryAt(plan, 1)
    BY <1>3 DEF EntryAt
  <2>2. Chain(filteredPath(plan), service, STATUS_PATH[LastAllowed(1, service)])
    BY <1>1, <2>1, FilteredPathIs, FilteredIs
  <2>3. LastAllowed(1, service) \in 1 .. 8
    BY PathSteps
  <2> QED
    BY <1>1, <1>2, <1>3, <2>2, <2>3
<1>4. ASSUME NEW n \in 1 .. 8, isAllowedForService(STATUS_PATH[n], service),
             \/ plan.previousStatus = NULL /\ plan.status = STATUS_PATH[n]
             \/ /\ plan.status = "ON_HOLD" /\ plan.previousStatus = STATUS_PATH[n]
                /\ "ON_HOLD" \in STATUS_TRANSITIONS[STATUS_PATH[n]]
      PROVE  \E last \in Status :
               /\ Chain(filteredPath(plan), service, last)
               /\ \/ plan.previousStatus = NULL /\ plan.status = last
                     /\ plan.status # "ON_HOLD"
                  \/ /\ plan.previousStatus = last /\ plan.status = "ON_HOLD"
                     /\ last # NULL /\ isValidTransition(last, "ON_HOLD", service, NULL)
  <2>1. EntryAt(plan, n)
    BY <1>2, <1>4 DEF EntryAt
  <2>2. LastAllowed(n, service) = n
    BY <1>4 DEF LastAllowed
  <2>3. Chain(filteredPath(plan), service, STATUS_PATH[n])
    BY <1>1, <2>1, <2>2, FilteredPathIs, FilteredIs
  <2>4. "ON_HOLD" \in STATUS_TRANSITIONS[STATUS_PATH[n]] =>
          isValidTransition(STATUS_PATH[n], "ON_HOLD", service, NULL)
    BY <1>2 DEF isValidTransition, getAllowedTransitions, isAllowedForService
  <2> QED
    BY <1>2, <1>4, <2>3, <2>4
<1> QED
  BY <1>1, <1>3, <1>4 DEF SoundEntry

LEMMA PaceSlows ==
  ASSUME NEW created \in Nat, NEW pace \in Nat, pace >= 1, NEW k \in Nat, k >= 1
  PROVE  /\ created - (k - 1) * pace \in Int
         /\ created - (k - 1) * pace <= created
         /\ k > 1 => /\ created - (k - 1) * pace <= created - 1
                     /\ created - (k - 1) * pace <= created - ((k - 1) - 1) * pace
<1>1. (k - 1) * pace \in Nat
  OBVIOUS
<1>2. (k - 1) * pace = ((k - 1) - 1) * pace + pace
  OBVIOUS
<1>3. k > 1 => ((k - 1) - 1) * pace \in Nat
  OBVIOUS
<1> QED
  BY <1>1, <1>2, <1>3

\* The timeline follows the path, never backwards, and pays a day after the booking.
LEMMA TimelineFollows ==
  ASSUME NEW plan, SoundEntry(plan)
  PROVE  LET path == filteredPath(plan)
             steps == timeline(plan)
             n == Len(path)
         IN  /\ createdDaysAgo(plan) \in Nat
             /\ plan.staleDays <= createdDaysAgo(plan) - 1
             /\ IsSequence(steps)
             /\ Len(steps) = IF plan.previousStatus = NULL THEN n ELSE n + 1
             /\ \A k \in 1 .. n :
                  /\ steps[k].status = path[k] /\ steps[k].ago \in Int
                  /\ plan.staleDays <= steps[k].ago
                  /\ steps[k].ago <= createdDaysAgo(plan)
                  /\ k > 1 => /\ steps[k].ago <= createdDaysAgo(plan) - 1
                              /\ steps[k].ago <= steps[k - 1].ago
             /\ plan.previousStatus # NULL =>
                  steps[n + 1].status = plan.status /\ steps[n + 1].ago = plan.staleDays
<1>1. PICK path, created, n :
        path = filteredPath(plan) /\ created = createdDaysAgo(plan) /\ n = Len(path)
  OBVIOUS
<1>2. IsSequence(path) /\ n \in Nat /\ DOMAIN path = 1 .. n /\ n >= 1
  BY <1>1, EntryPath, SequenceIs DEF Chain
<1>3. PICK stale \in Nat : stale = plan.staleDays
  BY DEF SoundEntry
<1>4. created = stale + n + 2
  BY <1>1, <1>3 DEF createdDaysAgo
<1>5. created \in Nat /\ stale <= created - 1 /\ n + 1 \in Nat /\ n + 1 > 0
  BY <1>2, <1>4
<1>6. PICK pace : pace = AtLeast(1, created \div (n + 1))
  OBVIOUS
<1>7. pace \in Nat /\ pace >= 1
  <2>1. created \div (n + 1) \in Int
    BY <1>5
  <2> QED
    BY <1>6, <2>1 DEF AtLeast
<1>8. PICK steps, rest :
        /\ steps = [step \in DOMAIN path |->
             At(path[step], AtLeast(plan.staleDays, created - (step - 1) * pace))]
        /\ rest = IF plan.previousStatus = NULL THEN << >>
                  ELSE <<At(plan.status, plan.staleDays)>>
  OBVIOUS
<1>9. timeline(plan) = steps \o rest
  BY <1>1, <1>6, <1>8 DEF timeline
<1>10. IsSequence(steps) /\ Len(steps) = n /\ DOMAIN steps = 1 .. n
  BY <1>2, <1>8, ListIs
<1>11. /\ IsSequence(rest) /\ Len(rest) = IF plan.previousStatus = NULL THEN 0 ELSE 1
       /\ plan.previousStatus # NULL => rest[1] = At(plan.status, plan.staleDays)
  <2>1. PICK last : last = At(plan.status, plan.staleDays)
    OBVIOUS
  <2>2. IsSequence(<<last>>) /\ Len(<<last>>) = 1 /\ <<last>>[1] = last
    BY OneStatement
  <2>3. << >> \in Seq({}) /\ Len(<< >>) = 0
    OBVIOUS
  <2>4. IsSequence(<< >>)
    BY <2>3, InSequence
  <2> QED
    BY <1>8, <2>1, <2>2, <2>3, <2>4
<1>12. PICK all : all = timeline(plan)
  OBVIOUS
<1>13. /\ IsSequence(all) /\ Len(all) = n + Len(rest)
       /\ \A k \in 1 .. n : all[k] = steps[k]
       /\ \A k \in 1 .. Len(rest) : all[n + k] = rest[k]
  BY <1>9, <1>10, <1>11, <1>12, JoinIs
<1>14. ASSUME NEW k \in 1 .. n
       PROVE  /\ steps[k].status = path[k]
              /\ steps[k].ago = AtLeast(stale, created - (k - 1) * pace)
  BY <1>2, <1>3, <1>8 DEF At
<1>15. ASSUME NEW k \in 1 .. n
       PROVE  /\ all[k].status = path[k] /\ all[k].ago \in Int
              /\ stale <= all[k].ago /\ all[k].ago <= created
              /\ k > 1 => /\ all[k].ago <= created - 1
                          /\ all[k].ago <= all[k - 1].ago
  <2>1. all[k].status = path[k] /\ all[k].ago = AtLeast(stale, created - (k - 1) * pace)
    BY <1>13, <1>14
  <2>2. k > 1 => all[k - 1].ago = AtLeast(stale, created - ((k - 1) - 1) * pace)
    <3> SUFFICES ASSUME k > 1
                 PROVE  all[k - 1].ago = AtLeast(stale, created - ((k - 1) - 1) * pace)
      OBVIOUS
    <3>1. k - 1 \in 1 .. n
      BY <1>2
    <3> QED
      BY <1>13, <1>14, <3>1
  <2>3. PICK here, before :
          here = created - (k - 1) * pace /\ before = created - ((k - 1) - 1) * pace
    OBVIOUS
  <2>4. /\ here \in Int /\ here <= created
        /\ k > 1 => here <= created - 1 /\ here <= before
    BY <1>2, <1>5, <1>7, <2>3, PaceSlows
  <2>5. before \in Int
    BY <1>2, <1>5, <1>7, <2>3
  <2>6. all[k].ago = AtLeast(stale, here) /\ (k > 1 => all[k - 1].ago = AtLeast(stale, before))
    BY <2>1, <2>2, <2>3
  <2> QED
    BY <1>5, <2>1, <2>4, <2>5, <2>6 DEF AtLeast
<1>16. plan.previousStatus # NULL =>
         all[n + 1].status = plan.status /\ all[n + 1].ago = plan.staleDays
  <2> SUFFICES ASSUME plan.previousStatus # NULL
               PROVE  all[n + 1].status = plan.status /\ all[n + 1].ago = plan.staleDays
    OBVIOUS
  <2>1. all[n + 1] = rest[1]
    BY <1>11, <1>13
  <2> QED
    BY <1>11, <2>1 DEF At
<1>17. Len(all) = IF plan.previousStatus = NULL THEN n ELSE n + 1
  BY <1>2, <1>11, <1>13
<1> QED
  BY <1>1, <1>3, <1>5, <1>12, <1>13, <1>15, <1>16, <1>17

\* The service of each destination.
LEMMA ServicesAre ==
  /\ \A code \in {"PLW", "UPG", "MDC"} : routeOf(code).serviceType = "PORT_TO_PORT"
  /\ \A code \in {"JABODETABEK", "JABAR", "JATENG_DIY", "JATIM"} :
       routeOf(code).serviceType = "PORT_TO_DOOR"
<1>1. /\ ROUTES[1].code = "PLW" /\ ROUTES[2].code = "UPG" /\ ROUTES[3].code = "MDC"
      /\ ROUTES[4].code = "JABODETABEK" /\ ROUTES[5].code = "JABAR"
      /\ ROUTES[7].code = "JATENG_DIY" /\ ROUTES[8].code = "JATIM"
  BY DEF ROUTES, Port, Door
<1>2. /\ ROUTES[1].serviceType = "PORT_TO_PORT" /\ ROUTES[2].serviceType = "PORT_TO_PORT"
      /\ ROUTES[3].serviceType = "PORT_TO_PORT" /\ ROUTES[4].serviceType = "PORT_TO_DOOR"
      /\ ROUTES[5].serviceType = "PORT_TO_DOOR" /\ ROUTES[7].serviceType = "PORT_TO_DOOR"
      /\ ROUTES[8].serviceType = "PORT_TO_DOOR"
  BY DEF ROUTES, Port, Door
<1>3. \A i \in 1 .. 8 : routeOf(ROUTES[i].code) = ROUTES[i]
  BY RouteIs, CodesAre
<1>4. /\ routeOf("PLW") = ROUTES[1] /\ routeOf("UPG") = ROUTES[2] /\ routeOf("MDC") = ROUTES[3]
      /\ routeOf("JABODETABEK") = ROUTES[4] /\ routeOf("JABAR") = ROUTES[5]
      /\ routeOf("JATENG_DIY") = ROUTES[7] /\ routeOf("JATIM") = ROUTES[8]
  <2>1. 1 \in 1 .. 8 /\ 2 \in 1 .. 8 /\ 3 \in 1 .. 8 /\ 4 \in 1 .. 8 /\ 5 \in 1 .. 8
        /\ 7 \in 1 .. 8 /\ 8 \in 1 .. 8
    OBVIOUS
  <2> QED
    BY <1>1, <1>3, <2>1
<1> QED
  BY <1>2, <1>4

Ports == {"PLW", "UPG", "MDC"}
Doors == {"JABODETABEK", "JABAR", "JATENG_DIY", "JATIM"}

LEMMA EntrySound ==
  ASSUME NEW status, NEW code \in Ports \cup Doors, NEW weight, NEW days \in Nat,
         \/ status \in {"PENDING_PAYMENT", "PAID", "RECEIVED_AT_WAREHOUSE", "IN_TRANSIT",
                        "ARRIVED_AT_DESTINATION", "DELIVERED", "CANCELLED"}
         \/ status = "READY_FOR_PICKUP" /\ code \in Ports
         \/ status = "OUT_FOR_DELIVERY" /\ code \in Doors
  PROVE  SoundEntry(Entry(status, code, weight, days))
<1>1. PICK plan, service :
        plan = Entry(status, code, weight, days) /\ service = routeOf(code).serviceType
  OBVIOUS
<1>2. /\ plan.destination = code /\ plan.staleDays = days /\ plan.status = status
      /\ plan.previousStatus = NULL
  BY <1>1 DEF Entry
<1>3. /\ code \in Ports => service = "PORT_TO_PORT"
      /\ code \in Doors => service = "PORT_TO_DOOR"
  BY <1>1, ServicesAre DEF Ports, Doors
<1>4. status = "CANCELLED" \/ \E n \in 1 .. 8 :
        isAllowedForService(STATUS_PATH[n], service) /\ status = STATUS_PATH[n]
  <2>1. status # "CANCELLED" => \E n \in 1 .. 8 : status = STATUS_PATH[n]
    <3>1. 1 \in 1 .. 8 /\ 2 \in 1 .. 8 /\ 3 \in 1 .. 8 /\ 4 \in 1 .. 8 /\ 5 \in 1 .. 8
          /\ 6 \in 1 .. 8 /\ 7 \in 1 .. 8 /\ 8 \in 1 .. 8
      OBVIOUS
    <3> QED
      BY <3>1, StatusPathItems
  <2>2. isAllowedForService(status, service)
    BY <1>3 DEF isAllowedForService
  <2> QED
    BY <2>1, <2>2
<1>5. service \in ServiceType
  BY <1>3 DEF ServiceType
<1> QED
  BY <1>1, <1>2, <1>4, <1>5 DEF SoundEntry

LEMMA AwaitingSound ==
  ASSUME NEW code \in Ports \cup Doors, NEW weight, NEW days \in Nat, NEW delta
  PROVE  SoundEntry(Awaiting(code, weight, days, delta))
<1>1. PICK entry, plan :
        /\ entry = Entry("PENDING_PAYMENT", code, weight, days)
        /\ plan = Awaiting(code, weight, days, delta)
  OBVIOUS
<1>2. plan = [entry EXCEPT !.awaitingVerification = TRUE, !.claimedDelta = delta]
  BY <1>1 DEF Awaiting
<1>3. {"destination", "staleDays", "status", "previousStatus"} \subseteq DOMAIN entry
  BY <1>1 DEF Entry
<1>4. /\ plan.destination = entry.destination /\ plan.staleDays = entry.staleDays
      /\ plan.status = entry.status /\ plan.previousStatus = entry.previousStatus
  BY <1>2, <1>3
<1>5. SoundEntry(entry)
  BY <1>1, EntrySound
<1> QED
  BY <1>1, <1>4, <1>5 DEF SoundEntry

LEMMA OnHoldSound ==
  ASSUME NEW code, NEW weight, NEW days \in Nat, NEW previous,
         \/ previous = "IN_TRANSIT" /\ code \in Ports \cup Doors
         \/ previous = "OUT_FOR_DELIVERY" /\ code \in Doors
  PROVE  SoundEntry(OnHold(code, weight, days, previous))
<1>1. PICK entry, plan, service :
        /\ entry = Entry("ON_HOLD", code, weight, days)
        /\ plan = OnHold(code, weight, days, previous)
        /\ service = routeOf(code).serviceType
  OBVIOUS
<1>2. plan = [entry EXCEPT !.previousStatus = previous]
  BY <1>1 DEF OnHold
<1>3. /\ {"destination", "staleDays", "status", "previousStatus"} \subseteq DOMAIN entry
      /\ entry.destination = code /\ entry.staleDays = days /\ entry.status = "ON_HOLD"
  BY <1>1 DEF Entry
<1>4. /\ plan.destination = code /\ plan.staleDays = days
      /\ plan.status = "ON_HOLD" /\ plan.previousStatus = previous
  BY <1>2, <1>3
<1>5. /\ code \in Ports => service = "PORT_TO_PORT"
      /\ code \in Doors => service = "PORT_TO_DOOR"
  BY <1>1, ServicesAre DEF Ports, Doors
<1>6. service \in ServiceType /\ isAllowedForService(previous, service)
  BY <1>5 DEF ServiceType, isAllowedForService
<1>7. /\ "ON_HOLD" \in STATUS_TRANSITIONS["IN_TRANSIT"]
      /\ "ON_HOLD" \in STATUS_TRANSITIONS["OUT_FOR_DELIVERY"]
  BY DEF STATUS_TRANSITIONS
<1>8. \E n \in 1 .. 8 : previous = STATUS_PATH[n]
  <2>1. 4 \in 1 .. 8 /\ 7 \in 1 .. 8
    OBVIOUS
  <2> QED
    BY <2>1, StatusPathItems
<1> QED
  BY <1>1, <1>4, <1>6, <1>7, <1>8 DEF SoundEntry

LEMMA PlanIsSound ==
  ASSUME NEW index \in DOMAIN OPERATIONAL_PLAN
  PROVE  SoundEntry(OPERATIONAL_PLAN[index])
<1>1. /\ OPERATIONAL_PLAN[1] = Entry("PENDING_PAYMENT", "UPG", 80, 1)
      /\ OPERATIONAL_PLAN[2] = Entry("PENDING_PAYMENT", "JATIM", 30, 5)
      /\ OPERATIONAL_PLAN[7] = Entry("PAID", "UPG", 220, 1)
      /\ OPERATIONAL_PLAN[8] = Entry("PAID", "JABAR", 90, 5)
      /\ OPERATIONAL_PLAN[9] = Entry("PAID", "MDC", 110, 2)
      /\ OPERATIONAL_PLAN[10] = Entry("RECEIVED_AT_WAREHOUSE", "UPG", 300, 1)
      /\ OPERATIONAL_PLAN[11] = Entry("RECEIVED_AT_WAREHOUSE", "PLW", 180, 2)
      /\ OPERATIONAL_PLAN[12] = Entry("RECEIVED_AT_WAREHOUSE", "MDC", 250, 6)
      /\ OPERATIONAL_PLAN[13] = Entry("RECEIVED_AT_WAREHOUSE", "JATIM", 70, 1)
      /\ OPERATIONAL_PLAN[14] = Entry("RECEIVED_AT_WAREHOUSE", "JATENG_DIY", 120, 1)
      /\ OPERATIONAL_PLAN[15] = Entry("IN_TRANSIT", "UPG", 400, 1)
  BY DEF OPERATIONAL_PLAN
<1>2. /\ SoundEntry(OPERATIONAL_PLAN[1]) /\ SoundEntry(OPERATIONAL_PLAN[2])
      /\ SoundEntry(OPERATIONAL_PLAN[7]) /\ SoundEntry(OPERATIONAL_PLAN[8])
      /\ SoundEntry(OPERATIONAL_PLAN[9]) /\ SoundEntry(OPERATIONAL_PLAN[10])
      /\ SoundEntry(OPERATIONAL_PLAN[11]) /\ SoundEntry(OPERATIONAL_PLAN[12])
      /\ SoundEntry(OPERATIONAL_PLAN[13]) /\ SoundEntry(OPERATIONAL_PLAN[14])
      /\ SoundEntry(OPERATIONAL_PLAN[15])
  BY <1>1, EntrySound DEF Ports, Doors
<1>3. /\ OPERATIONAL_PLAN[16] = Entry("IN_TRANSIT", "PLW", 160, 4)
      /\ OPERATIONAL_PLAN[17] = Entry("IN_TRANSIT", "MDC", 95, 2)
      /\ OPERATIONAL_PLAN[18] = Entry("IN_TRANSIT", "JABAR", 50, 7)
      /\ OPERATIONAL_PLAN[19] = Entry("ARRIVED_AT_DESTINATION", "UPG", 140, 1)
      /\ OPERATIONAL_PLAN[20] = Entry("ARRIVED_AT_DESTINATION", "PLW", 200, 5)
      /\ OPERATIONAL_PLAN[21] = Entry("ARRIVED_AT_DESTINATION", "JATIM", 65, 2)
      /\ OPERATIONAL_PLAN[28] = Entry("DELIVERED", "UPG", 190, 12)
      /\ OPERATIONAL_PLAN[29] = Entry("DELIVERED", "PLW", 80, 20)
      /\ OPERATIONAL_PLAN[30] = Entry("DELIVERED", "MDC", 260, 15)
      /\ OPERATIONAL_PLAN[31] = Entry("DELIVERED", "JABODETABEK", 40, 9)
      /\ OPERATIONAL_PLAN[32] = Entry("DELIVERED", "JATIM", 110, 30)
      /\ OPERATIONAL_PLAN[33] = Entry("DELIVERED", "JABAR", 75, 18)
      /\ OPERATIONAL_PLAN[36] = Entry("CANCELLED", "UPG", 60, 14)
      /\ OPERATIONAL_PLAN[37] = Entry("CANCELLED", "JATENG_DIY", 30, 22)
  BY DEF OPERATIONAL_PLAN
<1>4. /\ SoundEntry(OPERATIONAL_PLAN[16]) /\ SoundEntry(OPERATIONAL_PLAN[17])
      /\ SoundEntry(OPERATIONAL_PLAN[18]) /\ SoundEntry(OPERATIONAL_PLAN[19])
      /\ SoundEntry(OPERATIONAL_PLAN[20]) /\ SoundEntry(OPERATIONAL_PLAN[21])
      /\ SoundEntry(OPERATIONAL_PLAN[28]) /\ SoundEntry(OPERATIONAL_PLAN[29])
      /\ SoundEntry(OPERATIONAL_PLAN[30]) /\ SoundEntry(OPERATIONAL_PLAN[31])
      /\ SoundEntry(OPERATIONAL_PLAN[32]) /\ SoundEntry(OPERATIONAL_PLAN[33])
      /\ SoundEntry(OPERATIONAL_PLAN[36]) /\ SoundEntry(OPERATIONAL_PLAN[37])
  BY <1>3, EntrySound DEF Ports, Doors
<1>5. /\ OPERATIONAL_PLAN[22] = Entry("READY_FOR_PICKUP", "UPG", 130, 3)
      /\ OPERATIONAL_PLAN[23] = Entry("READY_FOR_PICKUP", "MDC", 170, 8)
      /\ OPERATIONAL_PLAN[24] = Entry("READY_FOR_PICKUP", "PLW", 100, 1)
  BY DEF OPERATIONAL_PLAN
<1>6. /\ SoundEntry(OPERATIONAL_PLAN[22]) /\ SoundEntry(OPERATIONAL_PLAN[23])
      /\ SoundEntry(OPERATIONAL_PLAN[24])
  BY <1>5, EntrySound DEF Ports, Doors
<1>7. /\ OPERATIONAL_PLAN[25] = Entry("OUT_FOR_DELIVERY", "JABODETABEK", 35, 1)
      /\ OPERATIONAL_PLAN[26] = Entry("OUT_FOR_DELIVERY", "JATENG_DIY", 80, 1)
      /\ OPERATIONAL_PLAN[27] = Entry("OUT_FOR_DELIVERY", "JATIM", 55, 4)
  BY DEF OPERATIONAL_PLAN
<1>8. /\ SoundEntry(OPERATIONAL_PLAN[25]) /\ SoundEntry(OPERATIONAL_PLAN[26])
      /\ SoundEntry(OPERATIONAL_PLAN[27])
  BY <1>7, EntrySound DEF Ports, Doors
<1>9. /\ OPERATIONAL_PLAN[3] = Awaiting("PLW", 150, 1, 0)
      /\ OPERATIONAL_PLAN[4] = Awaiting("MDC", 60, 2, 0)
      /\ OPERATIONAL_PLAN[5] = Awaiting("JATENG_DIY", 45, 3, -50000)
      /\ OPERATIONAL_PLAN[6] = Awaiting("JABODETABEK", 20, 4, 0)
  BY DEF OPERATIONAL_PLAN
<1>10. /\ SoundEntry(OPERATIONAL_PLAN[3]) /\ SoundEntry(OPERATIONAL_PLAN[4])
       /\ SoundEntry(OPERATIONAL_PLAN[5]) /\ SoundEntry(OPERATIONAL_PLAN[6])
  BY <1>9, AwaitingSound DEF Ports, Doors
<1>11. /\ OPERATIONAL_PLAN[34] = OnHold("MDC", 210, 6, "IN_TRANSIT")
       /\ OPERATIONAL_PLAN[35] = OnHold("JATIM", 40, 2, "OUT_FOR_DELIVERY")
  BY DEF OPERATIONAL_PLAN
<1>12. /\ SoundEntry(OPERATIONAL_PLAN[34]) /\ SoundEntry(OPERATIONAL_PLAN[35])
  BY <1>11, OnHoldSound DEF Ports, Doors
<1>13. DOMAIN OPERATIONAL_PLAN = 1 .. 37
  BY PlanIs
<1> QED
  BY <1>2, <1>4, <1>6, <1>8, <1>10, <1>12, <1>13

-------------------------------------------------------------------------------
(* What is told of each sample shipment: its row, its timeline and its     *)
(* payment, if it has one.                                                 *)

Story(id, user, code, is, steps, pays) ==
  [id |-> id, user |-> user, code |-> code, is |-> is, steps |-> steps, pays |-> pays]

FirstStory ==
  LET rate == calculateRateFor(routeOf("UPG"), 120)
  IN  Story(<<"shipment", 1>>, "customer", "UPG",
        ShipmentIs("IN_TRANSIT", NULL, "PAID", 120, 124, rate, 0, 4, 1),
        <<At("PENDING_PAYMENT", 4), At("PAID", 4), At("RECEIVED_AT_WAREHOUSE", 2),
          At("IN_TRANSIT", 1)>>,
        <<Verified(rate.total, 4)>>)

SecondStory ==
  LET rate == calculateRateFor(routeOf("JATIM"), 40)
  IN  Story(<<"shipment", 2>>, "customer", "JATIM",
        ShipmentIs("PENDING_PAYMENT", NULL, "UNPAID", 40, 0, rate, rate.total, 1, 1),
        <<At("PENDING_PAYMENT", 1)>>, << >>)

ThirdStory ==
  LET rate == calculateRateFor(routeOf("MDC"), 75)
  IN  Story(<<"shipment", 3>>, "agent-approved", "MDC",
        ShipmentIs("DELIVERED", NULL, "PAID", 75, 75, rate, 0, 26, 21),
        <<At("PENDING_PAYMENT", 26), At("PAID", 26), At("RECEIVED_AT_WAREHOUSE", 25),
          At("IN_TRANSIT", 24), At("ARRIVED_AT_DESTINATION", 22),
          At("READY_FOR_PICKUP", 22), At("DELIVERED", 21)>>,
        <<Verified(rate.total, 26)>>)

PlanStory(index) ==
  LET plan   == OPERATIONAL_PLAN[index]
      rate   == calculateRateFor(routeOf(plan.destination), plan.weight)
      isPaid == Contains(filteredPath(plan), "PAID")
  IN  Story(<<"shipment-op", index - 1>>,
        OPERATIONAL_SENDERS[((index - 1) % Len(OPERATIONAL_SENDERS)) + 1],
        plan.destination,
        ShipmentIs(plan.status, plan.previousStatus,
          IF isPaid THEN "PAID"
          ELSE IF plan.awaitingVerification THEN "WAITING_VERIFICATION" ELSE "UNPAID",
          plan.weight, IF isPaid THEN plan.weight ELSE 0, rate,
          IF isPaid THEN 0 ELSE rate.total, createdDaysAgo(plan), plan.staleDays),
        timeline(plan), operationalPayment(plan, rate.total))

Stories ==
  {FirstStory, SecondStory, ThirdStory} \cup {PlanStory(i) : i \in DOMAIN OPERATIONAL_PLAN}

\* What SeededHistoryIsLegal asks of one of them.
Legal(story) ==
  LET service == routeOf(story.code).serviceType
      steps == story.steps
      n == Len(steps)
  IN  /\ IsSequence(steps) /\ n >= 1
      /\ steps[1].status = "PENDING_PAYMENT" /\ steps[1].ago <= story.is.createdAgo
      /\ \A k \in 2 .. n :
           /\ steps[k].ago <= steps[k - 1].ago
           /\ isValidTransition(steps[k - 1].status, steps[k].status, service, NULL)
      /\ steps[n].status = story.is.status \/ story.is.status = "CANCELLED"
      /\ story.is.status = "ON_HOLD" => steps[n - 1].status = story.is.previousStatus

\* What SeededBillsAgree asks of one of them.
Billed(story) ==
  LET is == story.is
      steps == story.steps
      verified == story.pays # << >> /\ story.pays[1].status = "VERIFIED"
  IN  /\ story.pays = << >> \/ (IsSequence(story.pays) /\ Len(story.pays) = 1)
      /\ is.totalAmount = calculateTariff(is.declaredWeight, routeOf(story.code).rate).total
      /\ is.paymentStatus = "PAID" <=> verified
      /\ is.paymentStatus = "PAID" <=> \E k \in 1 .. Len(steps) : steps[k].status = "PAID"
      /\ is.outstandingAmount = IF verified THEN 0 ELSE is.totalAmount
      /\ is.paymentStatus = "WAITING_VERIFICATION" <=> story.pays # << >> /\ ~verified
      /\ verified =>
           /\ story.pays[1].claimedAmount = is.totalAmount
           /\ story.pays[1].verifiedAgo <= is.createdAgo
           /\ \A k \in 1 .. Len(steps) :
                steps[k].status = "PAID" => steps[k].ago <= story.pays[1].verifiedAgo

\* The two tariffs are one.
LEMMA TariffsAgree ==
  ASSUME NEW route, NEW weight
  PROVE  calculateRateFor(route, weight).total = calculateTariff(weight, route.rate).total
BY DEF calculateRateFor, calculateTariff, chargeableWeightOf, weightFeeOf

LEMMA PlanStoryIsLegal ==
  ASSUME NEW index \in DOMAIN OPERATIONAL_PLAN
  PROVE  Legal(PlanStory(index))
<1>1. PICK plan, story, service, path, steps :
        /\ plan = OPERATIONAL_PLAN[index] /\ story = PlanStory(index)
        /\ service = routeOf(plan.destination).serviceType
        /\ path = filteredPath(plan) /\ steps = timeline(plan)
  OBVIOUS
<1>2. /\ story.code = plan.destination /\ story.steps = steps
      /\ story.is.status = plan.status /\ story.is.previousStatus = plan.previousStatus
      /\ story.is.createdAgo = createdDaysAgo(plan)
  BY <1>1 DEF PlanStory, Story, ShipmentIs
<1>3. SoundEntry(plan)
  BY <1>1, PlanIsSound
<1>4. PICK last \in Status :
        /\ Chain(path, service, last)
        /\ \/ plan.previousStatus = NULL /\ plan.status = "CANCELLED"
           \/ plan.previousStatus = NULL /\ plan.status = last /\ plan.status # "ON_HOLD"
           \/ /\ plan.previousStatus = last /\ plan.status = "ON_HOLD"
              /\ last # NULL /\ isValidTransition(last, "ON_HOLD", service, NULL)
  BY <1>1, <1>3, EntryPath
<1>5. PICK n \in Nat : n = Len(path) /\ n >= 1
  BY <1>4, SequenceIs DEF Chain
<1>6. PICK created \in Nat : created = createdDaysAgo(plan)
  BY <1>3, TimelineFollows
<1>7. /\ IsSequence(steps)
      /\ Len(steps) = IF plan.previousStatus = NULL THEN n ELSE n + 1
      /\ \A k \in 1 .. n :
           /\ steps[k].status = path[k] /\ plan.staleDays <= steps[k].ago
           /\ steps[k].ago <= created
           /\ k > 1 => steps[k].ago <= steps[k - 1].ago
      /\ plan.previousStatus # NULL =>
           steps[n + 1].status = plan.status /\ steps[n + 1].ago = plan.staleDays
  BY <1>1, <1>3, <1>5, <1>6, TimelineFollows
<1>8. steps[1].status = "PENDING_PAYMENT" /\ steps[1].ago <= created
  <2>1. 1 \in 1 .. n
    BY <1>5
  <2> QED
    BY <1>4, <1>7, <2>1 DEF Chain
<1>9. ASSUME NEW k \in 2 .. n
      PROVE  /\ steps[k].ago <= steps[k - 1].ago
             /\ isValidTransition(steps[k - 1].status, steps[k].status, service, NULL)
  <2>1. k \in 1 .. n /\ k > 1 /\ k - 1 \in 1 .. n
    OBVIOUS
  <2>2. isValidTransition(path[k - 1], path[k], service, NULL)
    BY <1>4, <1>5, <2>1 DEF Chain
  <2>3. steps[k - 1].status = path[k - 1] /\ steps[k].status = path[k]
    BY <1>7, <2>1
  <2> QED
    BY <1>7, <2>1, <2>2, <2>3
<1>10. steps[n].status = last
  <2>1. n \in 1 .. n
    BY <1>5
  <2> QED
    BY <1>4, <1>5, <1>7, <2>1 DEF Chain
<1>11. CASE plan.previousStatus = NULL
  <2>1. Len(steps) = n
    BY <1>7, <1>11
  <2>2. plan.status # "ON_HOLD" /\ (plan.status = "CANCELLED" \/ plan.status = last)
    BY <1>4, <1>11
  <2> QED
    BY <1>1, <1>2, <1>5, <1>6, <1>7, <1>8, <1>9, <1>10, <2>1, <2>2 DEF Legal
<1>12. CASE plan.previousStatus # NULL
  <2>1. PICK m \in Nat : m = n + 1 /\ Len(steps) = m
    BY <1>7, <1>12
  <2>2. /\ plan.previousStatus = last /\ plan.status = "ON_HOLD"
        /\ isValidTransition(last, "ON_HOLD", service, NULL)
    BY <1>4, <1>12
  <2>3. ASSUME NEW k \in 2 .. m
        PROVE  /\ steps[k].ago <= steps[k - 1].ago
               /\ isValidTransition(steps[k - 1].status, steps[k].status, service, NULL)
    <3>1. CASE k <= n
      BY <1>9, <3>1
    <3>2. CASE k = m
      <4>1. k - 1 = n /\ k = n + 1 /\ n \in 1 .. n
        BY <1>5, <2>1, <3>2
      <4>2. steps[k].status = "ON_HOLD" /\ steps[k].ago = plan.staleDays
        BY <1>7, <1>12, <2>2, <4>1
      <4>3. plan.staleDays <= steps[n].ago
        BY <1>7, <4>1
      <4> QED
        BY <1>10, <2>2, <4>1, <4>2, <4>3
    <3> QED
      BY <2>1, <3>1, <3>2
  <2>4. steps[m].status = "ON_HOLD" /\ m - 1 = n
    BY <1>7, <1>12, <2>1, <2>2
  <2> QED
    BY <1>1, <1>2, <1>5, <1>6, <1>7, <1>8, <1>10, <2>1, <2>2, <2>3, <2>4 DEF Legal
<1> QED
  BY <1>11, <1>12

LEMMA PlanStoryIsBilled ==
  ASSUME NEW index \in DOMAIN OPERATIONAL_PLAN
  PROVE  Billed(PlanStory(index))
<1>1. PICK plan, story, path, steps :
        /\ plan = OPERATIONAL_PLAN[index] /\ story = PlanStory(index)
        /\ path = filteredPath(plan) /\ steps = timeline(plan)
  OBVIOUS
<1>2. PICK total, isPaid, pays, created :
        /\ total = calculateRateFor(routeOf(plan.destination), plan.weight).total
        /\ isPaid = Contains(path, "PAID") /\ pays = operationalPayment(plan, total)
        /\ created = createdDaysAgo(plan)
  OBVIOUS
<1>3. /\ story.code = plan.destination /\ story.steps = steps /\ story.pays = pays
      /\ story.is.totalAmount = total /\ story.is.declaredWeight = plan.weight
      /\ story.is.createdAgo = created
      /\ story.is.paymentStatus = IF isPaid THEN "PAID"
           ELSE IF plan.awaitingVerification THEN "WAITING_VERIFICATION" ELSE "UNPAID"
      /\ story.is.outstandingAmount = IF isPaid THEN 0 ELSE total
  BY <1>1, <1>2 DEF PlanStory, Story, ShipmentIs
<1>4. SoundEntry(plan)
  BY <1>1, PlanIsSound
<1>5. PICK n \in Nat : n = Len(path) /\ n >= 1 /\ path[1] = "PENDING_PAYMENT"
  BY <1>1, <1>4, EntryPath, SequenceIs DEF Chain
<1>6. /\ created \in Nat
      /\ Len(steps) = IF plan.previousStatus = NULL THEN n ELSE n + 1
      /\ \A k \in 1 .. n :
           /\ steps[k].status = path[k]
           /\ k > 1 => steps[k].ago <= created - 1
      /\ plan.previousStatus # NULL => steps[n + 1].status = plan.status
  BY <1>1, <1>2, <1>4, <1>5, TimelineFollows
<1>7. plan.previousStatus # NULL => plan.status = "ON_HOLD"
  BY <1>4 DEF SoundEntry
<1>8. isPaid <=> \E k \in 1 .. n : path[k] = "PAID"
  BY <1>2, <1>5 DEF Contains
<1>9. ASSUME NEW k \in 1 .. Len(steps), steps[k].status = "PAID"
      PROVE  k \in 1 .. n /\ path[k] = "PAID" /\ steps[k].ago <= created - 1
  <2>1. k \in 1 .. n
    BY <1>6, <1>7, <1>9
  <2>2. path[k] = "PAID"
    BY <1>6, <1>9, <2>1
  <2>3. k > 1
    BY <1>5, <2>1, <2>2
  <2> QED
    BY <1>6, <2>1, <2>2, <2>3
<1>10. isPaid <=> \E k \in 1 .. Len(steps) : steps[k].status = "PAID"
  <2>1. ASSUME NEW k \in 1 .. n
        PROVE  k \in 1 .. Len(steps) /\ steps[k].status = path[k]
    BY <1>6
  <2> QED
    BY <1>8, <1>9, <2>1
<1>11. pays = IF isPaid THEN <<Verified(total, created - 1)>>
              ELSE IF plan.awaitingVerification THEN <<Waiting(total + plan.claimedDelta)>>
                   ELSE << >>
  BY <1>1, <1>2 DEF operationalPayment
<1>12. \A payment : /\ <<payment>> # << >> /\ IsSequence(<<payment>>)
                    /\ Len(<<payment>>) = 1 /\ <<payment>>[1] = payment
  <2> SUFFICES ASSUME NEW payment
               PROVE  /\ <<payment>> # << >> /\ IsSequence(<<payment>>)
                      /\ Len(<<payment>>) = 1 /\ <<payment>>[1] = payment
    OBVIOUS
  <2>1. IsSequence(<<payment>>) /\ Len(<<payment>>) = 1 /\ <<payment>>[1] = payment
    BY OneStatement
  <2>2. Len(<< >>) = 0
    OBVIOUS
  <2> QED
    BY <2>1, <2>2
<1>13. PICK paid, waiting :
         paid = Verified(total, created - 1) /\ waiting = Waiting(total + plan.claimedDelta)
  OBVIOUS
<1>14. /\ paid.status = "VERIFIED" /\ paid.claimedAmount = total
       /\ paid.verifiedAgo = created - 1 /\ waiting.status = "WAITING_VERIFICATION"
  BY <1>13 DEF Verified, Waiting
<1>15. total = calculateTariff(plan.weight, routeOf(plan.destination).rate).total
  BY <1>2, TariffsAgree
<1>16. CASE isPaid
  <2>1. pays = <<paid>>
    BY <1>11, <1>13, <1>16
  <2>2. pays # << >> /\ IsSequence(pays) /\ Len(pays) = 1 /\ pays[1] = paid
    BY <1>12, <2>1
  <2>3. created - 1 <= created
    BY <1>6
  <2> QED
    BY <1>1, <1>3, <1>9, <1>10, <1>14, <1>15, <1>16, <2>2, <2>3 DEF Billed
<1>17. CASE ~isPaid /\ plan.awaitingVerification
  <2>1. pays = <<waiting>>
    BY <1>11, <1>13, <1>17
  <2>2. pays # << >> /\ IsSequence(pays) /\ Len(pays) = 1 /\ pays[1] = waiting
    BY <1>12, <2>1
  <2> QED
    BY <1>1, <1>3, <1>10, <1>14, <1>15, <1>17, <2>2 DEF Billed
<1>18. CASE ~isPaid /\ ~plan.awaitingVerification
  <2>1. pays = << >>
    BY <1>11, <1>18
  <2> QED
    BY <1>1, <1>3, <1>10, <1>15, <1>18, <2>1 DEF Billed
<1> QED
  BY <1>16, <1>17, <1>18

LEMMA PortSteps ==
  LET legal(from, to) == isValidTransition(from, to, "PORT_TO_PORT", NULL)
  IN  /\ legal("PENDING_PAYMENT", "PAID") /\ legal("PAID", "RECEIVED_AT_WAREHOUSE")
      /\ legal("RECEIVED_AT_WAREHOUSE", "IN_TRANSIT")
      /\ legal("IN_TRANSIT", "ARRIVED_AT_DESTINATION")
      /\ legal("ARRIVED_AT_DESTINATION", "READY_FOR_PICKUP")
      /\ legal("READY_FOR_PICKUP", "DELIVERED")
<1>1. /\ "PAID" \in STATUS_TRANSITIONS["PENDING_PAYMENT"]
      /\ "RECEIVED_AT_WAREHOUSE" \in STATUS_TRANSITIONS["PAID"]
      /\ "IN_TRANSIT" \in STATUS_TRANSITIONS["RECEIVED_AT_WAREHOUSE"]
      /\ "ARRIVED_AT_DESTINATION" \in STATUS_TRANSITIONS["IN_TRANSIT"]
      /\ "READY_FOR_PICKUP" \in STATUS_TRANSITIONS["ARRIVED_AT_DESTINATION"]
      /\ "DELIVERED" \in STATUS_TRANSITIONS["READY_FOR_PICKUP"]
  BY DEF STATUS_TRANSITIONS
<1> QED
  BY <1>1 DEF isValidTransition, getAllowedTransitions, isAllowedForService

LEMMA BillIs ==
  ASSUME NEW total, NEW ago
  PROVE  LET pays == <<Verified(total, ago)>>
         IN  /\ pays # << >> /\ IsSequence(pays) /\ Len(pays) = 1
             /\ pays[1].status = "VERIFIED" /\ pays[1].claimedAmount = total
             /\ pays[1].verifiedAgo = ago
<1>1. PICK bill : bill = Verified(total, ago)
  OBVIOUS
<1>2. /\ bill.status = "VERIFIED" /\ bill.claimedAmount = total /\ bill.verifiedAgo = ago
  BY <1>1 DEF Verified
<1>3. IsSequence(<<bill>>) /\ Len(<<bill>>) = 1 /\ <<bill>>[1] = bill /\ Len(<< >>) = 0
  BY OneStatement
<1> QED
  BY <1>1, <1>2, <1>3

LEMMA FirstIsTrue == Legal(FirstStory) /\ Billed(FirstStory)
<1>1. PICK story, steps, total :
        /\ story = FirstStory /\ total = calculateRateFor(routeOf("UPG"), 120).total
        /\ steps = <<At("PENDING_PAYMENT", 4), At("PAID", 4), At("RECEIVED_AT_WAREHOUSE", 2),
                     At("IN_TRANSIT", 1)>>
  OBVIOUS
<1>2. /\ story.code = "UPG" /\ story.steps = steps
      /\ story.is.status = "IN_TRANSIT" /\ story.is.createdAgo = 4
      /\ story.is.totalAmount = total /\ story.is.declaredWeight = 120
      /\ story.is.paymentStatus = "PAID" /\ story.is.outstandingAmount = 0
      /\ story.pays = <<Verified(total, 4)>>
  BY <1>1 DEF FirstStory, Story, ShipmentIs
<1>3. IsSequence(steps) /\ Len(steps) = 4
  <2>1. /\ steps \in Seq({At("PENDING_PAYMENT", 4), At("PAID", 4),
                          At("RECEIVED_AT_WAREHOUSE", 2), At("IN_TRANSIT", 1)})
        /\ Len(steps) = 4
    BY <1>1
  <2> QED
    BY <2>1, InSequence
<1>4. /\ steps[1].status = "PENDING_PAYMENT" /\ steps[1].ago = 4
      /\ steps[2].status = "PAID" /\ steps[2].ago = 4
      /\ steps[3].status = "RECEIVED_AT_WAREHOUSE" /\ steps[3].ago = 2
      /\ steps[4].status = "IN_TRANSIT" /\ steps[4].ago = 1
  BY <1>1 DEF At
<1>5. PICK service : service = routeOf("UPG").serviceType
  OBVIOUS
<1>6. service = "PORT_TO_PORT"
  BY <1>5, ServicesAre DEF Ports
<1>7. /\ isValidTransition("PENDING_PAYMENT", "PAID", service, NULL)
      /\ isValidTransition("PAID", "RECEIVED_AT_WAREHOUSE", service, NULL)
      /\ isValidTransition("RECEIVED_AT_WAREHOUSE", "IN_TRANSIT", service, NULL)
  BY PortSteps, <1>6
<1>8. ASSUME NEW k \in 2 .. 4
      PROVE  /\ steps[k].ago <= steps[k - 1].ago
             /\ isValidTransition(steps[k - 1].status, steps[k].status, service, NULL)
  <2>1. k = 2 \/ k = 3 \/ k = 4
    OBVIOUS
  <2> QED
    BY <1>4, <1>7, <2>1
<1>9. Legal(story)
  BY <1>2, <1>3, <1>4, <1>5, <1>8 DEF Legal
<1>10. PICK pays : pays = <<Verified(total, 4)>>
  OBVIOUS
<1>11. /\ pays # << >> /\ IsSequence(pays) /\ Len(pays) = 1
       /\ pays[1].status = "VERIFIED" /\ pays[1].claimedAmount = total
       /\ pays[1].verifiedAgo = 4
  BY <1>10, BillIs
<1>12. total = calculateTariff(120, routeOf("UPG").rate).total
  BY <1>1, TariffsAgree
<1>13. \A k \in 1 .. 4 : steps[k].ago <= 4
  <2>1. \A k \in 1 .. 4 : k = 1 \/ k = 2 \/ k = 3 \/ k = 4
    OBVIOUS
  <2> QED
    BY <1>4, <2>1
<1>14. 2 \in 1 .. 4
  OBVIOUS
<1>15. Billed(story)
  BY <1>2, <1>3, <1>4, <1>10, <1>11, <1>12, <1>13, <1>14 DEF Billed
<1> QED
  BY <1>1, <1>9, <1>15

LEMMA SecondIsTrue == Legal(SecondStory) /\ Billed(SecondStory)
<1>1. PICK story, steps, total :
        /\ story = SecondStory /\ total = calculateRateFor(routeOf("JATIM"), 40).total
        /\ steps = <<At("PENDING_PAYMENT", 1)>>
  OBVIOUS
<1>2. /\ story.code = "JATIM" /\ story.steps = steps
      /\ story.is.status = "PENDING_PAYMENT" /\ story.is.createdAgo = 1
      /\ story.is.totalAmount = total /\ story.is.declaredWeight = 40
      /\ story.is.paymentStatus = "UNPAID" /\ story.is.outstandingAmount = total
      /\ story.pays = << >>
  BY <1>1 DEF SecondStory, Story, ShipmentIs
<1>3. IsSequence(steps) /\ Len(steps) = 1 /\ steps[1] = At("PENDING_PAYMENT", 1)
  BY <1>1, OneStatement
<1>4. steps[1].status = "PENDING_PAYMENT" /\ steps[1].ago = 1
  BY <1>3 DEF At
<1>5. Legal(story)
  <2>1. 2 .. 1 = {}
    OBVIOUS
  <2> QED
    BY <1>2, <1>3, <1>4, <2>1 DEF Legal
<1>6. total = calculateTariff(40, routeOf("JATIM").rate).total
  BY <1>1, TariffsAgree
<1>7. \A k \in 1 .. 1 : steps[k].status # "PAID"
  BY <1>4
<1>8. Billed(story)
  BY <1>2, <1>3, <1>6, <1>7 DEF Billed
<1> QED
  BY <1>1, <1>5, <1>8

LEMMA ThirdIsTrue == Legal(ThirdStory) /\ Billed(ThirdStory)
<1>1. PICK story, steps, total :
        /\ story = ThirdStory /\ total = calculateRateFor(routeOf("MDC"), 75).total
        /\ steps = <<At("PENDING_PAYMENT", 26), At("PAID", 26),
                     At("RECEIVED_AT_WAREHOUSE", 25), At("IN_TRANSIT", 24),
                     At("ARRIVED_AT_DESTINATION", 22), At("READY_FOR_PICKUP", 22),
                     At("DELIVERED", 21)>>
  OBVIOUS
<1>2. /\ story.code = "MDC" /\ story.steps = steps
      /\ story.is.status = "DELIVERED" /\ story.is.createdAgo = 26
      /\ story.is.totalAmount = total /\ story.is.declaredWeight = 75
      /\ story.is.paymentStatus = "PAID" /\ story.is.outstandingAmount = 0
      /\ story.pays = <<Verified(total, 26)>>
  BY <1>1 DEF ThirdStory, Story, ShipmentIs
<1>3. IsSequence(steps) /\ Len(steps) = 7
  <2>1. /\ steps \in Seq({At("PENDING_PAYMENT", 26), At("PAID", 26),
                          At("RECEIVED_AT_WAREHOUSE", 25), At("IN_TRANSIT", 24),
                          At("ARRIVED_AT_DESTINATION", 22), At("READY_FOR_PICKUP", 22),
                          At("DELIVERED", 21)})
        /\ Len(steps) = 7
    BY <1>1
  <2> QED
    BY <2>1, InSequence
<1>4. /\ steps[1].status = "PENDING_PAYMENT" /\ steps[1].ago = 26
      /\ steps[2].status = "PAID" /\ steps[2].ago = 26
      /\ steps[3].status = "RECEIVED_AT_WAREHOUSE" /\ steps[3].ago = 25
      /\ steps[4].status = "IN_TRANSIT" /\ steps[4].ago = 24
      /\ steps[5].status = "ARRIVED_AT_DESTINATION" /\ steps[5].ago = 22
      /\ steps[6].status = "READY_FOR_PICKUP" /\ steps[6].ago = 22
      /\ steps[7].status = "DELIVERED" /\ steps[7].ago = 21
  BY <1>1 DEF At
<1>5. PICK service : service = routeOf("MDC").serviceType
  OBVIOUS
<1>6. service = "PORT_TO_PORT"
  BY <1>5, ServicesAre DEF Ports
<1>7. \A k \in 1 .. 7 : k = 1 \/ k = 2 \/ k = 3 \/ k = 4 \/ k = 5 \/ k = 6 \/ k = 7
  OBVIOUS
<1>8. ASSUME NEW k \in 2 .. 7
      PROVE  /\ steps[k].ago <= steps[k - 1].ago
             /\ isValidTransition(steps[k - 1].status, steps[k].status, service, NULL)
  <2>1. k = 2 \/ k = 3 \/ k = 4 \/ k = 5 \/ k = 6 \/ k = 7
    OBVIOUS
  <2> QED
    BY <1>4, <1>6, <2>1, PortSteps
<1>9. Legal(story)
  BY <1>2, <1>3, <1>4, <1>5, <1>8 DEF Legal
<1>10. PICK pays : pays = <<Verified(total, 26)>>
  OBVIOUS
<1>11. /\ pays # << >> /\ IsSequence(pays) /\ Len(pays) = 1
       /\ pays[1].status = "VERIFIED" /\ pays[1].claimedAmount = total
       /\ pays[1].verifiedAgo = 26
  BY <1>10, BillIs
<1>12. total = calculateTariff(75, routeOf("MDC").rate).total
  BY <1>1, TariffsAgree
<1>13. \A k \in 1 .. 7 : steps[k].ago <= 26
  BY <1>4, <1>7
<1>14. 2 \in 1 .. 7
  OBVIOUS
<1>15. Billed(story)
  BY <1>2, <1>3, <1>4, <1>10, <1>11, <1>12, <1>13, <1>14 DEF Billed
<1> QED
  BY <1>1, <1>9, <1>15

LEMMA StoriesAreTrue ==
  ASSUME NEW story \in Stories
  PROVE  /\ Legal(story) /\ Billed(story)
         /\ story.id[1] \in {"shipment", "shipment-op"}
<1>1. /\ FirstStory.id = <<"shipment", 1>> /\ SecondStory.id = <<"shipment", 2>>
      /\ ThirdStory.id = <<"shipment", 3>>
      /\ \A i : PlanStory(i).id = <<"shipment-op", i - 1>>
  BY DEF FirstStory, SecondStory, ThirdStory, PlanStory, Story
<1>2. CASE story \in {FirstStory, SecondStory, ThirdStory}
  BY <1>1, <1>2, FirstIsTrue, SecondIsTrue, ThirdIsTrue
<1>3. CASE \E i \in DOMAIN OPERATIONAL_PLAN : story = PlanStory(i)
  BY <1>1, <1>3, PlanStoryIsLegal, PlanStoryIsBilled
<1> QED
  BY <1>2, <1>3 DEF Stories

LEMMA StoriesApart ==
  ASSUME NEW story \in Stories, NEW other \in Stories, story.id = other.id
  PROVE  story = other
<1>1. /\ FirstStory.id = <<"shipment", 1>> /\ SecondStory.id = <<"shipment", 2>>
      /\ ThirdStory.id = <<"shipment", 3>>
      /\ \A i : PlanStory(i).id = <<"shipment-op", i - 1>>
  BY DEF FirstStory, SecondStory, ThirdStory, PlanStory, Story
<1>2. ASSUME NEW i \in 1 .. 37, NEW j \in 1 .. 37, PlanStory(i).id = PlanStory(j).id
      PROVE  PlanStory(i) = PlanStory(j)
  <2>1. <<"shipment-op", i - 1>> = <<"shipment-op", j - 1>>
    BY <1>1, <1>2
  <2>2. i - 1 = j - 1
    BY <2>1
  <2>3. i = j
    BY <2>2
  <2> QED
    BY <2>3
<1>3. DOMAIN OPERATIONAL_PLAN = 1 .. 37
  BY PlanIs
<1>4. PICK samples : samples = {FirstStory, SecondStory, ThirdStory}
  OBVIOUS
<1>5. ASSUME NEW one \in samples, NEW i
      PROVE  one.id # PlanStory(i).id
  <2>1. one.id[1] = "shipment"
    BY <1>1, <1>4, <1>5
  <2>2. PlanStory(i).id[1] = "shipment-op"
    BY <1>1
  <2> QED
    BY <2>1, <2>2
<1>6. ASSUME NEW one \in samples, NEW another \in samples, one.id = another.id
      PROVE  one = another
  <2>1. FirstStory.id[2] = 1 /\ SecondStory.id[2] = 2 /\ ThirdStory.id[2] = 3
    BY <1>1
  <2> QED
    BY <1>4, <1>6, <2>1
<1>7. \A one \in Stories : one \in samples \/ \E i \in 1 .. 37 : one = PlanStory(i)
  BY <1>3, <1>4 DEF Stories
<1>8. CASE story \in samples /\ other \in samples
  BY <1>6, <1>8
<1>9. CASE \E i, j \in 1 .. 37 : story = PlanStory(i) /\ other = PlanStory(j)
  BY <1>2, <1>9
<1>10. CASE story \in samples /\ \E j \in 1 .. 37 : other = PlanStory(j)
  BY <1>5, <1>10
<1>11. CASE other \in samples /\ \E j \in 1 .. 37 : story = PlanStory(j)
  BY <1>5, <1>11
<1> QED
  BY <1>7, <1>8, <1>9, <1>10, <1>11

-------------------------------------------------------------------------------
(* The statements of the program.                                          *)

Elements(s) == {s[i] : i \in DOMAIN s}

LEMMA JoinElements ==
  ASSUME NEW s, NEW t, IsSequence(s), IsSequence(t)
  PROVE  IsSequence(s \o t) /\ Elements(s \o t) = Elements(s) \cup Elements(t)
<1>1. PICK both, m, n : both = s \o t /\ m = Len(s) /\ n = Len(t)
  OBVIOUS
<1>2. /\ m \in Nat /\ n \in Nat /\ DOMAIN s = 1 .. m /\ DOMAIN t = 1 .. n
      /\ IsSequence(both) /\ DOMAIN both = 1 .. m + n
      /\ \A k \in 1 .. m : both[k] = s[k]
      /\ \A k \in 1 .. n : both[m + k] = t[k]
  BY <1>1, SequenceIs, JoinIs
<1>3. ASSUME NEW k \in 1 .. m + n
      PROVE  both[k] \in Elements(s) \cup Elements(t)
  <2>1. CASE k <= m
    BY <1>2, <2>1 DEF Elements
  <2>2. CASE k > m
    <3>1. k - m \in 1 .. n /\ m + (k - m) = k
      BY <1>2, <2>2
    <3>2. both[k] = t[k - m]
      BY <1>2, <3>1
    <3> QED
      BY <1>2, <3>1, <3>2 DEF Elements
  <2> QED
    BY <1>2, <2>1, <2>2
<1>4. \A k \in 1 .. m : k \in 1 .. m + n
  BY <1>2
<1>5. \A k \in 1 .. n : m + k \in 1 .. m + n
  BY <1>2
<1>6. Elements(s) \subseteq Elements(both)
  BY <1>2, <1>4 DEF Elements
<1>7. Elements(t) \subseteq Elements(both)
  BY <1>2, <1>5 DEF Elements
<1>8. Elements(both) \subseteq Elements(s) \cup Elements(t)
  <2>1. Elements(both) = {both[k] : k \in 1 .. m + n}
    BY <1>2 DEF Elements
  <2> QED
    BY <1>3, <2>1
<1> QED
  BY <1>1, <1>2, <1>6, <1>7, <1>8

LEMMA FlattenElements ==
  ASSUME NEW blocks, IsSequence(blocks), \A i \in DOMAIN blocks : IsSequence(blocks[i])
  PROVE  /\ IsSequence(FlattenSeq(blocks))
         /\ Elements(FlattenSeq(blocks)) = UNION {Elements(blocks[i]) : i \in DOMAIN blocks}
<1>1. PICK n \in Nat : n = Len(blocks) /\ DOMAIN blocks = 1 .. n
  BY SequenceIs
<1>2. CASE n = 0
  <2>1. FlattenSeq(blocks) = blocks /\ DOMAIN blocks = {}
    BY <1>1, <1>2 DEF FlattenSeq
  <2> QED
    BY <2>1 DEF Elements
<1>3. CASE n # 0
  <2>1. PICK flat : Flattens(flat, blocks, n) /\ FlattenSeq(blocks) = flat[n]
    BY <1>1, <1>3, FlattenIs
  <2> DEFINE UpTo(i) == UNION {Elements(blocks[j]) : j \in 1 .. i}
             Good(i) == IsSequence(flat[i]) /\ Elements(flat[i]) = UpTo(i)
             Reached == {i \in Nat : i + 1 <= n => Good(i + 1)}
  <2>2. 0 \in Reached
    <3>1. flat[1] = blocks[1]
      BY <1>1, <1>3, <2>1, FlattensIs
    <3>2. UpTo(1) = Elements(blocks[1])
      OBVIOUS
    <3>3. 1 \in DOMAIN blocks
      BY <1>1, <1>3
    <3> QED
      BY <3>1, <3>2, <3>3
  <2>3. ASSUME NEW i \in 1 .. n, i + 1 \in 1 .. n, Good(i)
        PROVE  Good(i + 1)
    <3>1. i + 1 # 1 /\ (i + 1) - 1 = i
      OBVIOUS
    <3>2. flat[i + 1] = IF i + 1 = 1 THEN blocks[i + 1]
                        ELSE flat[(i + 1) - 1] \o blocks[i + 1]
      BY <2>1, <2>3, FlattensIs
    <3>3. IsSequence(blocks[i + 1])
      BY <1>1, <2>3
    <3>4. UpTo(i + 1) = UpTo(i) \cup Elements(blocks[i + 1])
      <4>1. 1 .. i + 1 = (1 .. i) \cup {i + 1}
        OBVIOUS
      <4> QED
        BY <4>1
    <3>5. IsSequence(flat[i]) /\ Elements(flat[i]) = UpTo(i)
      BY <2>3
    <3> HIDE DEF UpTo
    <3>6. /\ IsSequence(flat[i] \o blocks[i + 1])
          /\ Elements(flat[i] \o blocks[i + 1]) = Elements(flat[i]) \cup Elements(blocks[i + 1])
      BY <3>3, <3>5, JoinElements
    <3>7. flat[i + 1] = flat[i] \o blocks[i + 1]
      BY <3>1, <3>2
    <3> QED
      BY <3>4, <3>5, <3>6, <3>7
  <2> HIDE DEF Good
  <2>4. ASSUME NEW i \in Nat, i \in Reached
        PROVE  i + 1 \in Reached
    <3>1. CASE (i + 1) + 1 <= n
      <4>1. i + 1 \in 1 .. n /\ (i + 1) + 1 \in 1 .. n /\ Good(i + 1)
        BY <1>1, <2>4, <3>1
      <4> QED
        BY <2>3, <4>1
    <3> QED
      BY <3>1
  <2> HIDE DEF Reached
  <2>5. Nat \subseteq Reached
    BY <2>2, <2>4, NaturalsReached
  <2>6. n - 1 \in Nat /\ (n - 1) + 1 = n
    BY <1>3
  <2>7. Good(n)
    BY <2>5, <2>6 DEF Reached
  <2> QED
    BY <1>1, <2>1, <2>7 DEF Good
<1> QED
  BY <1>2, <1>3

ShipmentStatement(story) ==
  createShipment(story.id, story.user, story.code, story.is, story.steps)[1]

PaymentStatements(story) == createPayment(story.id, story.user, story.pays[1])

StatementsOf(story) ==
  {ShipmentStatement(story)}
    \cup IF story.pays = << >> THEN {} ELSE Elements(PaymentStatements(story))

LEMMA ShipmentElements ==
  ASSUME NEW id, NEW user, NEW code, NEW is, NEW steps, IsSequence(steps)
  PROVE  LET block == createShipment(id, user, code, is, steps)
         IN  IsSequence(block) /\ Elements(block) = {block[1]}
<1>1. PICK block, rows : /\ block = createShipment(id, user, code, is, steps)
                         /\ rows = createShipment(id, user, code, is, steps)[1].rows
  OBVIOUS
<1>2. block = <<create(rows)>>
  BY <1>1, ShipmentRows
<1>3. IsSequence(block) /\ DOMAIN block = {1}
  BY <1>2, OneStatement
<1> QED
  BY <1>1, <1>3 DEF Elements

LEMMA NoSteps ==
  /\ IsSequence(<< >>) /\ Elements(<< >>) = {}
<1>1. << >> \in Seq({}) /\ DOMAIN << >> = {}
  OBVIOUS
<1> QED
  BY <1>1, InSequence DEF Elements

\* The first three stories are told one after the other.
LEMMA CustomerElements ==
  /\ IsSequence(seedCustomerShipments)
  /\ Elements(seedCustomerShipments) =
       UNION {StatementsOf(story) : story \in {FirstStory, SecondStory, ThirdStory}}
<1>1. PICK one, two, three :
        one = FirstStory /\ two = SecondStory /\ three = ThirdStory
  OBVIOUS
<1> DEFINE Ship(story) == createShipment(story.id, story.user, story.code, story.is, story.steps)
<1>2. /\ Ship(FirstStory) = createShipment(<<"shipment", 1>>, "customer", "UPG",
           ShipmentIs("IN_TRANSIT", NULL, "PAID", 120, 124,
             calculateRateFor(routeOf("UPG"), 120), 0, 4, 1),
           <<At("PENDING_PAYMENT", 4), At("PAID", 4), At("RECEIVED_AT_WAREHOUSE", 2),
             At("IN_TRANSIT", 1)>>)
      /\ FirstStory.pays = <<Verified(calculateRateFor(routeOf("UPG"), 120).total, 4)>>
      /\ PaymentStatements(FirstStory) =
           createPayment(<<"shipment", 1>>, "customer",
             Verified(calculateRateFor(routeOf("UPG"), 120).total, 4))
  BY DEF FirstStory, Story, PaymentStatements
<1>3. /\ Ship(SecondStory) = createShipment(<<"shipment", 2>>, "customer", "JATIM",
           ShipmentIs("PENDING_PAYMENT", NULL, "UNPAID", 40, 0,
             calculateRateFor(routeOf("JATIM"), 40),
             calculateRateFor(routeOf("JATIM"), 40).total, 1, 1),
           <<At("PENDING_PAYMENT", 1)>>)
      /\ SecondStory.pays = << >>
  BY DEF SecondStory, Story
<1>4. /\ Ship(ThirdStory) = createShipment(<<"shipment", 3>>, "agent-approved", "MDC",
           ShipmentIs("DELIVERED", NULL, "PAID", 75, 75,
             calculateRateFor(routeOf("MDC"), 75), 0, 26, 21),
           <<At("PENDING_PAYMENT", 26), At("PAID", 26), At("RECEIVED_AT_WAREHOUSE", 25),
             At("IN_TRANSIT", 24), At("ARRIVED_AT_DESTINATION", 22),
             At("READY_FOR_PICKUP", 22), At("DELIVERED", 21)>>)
      /\ ThirdStory.pays = <<Verified(calculateRateFor(routeOf("MDC"), 75).total, 26)>>
      /\ PaymentStatements(ThirdStory) =
           createPayment(<<"shipment", 3>>, "agent-approved",
             Verified(calculateRateFor(routeOf("MDC"), 75).total, 26))
  BY DEF ThirdStory, Story, PaymentStatements
<1>5. seedCustomerShipments =
        Ship(FirstStory) \o PaymentStatements(FirstStory) \o Ship(SecondStory)
          \o Ship(ThirdStory) \o PaymentStatements(ThirdStory)
  BY <1>2, <1>3, <1>4 DEF seedCustomerShipments
<1>6. /\ one.pays # << >> /\ two.pays = << >> /\ three.pays # << >>
      /\ IsSequence(one.steps) /\ IsSequence(two.steps) /\ IsSequence(three.steps)
  BY <1>1, <1>2, <1>3, <1>4, BillIs, FirstIsTrue, SecondIsTrue, ThirdIsTrue DEF Legal
<1>7. PICK a, b, c, d, e :
        /\ a = Ship(one) /\ b = PaymentStatements(one) /\ c = Ship(two) /\ d = Ship(three)
        /\ e = PaymentStatements(three)
  OBVIOUS
<1>8. seedCustomerShipments = a \o b \o c \o d \o e
  BY <1>1, <1>5, <1>7
<1>9. /\ IsSequence(a) /\ Elements(a) = {ShipmentStatement(one)}
      /\ IsSequence(c) /\ Elements(c) = {ShipmentStatement(two)}
      /\ IsSequence(d) /\ Elements(d) = {ShipmentStatement(three)}
  BY <1>6, <1>7, ShipmentElements DEF ShipmentStatement
<1>10. IsSequence(b) /\ IsSequence(e)
  BY <1>7, PaymentFits DEF PaymentStatements
<1>11. /\ StatementsOf(one) = Elements(a) \cup Elements(b)
       /\ StatementsOf(two) = Elements(c)
       /\ StatementsOf(three) = Elements(d) \cup Elements(e)
  BY <1>6, <1>7, <1>9 DEF StatementsOf
<1> HIDE DEF Ship
<1>12. PICK ab : ab = a \o b
  OBVIOUS
<1>13. IsSequence(ab) /\ Elements(ab) = Elements(a) \cup Elements(b)
  BY <1>9, <1>10, <1>12, JoinElements
<1>14. PICK abc : abc = ab \o c
  OBVIOUS
<1>15. IsSequence(abc) /\ Elements(abc) = Elements(ab) \cup Elements(c)
  BY <1>9, <1>13, <1>14, JoinElements
<1>16. PICK abcd : abcd = abc \o d
  OBVIOUS
<1>17. IsSequence(abcd) /\ Elements(abcd) = Elements(abc) \cup Elements(d)
  BY <1>9, <1>15, <1>16, JoinElements
<1>18. PICK all : all = abcd \o e
  OBVIOUS
<1>19. IsSequence(all) /\ Elements(all) = Elements(abcd) \cup Elements(e)
  BY <1>10, <1>17, <1>18, JoinElements
<1>20. seedCustomerShipments = all
  BY <1>8, <1>12, <1>14, <1>16, <1>18
<1>21. UNION {StatementsOf(story) : story \in {one, two, three}}
         = StatementsOf(one) \cup StatementsOf(two) \cup StatementsOf(three)
  OBVIOUS
<1> QED
  BY <1>1, <1>11, <1>13, <1>15, <1>17, <1>19, <1>20, <1>21

\* An entry of the plan tells its story.
LEMMA EntryElements ==
  ASSUME NEW index \in DOMAIN OPERATIONAL_PLAN
  PROVE  /\ IsSequence(operationalShipment(index))
         /\ Elements(operationalShipment(index)) = StatementsOf(PlanStory(index))
<1>1. PICK plan, sender, id :
        /\ plan = OPERATIONAL_PLAN[index]
        /\ sender = OPERATIONAL_SENDERS[((index - 1) % Len(OPERATIONAL_SENDERS)) + 1]
        /\ id = <<"shipment-op", index - 1>>
  OBVIOUS
<1>2. PICK rate : rate = calculateRateFor(routeOf(plan.destination), plan.weight)
  OBVIOUS
<1>3. PICK isPaid : isPaid = Contains(filteredPath(plan), "PAID")
  OBVIOUS
<1>4. PICK is :
        is = ShipmentIs(plan.status, plan.previousStatus,
          IF isPaid THEN "PAID"
          ELSE IF plan.awaitingVerification THEN "WAITING_VERIFICATION" ELSE "UNPAID",
          plan.weight, IF isPaid THEN plan.weight ELSE 0, rate,
          IF isPaid THEN 0 ELSE rate.total, createdDaysAgo(plan), plan.staleDays)
  OBVIOUS
<1>5. PICK pay : pay = operationalPayment(plan, rate.total)
  OBVIOUS
<1>6. PICK shipment, payments :
        /\ shipment = createShipment(id, sender, plan.destination, is, timeline(plan))
        /\ payments = [i \in DOMAIN pay |-> createPayment(id, sender, pay[i])]
  OBVIOUS
<1>7. operationalShipment(index) = shipment \o FlattenSeq(payments)
  BY <1>1, <1>2, <1>3, <1>4, <1>5, <1>6 DEF operationalShipment
<1>8. PICK story : story = PlanStory(index)
  OBVIOUS
<1>9. /\ story.id = id /\ story.user = sender /\ story.code = plan.destination
      /\ story.is = is /\ story.steps = timeline(plan) /\ story.pays = pay
  BY <1>1, <1>2, <1>3, <1>4, <1>5, <1>8 DEF PlanStory, Story
<1>10. IsSequence(shipment) /\ Elements(shipment) = {ShipmentStatement(story)}
  BY <1>6, <1>9, TimelineIs, ShipmentElements DEF ShipmentStatement
<1>11. \/ pay = << >>
       \/ pay # << >> /\ Len(pay) = 1 /\ IsSequence(pay)
  BY <1>8, <1>9, PlanStoryIsBilled DEF Billed
<1>12. PICK paid : paid = FlattenSeq(payments)
  OBVIOUS
<1>13. /\ IsSequence(paid)
       /\ Elements(paid) = IF pay = << >> THEN {} ELSE Elements(PaymentStatements(story))
  <2>1. CASE pay = << >>
    <3>1. DOMAIN pay = {}
      BY <2>1
    <3>2. payments = << >>
      BY <1>6, <3>1
    <3>3. IsSequence(payments) /\ DOMAIN payments = {}
      BY <3>2, NoSteps
    <3> QED
      BY <1>12, <2>1, <3>3, FlattenElements
  <2>2. CASE pay # << >>
    <3>1. DOMAIN pay = {1}
      BY <1>11, <2>2, SequenceIs
    <3>2. payments = [i \in 1 .. 1 |-> createPayment(id, sender, pay[i])]
      BY <1>6, <3>1
    <3>3. /\ IsSequence(payments) /\ DOMAIN payments = {1}
          /\ payments[1] = PaymentStatements(story)
      <4>1. DOMAIN payments = 1 .. 1 /\ 1 .. 1 = {1}
        BY <3>2
      <4>2. payments = [i \in DOMAIN payments |-> payments[i]]
        BY <3>2
      <4>3. payments[1] = createPayment(id, sender, pay[1])
        BY <3>2
      <4>4. payments[1] = PaymentStatements(story)
        BY <1>9, <4>3 DEF PaymentStatements
      <4> QED
        BY <4>1, <4>2, <4>4, ListIs
    <3>4. IsSequence(payments[1])
      <4>1. payments[1] = createPayment(story.id, story.user, story.pays[1])
        BY <3>3 DEF PaymentStatements
      <4>2. IsSequence(createPayment(story.id, story.user, story.pays[1]))
        BY PaymentFits
      <4> QED
        BY <4>1, <4>2
    <3>5. /\ IsSequence(paid)
          /\ Elements(paid) = UNION {Elements(payments[i]) : i \in DOMAIN payments}
      BY <1>12, <3>3, <3>4, FlattenElements
    <3>6. UNION {Elements(payments[i]) : i \in {1}} = Elements(payments[1])
      OBVIOUS
    <3> QED
      BY <2>2, <3>3, <3>5, <3>6
  <2> QED
    BY <2>1, <2>2
<1>14. /\ IsSequence(shipment \o paid)
       /\ Elements(shipment \o paid) = Elements(shipment) \cup Elements(paid)
  BY <1>10, <1>13, JoinElements
<1> QED
  BY <1>7, <1>8, <1>9, <1>10, <1>12, <1>13, <1>14 DEF StatementsOf

LEMMA OperationalElements ==
  /\ IsSequence(seedOperationalShipments)
  /\ Elements(seedOperationalShipments) =
       UNION {StatementsOf(PlanStory(i)) : i \in DOMAIN OPERATIONAL_PLAN}
<1>1. PICK blocks : blocks = [index \in DOMAIN OPERATIONAL_PLAN |-> operationalShipment(index)]
  OBVIOUS
<1>2. DOMAIN blocks = DOMAIN OPERATIONAL_PLAN /\ IsSequence(blocks)
  BY <1>1, PlanIs, ListIs
<1>3. ASSUME NEW i \in DOMAIN OPERATIONAL_PLAN
      PROVE  IsSequence(blocks[i]) /\ Elements(blocks[i]) = StatementsOf(PlanStory(i))
  BY <1>1, EntryElements
<1>4. /\ IsSequence(FlattenSeq(blocks))
      /\ Elements(FlattenSeq(blocks)) = UNION {Elements(blocks[i]) : i \in DOMAIN blocks}
  BY <1>2, <1>3, FlattenElements
<1>5. {Elements(blocks[i]) : i \in DOMAIN blocks}
        = {StatementsOf(PlanStory(i)) : i \in DOMAIN OPERATIONAL_PLAN}
  BY <1>2, <1>3
<1> QED
  BY <1>1, <1>4, <1>5 DEF seedOperationalShipments

\* The statements before the first shipment.
Preliminaries ==
  Elements(MinimalProgram) \cup Elements(seedUsers) \cup Elements(seedRecipients)

LEMMA FullElements ==
  /\ IsSequence(FullProgram)
  /\ Elements(FullProgram) = Preliminaries \cup UNION {StatementsOf(story) : story \in Stories}
<1>1. /\ IsSequence(MinimalProgram) /\ IsSequence(seedUsers) /\ IsSequence(seedRecipients)
      /\ IsSequence(seedCustomerShipments) /\ IsSequence(seedOperationalShipments)
  <2>1. IsSequence(seedUsers) /\ IsSequence(seedRecipients)
    <3>1. DOMAIN USERS = 1 .. 9 /\ DOMAIN RECIPIENTS = 1 .. 2
      BY UsersAre DEF RECIPIENTS
    <3> QED
      BY <3>1, ListIs DEF seedUsers, seedRecipients
  <2> QED
    BY <2>1, MinimalIsSeedlike, CustomerElements, OperationalElements DEF Seedlike
<1>2. PICK a, b, c, d, e :
        /\ a = MinimalProgram /\ b = seedUsers /\ c = seedRecipients
        /\ d = seedCustomerShipments /\ e = seedOperationalShipments
  OBVIOUS
<1>3. PICK ab : ab = a \o b
  OBVIOUS
<1>4. IsSequence(ab) /\ Elements(ab) = Elements(a) \cup Elements(b)
  BY <1>1, <1>2, <1>3, JoinElements
<1>5. PICK abc : abc = ab \o c
  OBVIOUS
<1>6. IsSequence(abc) /\ Elements(abc) = Elements(ab) \cup Elements(c)
  BY <1>1, <1>2, <1>4, <1>5, JoinElements
<1>7. PICK abcd : abcd = abc \o d
  OBVIOUS
<1>8. IsSequence(abcd) /\ Elements(abcd) = Elements(abc) \cup Elements(d)
  BY <1>1, <1>2, <1>6, <1>7, JoinElements
<1>9. PICK all : all = abcd \o e
  OBVIOUS
<1>10. IsSequence(all) /\ Elements(all) = Elements(abcd) \cup Elements(e)
  BY <1>1, <1>2, <1>8, <1>9, JoinElements
<1>11. FullProgram = all
  BY <1>2, <1>3, <1>5, <1>7, <1>9 DEF FullProgram
<1>12. UNION {StatementsOf(story) : story \in Stories} = Elements(d) \cup Elements(e)
  <2>1. PICK samples, plans : /\ samples = {FirstStory, SecondStory, ThirdStory}
                              /\ plans = {PlanStory(i) : i \in DOMAIN OPERATIONAL_PLAN}
    OBVIOUS
  <2>2. Stories = samples \cup plans
    BY <2>1 DEF Stories
  <2>3. UNION {StatementsOf(story) : story \in Stories}
          = (UNION {StatementsOf(story) : story \in samples})
              \cup (UNION {StatementsOf(story) : story \in plans})
    BY <2>2
  <2>4. UNION {StatementsOf(story) : story \in plans}
          = UNION {StatementsOf(PlanStory(i)) : i \in DOMAIN OPERATIONAL_PLAN}
    BY <2>1
  <2> QED
    BY <1>2, <2>1, <2>3, <2>4, CustomerElements, OperationalElements
<1> QED
  BY <1>2, <1>4, <1>6, <1>8, <1>10, <1>11, <1>12 DEF Preliminaries

-------------------------------------------------------------------------------
(* What the statements write of a shipment.                                *)

ShipmentOf(story) ==
  [id |-> story.id, of |-> [users |-> story.user, routes |-> story.code], is |-> story.is]

EventRow(story, step) ==
  [id |-> <<story.id, step>>, of |-> [shipments |-> story.id], is |-> story.steps[step]]

EventsOf(story) == {EventRow(story, step) : step \in 1 .. Len(story.steps)}

PaymentOf(story) ==
  [id |-> story.id, of |-> [shipments |-> story.id, attachments |-> story.id],
   is |-> story.pays[1]]

\* The rows that a statement inserts in a table.
RowsIn(statement, table) ==
  {statement.rows[i].row : i \in {j \in DOMAIN statement.rows : statement.rows[j].table = table}}

TellsNothing(statement) ==
  statement.do = "create" =>
    \A table \in {"shipments", "shipment_events", "payments"} : RowsIn(statement, table) = {}

\* Shipments and their timelines come together, payments alone.
Tells(statement, story) ==
  /\ statement.do = "create"
  /\ \/ /\ \A row \in RowsIn(statement, "shipments") : row = ShipmentOf(story)
        /\ RowsIn(statement, "shipment_events") = EventsOf(story)
        /\ RowsIn(statement, "payments") = {}
     \/ /\ RowsIn(statement, "shipments") = {} /\ RowsIn(statement, "shipment_events") = {}
        /\ \A row \in RowsIn(statement, "payments") : story.pays # << >> /\ row = PaymentOf(story)

LEMMA WritesTell ==
  ASSUME NEW s, NEW statement \in Elements(s),
         \A pair \in Adds(s) : pair[1] \notin {"shipments", "shipment_events", "payments"}
  PROVE  TellsNothing(statement)
<1> SUFFICES ASSUME statement.do = "create",
                    NEW table \in {"shipments", "shipment_events", "payments"},
                    RowsIn(statement, table) # {}
             PROVE  FALSE
  BY DEF TellsNothing
<1>1. PICK i \in DOMAIN statement.rows : statement.rows[i].table = table
  BY DEF RowsIn
<1>2. PICK pair : pair = <<statement.rows[i].table, statement.rows[i].row.id>>
  OBVIOUS
<1>3. pair \in Writes(statement)
  BY <1>2 DEF Writes
<1>4. pair \in Adds(s)
  BY <1>3 DEF Adds, Elements
<1> QED
  BY <1>1, <1>2, <1>4

LEMMA PreliminariesTellNothing ==
  ASSUME NEW statement \in Preliminaries
  PROVE  TellsNothing(statement)
<1>1. \A pair \in Adds(MinimalProgram) : pair[1] \in {"routes", "rates", "users"}
  BY MinimalIsSeedlike
<1>2. \A pair \in Adds(seedUsers) : pair[1] \in {"users", "agent_profiles"}
  BY UsersFit
<1>3. \A pair \in Adds(seedRecipients) : pair[1] = "recipients"
  <2>1. PICK known : known = {"users"} \X Accounts
    OBVIOUS
  <2>2. {"users"} \X Accounts \subseteq known /\ \A pair \in known : pair[1] # "recipients"
    BY <2>1
  <2> QED
    BY <2>2, RecipientsFit
<1>4. CASE statement \in Elements(MinimalProgram)
  BY <1>1, <1>4, WritesTell
<1>5. CASE statement \in Elements(seedUsers)
  BY <1>2, <1>5, WritesTell
<1>6. CASE statement \in Elements(seedRecipients)
  BY <1>3, <1>6, WritesTell
<1> QED
  BY <1>4, <1>5, <1>6 DEF Preliminaries

LEMMA ShipmentTells ==
  ASSUME NEW story, IsSequence(story.steps)
  PROVE  LET statement == ShipmentStatement(story)
         IN  /\ Tells(statement, story)
             /\ RowsIn(statement, "shipment_events") = EventsOf(story)
<1>1. PICK id, user, code, is, steps :
        /\ id = story.id /\ user = story.user /\ code = story.code /\ is = story.is
        /\ steps = story.steps
  OBVIOUS
<1>2. PICK n \in Nat : n = Len(steps) /\ DOMAIN steps = 1 .. n /\ IsSequence(steps)
  BY <1>1, SequenceIs
<1>3. PICK first, second, events :
        /\ first = In("shipments", id, [users |-> user, routes |-> code], is)
        /\ second = In("shipment_items", id, [shipments |-> id], << >>)
        /\ events = [step \in DOMAIN steps |->
                       In("shipment_events", <<id, step>>, [shipments |-> id], steps[step])]
  OBVIOUS
<1>4. PICK statement, rows :
        /\ statement = ShipmentStatement(story) /\ rows = <<first, second>> \o events
  OBVIOUS
<1>5. statement.do = "create" /\ statement.rows = rows
  <2>1. createShipment(id, user, code, is, steps) = <<create(rows)>>
    BY <1>3, <1>4 DEF createShipment
  <2>2. statement = <<create(rows)>>[1]
    BY <1>1, <1>4, <2>1 DEF ShipmentStatement
  <2> QED
    BY <2>2 DEF create
<1>6. /\ DOMAIN rows = 1 .. 2 + n /\ rows[1] = first /\ rows[2] = second
      /\ \A k \in 1 .. n : rows[2 + k] = events[k]
  <2>1. IsSequence(events) /\ Len(events) = n
    BY <1>2, <1>3, ListIs
  <2>2. /\ IsSequence(<<first, second>>) /\ Len(<<first, second>>) = 2
        /\ <<first, second>>[1] = first /\ <<first, second>>[2] = second
    <3>1. <<first, second>> \in Seq({first, second})
      OBVIOUS
    <3> QED
      BY <3>1, InSequence
  <2>3. /\ IsSequence(<<first, second>> \o events)
        /\ Len(<<first, second>> \o events) = Len(<<first, second>>) + Len(events)
        /\ \A k \in 1 .. Len(<<first, second>>) :
             (<<first, second>> \o events)[k] = <<first, second>>[k]
        /\ \A k \in 1 .. Len(events) :
             (<<first, second>> \o events)[Len(<<first, second>>) + k] = events[k]
    BY <2>1, <2>2, JoinIs
  <2>4. IsSequence(rows) /\ Len(rows) = 2 + n
    BY <1>4, <2>1, <2>2, <2>3
  <2>5. DOMAIN rows = 1 .. 2 + n
    BY <2>4, SequenceIs
  <2> QED
    BY <1>4, <2>1, <2>2, <2>3, <2>5
<1>7. /\ first.table = "shipments" /\ first.row = ShipmentOf(story)
      /\ second.table = "shipment_items"
  BY <1>1, <1>3 DEF In, ShipmentOf
<1>8. ASSUME NEW k \in 1 .. n
      PROVE  events[k].table = "shipment_events" /\ events[k].row = EventRow(story, k)
  <2>1. events[k] = In("shipment_events", <<id, k>>, [shipments |-> id], steps[k])
    BY <1>2, <1>3
  <2> QED
    BY <1>1, <2>1 DEF In, EventRow
<1>9. \A i \in 1 .. 2 + n : i = 1 \/ i = 2 \/ \E k \in 1 .. n : i = 2 + k
  <2> SUFFICES ASSUME NEW i \in 1 .. 2 + n, i > 2
               PROVE  \E k \in 1 .. n : i = 2 + k
    OBVIOUS
  <2>1. i - 2 \in 1 .. n /\ i = 2 + (i - 2)
    OBVIOUS
  <2> QED
    BY <2>1
<1>10. ASSUME NEW row \in RowsIn(statement, "shipments")
       PROVE  row = ShipmentOf(story)
  <2>1. PICK i \in 1 .. 2 + n : rows[i].table = "shipments" /\ row = rows[i].row
    BY <1>5, <1>6, <1>10 DEF RowsIn
  <2> QED
    BY <1>6, <1>7, <1>8, <1>9, <2>1
<1>11. RowsIn(statement, "payments") = {}
  <2> SUFFICES ASSUME NEW i \in 1 .. 2 + n, rows[i].table = "payments"
               PROVE  FALSE
    BY <1>5, <1>6 DEF RowsIn
  <2> QED
    BY <1>6, <1>7, <1>8, <1>9
<1>12. RowsIn(statement, "shipment_events") \subseteq EventsOf(story)
  <2> SUFFICES ASSUME NEW i \in 1 .. 2 + n, rows[i].table = "shipment_events"
               PROVE  rows[i].row \in EventsOf(story)
    BY <1>5, <1>6 DEF RowsIn
  <2>1. PICK k \in 1 .. n : i = 2 + k
    BY <1>6, <1>7, <1>9
  <2>2. rows[i].row = EventRow(story, k)
    BY <1>6, <1>8, <2>1
  <2> QED
    BY <1>1, <1>2, <2>2 DEF EventsOf
<1>13. EventsOf(story) \subseteq RowsIn(statement, "shipment_events")
  <2> SUFFICES ASSUME NEW k \in 1 .. n
               PROVE  EventRow(story, k) \in RowsIn(statement, "shipment_events")
    BY <1>1, <1>2 DEF EventsOf
  <2>1. PICK i : i = 2 + k
    OBVIOUS
  <2>2. i \in 1 .. 2 + n
    BY <2>1
  <2>3. rows[i].table = "shipment_events" /\ rows[i].row = EventRow(story, k)
    BY <1>6, <1>8, <2>1
  <2> QED
    BY <1>5, <1>6, <2>2, <2>3 DEF RowsIn
<1>14. RowsIn(statement, "shipment_events") = EventsOf(story)
  BY <1>12, <1>13
<1>15. Tells(statement, story)
  BY <1>5, <1>10, <1>11, <1>14 DEF Tells
<1> QED
  BY <1>4, <1>14, <1>15

LEMMA PaymentTells ==
  ASSUME NEW story, story.pays # << >>
  PROVE  /\ \A statement \in Elements(PaymentStatements(story)) :
              TellsNothing(statement) \/ Tells(statement, story)
         /\ <<"payments", story.id>> \in
              UNION {Writes(statement) : statement \in Elements(PaymentStatements(story))}
<1>1. PICK block, id, is, proof, payment :
        /\ block = PaymentStatements(story) /\ id = story.id /\ is = story.pays[1]
        /\ proof = In("attachments", id, [users |-> story.user], [storageKey |-> id])
        /\ payment = In("payments", id, [shipments |-> id, attachments |-> id], is)
  OBVIOUS
<1>2. block = <<writeFile(id), create(<<proof>>), create(<<payment>>)>>
  BY <1>1 DEF PaymentStatements, createPayment
<1>3. Elements(block) = {writeFile(id), create(<<proof>>), create(<<payment>>)}
  <2>1. /\ DOMAIN block = 1 .. 3 /\ block[1] = writeFile(id)
        /\ block[2] = create(<<proof>>) /\ block[3] = create(<<payment>>)
    BY <1>2
  <2>2. Elements(block) = {block[i] : i \in 1 .. 3}
    BY <2>1 DEF Elements
  <2>3. 1 .. 3 = {1, 2, 3}
    OBVIOUS
  <2>4. Elements(block) = {block[1], block[2], block[3]}
    BY <2>2, <2>3
  <2> QED
    BY <2>1, <2>4
<1>4. TellsNothing(writeFile(id))
  BY DEF TellsNothing, writeFile
<1>5. \A row : /\ create(<<row>>).do = "create" /\ create(<<row>>).rows = <<row>>
               /\ DOMAIN <<row>> = {1} /\ <<row>>[1] = row
  BY DEF create
<1>6. proof.table = "attachments" /\ payment.table = "payments" /\ payment.row.id = id
      /\ story.pays # << >> /\ payment.row = PaymentOf(story)
  BY <1>1 DEF In, PaymentOf
<1>7. TellsNothing(create(<<proof>>))
  BY <1>5, <1>6 DEF TellsNothing, RowsIn
<1>8. Tells(create(<<payment>>), story)
  <2>1. PICK statement : statement = create(<<payment>>)
    OBVIOUS
  <2>2. /\ statement.do = "create" /\ DOMAIN statement.rows = {1}
        /\ statement.rows[1] = payment
    BY <1>5, <2>1
  <2>3. /\ RowsIn(statement, "shipments") = {} /\ RowsIn(statement, "shipment_events") = {}
        /\ \A row \in RowsIn(statement, "payments") : story.pays # << >> /\ row = PaymentOf(story)
    BY <1>6, <2>2 DEF RowsIn
  <2> QED
    BY <2>1, <2>2, <2>3 DEF Tells
<1>9. <<"payments", id>> \in Writes(create(<<payment>>))
  BY <1>5, <1>6 DEF Writes
<1>10. \A statement \in Elements(block) : TellsNothing(statement) \/ Tells(statement, story)
  BY <1>3, <1>4, <1>7, <1>8
<1>11. <<"payments", id>> \in UNION {Writes(statement) : statement \in Elements(block)}
  BY <1>3, <1>9
<1> QED
  BY <1>1, <1>10, <1>11

\* Each statement tells something of one story, or nothing of any.
LEMMA ProgramTells ==
  ASSUME NEW statement \in Elements(Program)
  PROVE  TellsNothing(statement) \/ \E story \in Stories : Tells(statement, story)
<1>1. statement \in Preliminaries \/ \E story \in Stories : statement \in StatementsOf(story)
  <2>1. CASE seed.minimal
    BY <2>1 DEF Program, Preliminaries
  <2>2. CASE ~seed.minimal
    BY <2>2, FullElements DEF Program
  <2> QED
    BY <2>1, <2>2
<1>2. CASE statement \in Preliminaries
  BY <1>2, PreliminariesTellNothing
<1>3. ASSUME NEW story \in Stories, statement \in StatementsOf(story)
      PROVE  TellsNothing(statement) \/ Tells(statement, story)
  <2>1. CASE statement = ShipmentStatement(story)
    <3>1. IsSequence(story.steps)
      BY StoriesAreTrue DEF Legal
    <3> QED
      BY <2>1, <3>1, ShipmentTells
  <2>2. CASE story.pays # << >> /\ statement \in Elements(PaymentStatements(story))
    BY <2>2, PaymentTells
  <2> QED
    BY <1>3, <2>1, <2>2 DEF StatementsOf
<1> QED
  BY <1>1, <1>2, <1>3

-------------------------------------------------------------------------------
(* What the tables tell.                                                   *)

\* Shipments are those of visitors and of the stories, timelines are whole, payments
\* are of the stories.
ToldInv ==
  /\ DOMAIN db = Tables
  /\ \A row \in db["shipments"] :
       row.id[1] = "visitor" \/ \E story \in Stories : row = ShipmentOf(story)
  /\ \E told \in SUBSET Stories :
       db["shipment_events"] = UNION {EventsOf(story) : story \in told}
  /\ \A row \in db["payments"] : \E story \in Stories : story.pays # << >> /\ row = PaymentOf(story)

LEMMA ToldStart == SeedingInit => ToldInv
<1> SUFFICES ASSUME SeedingInit
             PROVE  ToldInv
  OBVIOUS
<1>1. db = [t \in Tables |-> {}]
  BY DEF SeedingInit
<1>2. /\ DOMAIN db = Tables /\ db["shipments"] = {} /\ db["shipment_events"] = {}
      /\ db["payments"] = {}
  BY <1>1 DEF Tables
<1>3. {} \in SUBSET Stories /\ UNION {EventsOf(story) : story \in {}} = {}
  OBVIOUS
<1> QED
  BY <1>2, <1>3 DEF ToldInv

LEMMA ToldWhenDeleting ==
  ASSUME ToldInv, DeleteMany
  PROVE  ToldInv'
<1>1. /\ DOMAIN db' = Tables
      /\ \A t \in Tables : db'[t] = {} \/ db'[t] = db[t]
  BY DEF DeleteMany
<1>2. /\ db'["shipments"] = {} \/ db'["shipments"] = db["shipments"]
      /\ db'["shipment_events"] = {} \/ db'["shipment_events"] = db["shipment_events"]
      /\ db'["payments"] = {} \/ db'["payments"] = db["payments"]
  BY <1>1 DEF Tables
<1>3. {} \in SUBSET Stories /\ UNION {EventsOf(story) : story \in {}} = {}
  OBVIOUS
<1>4. \E told \in SUBSET Stories :
        db'["shipment_events"] = UNION {EventsOf(story) : story \in told}
  BY <1>2, <1>3 DEF ToldInv
<1> QED
  BY <1>1, <1>2, <1>4 DEF ToldInv

LEMMA ToldWhenCreating ==
  ASSUME ToldInv, Create
  PROVE  ToldInv'
<1>1. PICK statement : statement = Program[seed.at]
  OBVIOUS
<1>2. /\ statement \in Elements(Program) /\ statement.do = "create"
      /\ DOMAIN db' = Tables
      /\ \A t \in Tables : db'[t] = db[t] \cup RowsIn(statement, t)
  BY <1>1 DEF Create, Running, Elements, RowsIn
<1>3. /\ db'["shipments"] = db["shipments"] \cup RowsIn(statement, "shipments")
      /\ db'["shipment_events"] = db["shipment_events"] \cup RowsIn(statement, "shipment_events")
      /\ db'["payments"] = db["payments"] \cup RowsIn(statement, "payments")
  BY <1>2 DEF Tables
<1>4. PICK told \in SUBSET Stories :
        db["shipment_events"] = UNION {EventsOf(story) : story \in told}
  BY DEF ToldInv
<1>5. CASE TellsNothing(statement)
  <2>1. /\ db'["shipments"] = db["shipments"] /\ db'["payments"] = db["payments"]
        /\ db'["shipment_events"] = db["shipment_events"]
    BY <1>2, <1>3, <1>5 DEF TellsNothing
  <2> QED
    BY <1>2, <2>1 DEF ToldInv
<1>6. ASSUME NEW story \in Stories, Tells(statement, story)
      PROVE  ToldInv'
  <2>1. CASE /\ \A row \in RowsIn(statement, "shipments") : row = ShipmentOf(story)
             /\ RowsIn(statement, "shipment_events") = EventsOf(story)
             /\ RowsIn(statement, "payments") = {}
    <3>1. told \cup {story} \in SUBSET Stories
      BY <1>6
    <3>2. db'["shipment_events"] = UNION {EventsOf(one) : one \in told \cup {story}}
      BY <1>3, <1>4, <2>1
    <3>3. db'["payments"] = db["payments"]
      BY <1>3, <2>1
    <3>4. \A row \in db'["shipments"] :
            row.id[1] = "visitor" \/ \E one \in Stories : row = ShipmentOf(one)
      BY <1>3, <1>6, <2>1 DEF ToldInv
    <3> QED
      BY <1>2, <3>1, <3>2, <3>3, <3>4 DEF ToldInv
  <2>2. CASE /\ RowsIn(statement, "shipments") = {} /\ RowsIn(statement, "shipment_events") = {}
             /\ \A row \in RowsIn(statement, "payments") : story.pays # << >> /\ row = PaymentOf(story)
    <3>1. /\ db'["shipments"] = db["shipments"]
          /\ db'["shipment_events"] = db["shipment_events"]
      BY <1>3, <2>2
    <3>2. \A row \in db'["payments"] : \E one \in Stories : one.pays # << >> /\ row = PaymentOf(one)
      BY <1>3, <1>6, <2>2 DEF ToldInv
    <3> QED
      BY <1>2, <3>1, <3>2 DEF ToldInv
  <2> QED
    BY <1>6, <2>1, <2>2 DEF Tells
<1> QED
  BY <1>2, <1>5, <1>6, ProgramTells

LEMMA ToldWhenVisited ==
  ASSUME ToldInv, NEW table \in {"users", "shipments"}, NEW row, VisitorWrites(table, row),
         table = "shipments" => row.id[1] = "visitor"
  PROVE  ToldInv'
<1>1. db' = [db EXCEPT ![table] = @ \cup {row}]
  BY DEF VisitorWrites
<1>2. /\ DOMAIN db' = Tables /\ db'["payments"] = db["payments"]
      /\ db'["shipment_events"] = db["shipment_events"]
      /\ table = "users" => db'["shipments"] = db["shipments"]
      /\ table = "shipments" => db'["shipments"] = db["shipments"] \cup {row}
  BY <1>1 DEF ToldInv, Tables
<1>3. \A one \in db'["shipments"] :
        one.id[1] = "visitor" \/ \E story \in Stories : one = ShipmentOf(story)
  BY <1>2 DEF ToldInv
<1> QED
  BY <1>2, <1>3 DEF ToldInv

LEMMA ToldStep == ToldInv /\ [SeedingNext]_seedingVars => ToldInv'
<1> SUFFICES ASSUME ToldInv, [SeedingNext]_seedingVars
             PROVE  ToldInv'
  OBVIOUS
<1>1. CASE DeleteMany
  BY <1>1, ToldWhenDeleting
<1>2. CASE Create
  BY <1>2, ToldWhenCreating
<1>3. CASE db' = db
  BY <1>3 DEF ToldInv
<1>4. CASE (\E minimal \in BOOLEAN : Start(minimal)) \/ WriteFile \/ Stop
  BY <1>3, <1>4 DEF Start, WriteFile, Stop
<1>5. ASSUME NEW v \in Visitors, Register(v)
      PROVE  ToldInv'
  <2>1. PICK row : VisitorWrites("users", row)
    BY <1>5 DEF Register
  <2> QED
    BY <2>1, ToldWhenVisited
<1>6. ASSUME NEW v \in Visitors, Book(v, ROUTES[1].code)
      PROVE  ToldInv'
  <2>1. PICK row : VisitorWrites("shipments", row) /\ row.id = <<"visitor", v>>
    BY <1>6 DEF Book
  <2>2. row.id[1] = "visitor"
    BY <2>1
  <2> QED
    BY <2>1, <2>2, ToldWhenVisited
<1>7. CASE UNCHANGED seedingVars
  BY <1>3, <1>7 DEF seedingVars
<1> QED
  BY <1>1, <1>2, <1>4, <1>5, <1>6, <1>7 DEF SeedingNext

LEMMA ToldCorrect == SeedingSpec => []ToldInv
BY ToldStart, ToldStep, PTL DEF SeedingSpec

\* The rows of events that refer to a shipment are those of its story.
LEMMA EventsFound ==
  ASSUME NEW story \in Stories, NEW told \in SUBSET Stories,
         db["shipment_events"] = UNION {EventsOf(one) : one \in told}
  PROVE  {row \in db["shipment_events"] : row.of["shipments"] = story.id}
           = IF story \in told THEN EventsOf(story) ELSE {}
<1>1. \A one, k : EventRow(one, k).of["shipments"] = one.id
  BY DEF EventRow
<1>2. ASSUME NEW row \in db["shipment_events"], row.of["shipments"] = story.id
      PROVE  story \in told /\ row \in EventsOf(story)
  <2>1. PICK one \in told : row \in EventsOf(one)
    BY <1>2
  <2>2. one.id = story.id
    BY <1>1, <1>2, <2>1 DEF EventsOf
  <2> QED
    BY <2>1, <2>2, StoriesApart
<1>3. ASSUME story \in told, NEW row \in EventsOf(story)
      PROVE  row \in db["shipment_events"] /\ row.of["shipments"] = story.id
  BY <1>1, <1>3 DEF EventsOf
<1> QED
  BY <1>2, <1>3

LEMMA EventsCounted ==
  ASSUME NEW story \in Stories
  PROVE  Cardinality(EventsOf(story)) = Len(story.steps)
<1>1. PICK n \in Nat : n = Len(story.steps)
  BY StoriesAreTrue, SequenceIs DEF Legal
<1>2. \A k : EventRow(story, k).id[2] = k
  BY DEF EventRow
<1>3. PICK f : f = [k \in 1 .. n |-> EventRow(story, k)]
  OBVIOUS
<1>4. f \in Bijection(1 .. n, EventsOf(story))
  <2>1. f \in [1 .. n -> EventsOf(story)]
    BY <1>1, <1>3 DEF EventsOf
  <2>2. \A i, j \in 1 .. n : f[i] = f[j] => i = j
    <3> SUFFICES ASSUME NEW i \in 1 .. n, NEW j \in 1 .. n, f[i] = f[j]
                 PROVE  i = j
      OBVIOUS
    <3>1. EventRow(story, i) = EventRow(story, j)
      BY <1>3
    <3> QED
      BY <1>2, <3>1
  <2>3. \A row \in EventsOf(story) : \E k \in 1 .. n : f[k] = row
    BY <1>1, <1>3 DEF EventsOf
  <2> QED
    BY <2>1, <2>2, <2>3 DEF Bijection, Injection, Surjection, IsInjective
<1>5. IsFiniteSet(1 .. n) /\ Cardinality(1 .. n) = n
  BY FS_Interval
<1>6. Cardinality(EventsOf(story)) = Cardinality(1 .. n)
  BY <1>4, <1>5, FS_Bijection DEF ExistsBijection
<1> QED
  BY <1>1, <1>5, <1>6

LEMMA ToldIsLegal == ToldInv => SeededHistoryIsLegal
<1> SUFFICES ASSUME ToldInv, NEW shipment \in db["shipments"]
             PROVE
    LET service == routeOf(shipment.of["routes"]).serviceType
        events == {row \in db["shipment_events"] : row.of["shipments"] = shipment.id}
        At1(step) == (CHOOSE row \in events : row.id[2] = step).is
        last == Cardinality(events)
    IN  last > 0 =>
          /\ At1(1).status = "PENDING_PAYMENT"
          /\ At1(1).ago <= shipment.is.createdAgo
          /\ \A step \in 2 .. last :
               /\ At1(step).ago <= At1(step - 1).ago
               /\ isValidTransition(At1(step - 1).status, At1(step).status, service, NULL)
          /\ \/ At1(last).status = shipment.is.status
             \/ shipment.is.status = "CANCELLED"
          /\ shipment.is.status = "ON_HOLD" =>
               At1(last - 1).status = shipment.is.previousStatus
  BY DEF SeededHistoryIsLegal
<1> DEFINE service == routeOf(shipment.of["routes"]).serviceType
           events == {row \in db["shipment_events"] : row.of["shipments"] = shipment.id}
           At1(step) == (CHOOSE row \in events : row.id[2] = step).is
           last == Cardinality(events)
<1>1. PICK told \in SUBSET Stories :
        db["shipment_events"] = UNION {EventsOf(story) : story \in told}
  BY DEF ToldInv
<1>2. CASE events = {}
  <2>1. last = 0
    BY <1>2, FS_EmptySet
  <2> QED
    BY <2>1
<1>3. CASE events # {}
  <2>1. PICK story \in Stories : shipment = ShipmentOf(story)
    <3>1. PICK row \in db["shipment_events"], one \in told :
            row.of["shipments"] = shipment.id /\ row \in EventsOf(one)
      BY <1>1, <1>3
    <3>2. one.id = shipment.id
      BY <3>1 DEF EventsOf, EventRow
    <3>3. one.id[1] # "visitor"
      BY <3>1, StoriesAreTrue
    <3>4. shipment.id[1] # "visitor"
      BY <3>2, <3>3
    <3> QED
      BY <3>4 DEF ToldInv
  <2>2. /\ shipment.id = story.id /\ shipment.is = story.is
        /\ shipment.of["routes"] = story.code
    BY <2>1 DEF ShipmentOf
  <2>3. events = EventsOf(story)
    BY <1>1, <1>3, <2>2, EventsFound
  <2>4. PICK n : n = Len(story.steps) /\ last = n
    BY <2>3, EventsCounted
  <2>5. ASSUME NEW k \in 1 .. n
        PROVE  At1(k) = story.steps[k]
    <3>1. \A j : EventRow(story, j).id[2] = j /\ EventRow(story, j).is = story.steps[j]
      BY DEF EventRow
    <3>2. EventRow(story, k) \in events
      BY <2>3, <2>4 DEF EventsOf
    <3>3. \A row \in events : row.id[2] = k => row.is = story.steps[k]
      BY <2>3, <3>1 DEF EventsOf
    <3> QED
      BY <3>1, <3>2, <3>3
  <2>6. Legal(story)
    BY StoriesAreTrue
  <2>7. PICK steps, svc :
          steps = story.steps /\ svc = routeOf(story.code).serviceType
    OBVIOUS
  <2>8. service = svc
    BY <2>2, <2>7
  <2>9. /\ n \in Nat /\ n >= 1
        /\ steps[1].status = "PENDING_PAYMENT" /\ steps[1].ago <= shipment.is.createdAgo
        /\ \A k \in 2 .. n :
             /\ steps[k].ago <= steps[k - 1].ago
             /\ isValidTransition(steps[k - 1].status, steps[k].status, svc, NULL)
        /\ steps[n].status = shipment.is.status \/ shipment.is.status = "CANCELLED"
        /\ shipment.is.status = "ON_HOLD" =>
             steps[n - 1].status = shipment.is.previousStatus
    BY <2>2, <2>4, <2>6, <2>7, SequenceIs DEF Legal
  <2>10. shipment.is.status = "ON_HOLD" => n - 1 \in 1 .. n
    BY <2>9
  <2> HIDE DEF service, events, At1, last
  <2>11. \A k \in 1 .. n : At1(k) = steps[k]
    BY <2>5, <2>7
  <2>12. 1 \in 1 .. n /\ n \in 1 .. n
    BY <2>9
  <2>13. ASSUME NEW k \in 2 .. n
         PROVE  /\ At1(k).ago <= At1(k - 1).ago
                /\ isValidTransition(At1(k - 1).status, At1(k).status, service, NULL)
    <3>1. k \in 1 .. n /\ k - 1 \in 1 .. n
      BY <2>9
    <3> QED
      BY <2>8, <2>9, <2>11, <3>1
  <2>14. /\ At1(1).status = "PENDING_PAYMENT" /\ At1(1).ago <= shipment.is.createdAgo
         /\ At1(last).status = shipment.is.status \/ shipment.is.status = "CANCELLED"
         /\ shipment.is.status = "ON_HOLD" =>
              At1(last - 1).status = shipment.is.previousStatus
    BY <2>4, <2>9, <2>10, <2>11, <2>12
  <2> USE DEF service, events, At1, last
  <2> QED
    BY <2>4, <2>13, <2>14
<1> QED
  BY <1>2, <1>3

\* When a full run has ended, all that it tells is there.
LEMMA AllIsTold ==
  ASSUME ToldInv, FillingInv, Complete, NEW story \in Stories,
         NEW told \in SUBSET Stories,
         db["shipment_events"] = UNION {EventsOf(one) : one \in told}
  PROVE  /\ story \in told
         /\ story.pays # << >> => \E row \in db["payments"] : row.id = story.id
<1>1. /\ IsSequence(FullProgram) /\ Program = FullProgram
      /\ \A statement \in StatementsOf(story) : statement \in Elements(FullProgram)
  BY FullElements DEF Complete, Program
<1>2. PICK n \in Nat : n = Len(FullProgram) /\ DOMAIN FullProgram = 1 .. n /\ seed.at = n + 1
  BY <1>1, SequenceIs DEF Complete, Finished
<1>3. Found(FullProgram, n + 1)
  BY <1>1, <1>2 DEF FillingInv
<1>4. ASSUME NEW statement \in StatementsOf(story), NEW pair \in Writes(statement),
             pair[1] # "files"
      PROVE  \E row \in db[pair[1]] : row.id = pair[2]
  <2>1. PICK j \in 1 .. n : statement = FullProgram[j]
    BY <1>1, <1>2 DEF Elements
  <2>2. j \in 1 .. ((n + 1) - 1)
    BY <1>2
  <2>3. pair \in Before(FullProgram, n + 1)
    BY <1>4, <2>1, <2>2 DEF Before
  <2> QED
    BY <1>3, <1>4, <2>3 DEF Found, Ids
<1>5. Legal(story) /\ IsSequence(story.steps)
  BY StoriesAreTrue DEF Legal
<1>6. \E row \in db["shipment_events"] : row.id = <<story.id, 1>>
  <2>1. PICK statement : statement = ShipmentStatement(story)
    OBVIOUS
  <2>2. /\ statement \in StatementsOf(story) /\ statement.do = "create"
        /\ RowsIn(statement, "shipment_events") = EventsOf(story)
    BY <1>5, <2>1, ShipmentTells DEF StatementsOf, Tells
  <2>3. EventRow(story, 1) \in EventsOf(story)
    <3>1. 1 \in 1 .. Len(story.steps)
      BY <1>5, SequenceIs DEF Legal
    <3> QED
      BY <3>1 DEF EventsOf
  <2>4. PICK i \in DOMAIN statement.rows :
          statement.rows[i].table = "shipment_events" /\ statement.rows[i].row = EventRow(story, 1)
    BY <2>2, <2>3 DEF RowsIn
  <2>5. PICK pair : pair = <<"shipment_events", <<story.id, 1>>>>
    OBVIOUS
  <2>6. pair \in Writes(statement)
    BY <2>2, <2>4, <2>5 DEF Writes, EventRow
  <2>7. pair[1] = "shipment_events" /\ pair[2] = <<story.id, 1>>
    BY <2>5
  <2> QED
    BY <1>4, <2>2, <2>6, <2>7
<1>7. story \in told
  <2>1. PICK row \in db["shipment_events"] : row.id = <<story.id, 1>>
    BY <1>6
  <2>2. PICK one \in told : row \in EventsOf(one)
    BY <2>1
  <2>3. row.id[1] = one.id
    BY <2>2 DEF EventsOf, EventRow
  <2>4. row.id[1] = story.id
    BY <2>1
  <2> QED
    BY <2>2, <2>3, <2>4, StoriesApart
<1>8. ASSUME story.pays # << >>
      PROVE  \E row \in db["payments"] : row.id = story.id
  <2>1. PICK statement \in Elements(PaymentStatements(story)) :
          <<"payments", story.id>> \in Writes(statement)
    BY <1>8, PaymentTells
  <2>2. statement \in StatementsOf(story)
    BY <1>8, <2>1 DEF StatementsOf
  <2>3. PICK pair : pair = <<"payments", story.id>>
    OBVIOUS
  <2>4. pair \in Writes(statement) /\ pair[1] = "payments" /\ pair[2] = story.id
    BY <2>1, <2>3
  <2> QED
    BY <1>4, <2>2, <2>4
<1> QED
  BY <1>7, <1>8

LEMMA ToldAgrees == ToldInv /\ FillingInv => SeededBillsAgree
<1> SUFFICES ASSUME ToldInv, FillingInv, Complete, NEW shipment \in db["shipments"]
             PROVE
    LET is       == shipment.is
        rate     == routeOf(shipment.of["routes"]).rate
        own      == {row.is : row \in {p \in db["payments"] : p.id = shipment.id}}
        verified == {payment \in own : payment.status = "VERIFIED"}
        paid     == {row.is : row \in {e \in db["shipment_events"] :
                       e.of["shipments"] = shipment.id /\ e.is.status = "PAID"}}
    IN  /\ is.totalAmount = calculateTariff(is.declaredWeight, rate).total
        /\ is.paymentStatus = "PAID" <=> verified # {}
        /\ is.paymentStatus = "PAID" <=> paid # {}
        /\ is.outstandingAmount = IF verified = {} THEN is.totalAmount ELSE 0
        /\ is.paymentStatus = "WAITING_VERIFICATION" <=> own # {} /\ verified = {}
        /\ \A payment \in verified, event \in paid :
             /\ payment.claimedAmount = is.totalAmount
             /\ payment.verifiedAgo <= is.createdAgo
             /\ event.ago <= payment.verifiedAgo
  BY DEF SeededBillsAgree
<1> DEFINE is       == shipment.is
           rate     == routeOf(shipment.of["routes"]).rate
           own      == {row.is : row \in {p \in db["payments"] : p.id = shipment.id}}
           verified == {payment \in own : payment.status = "VERIFIED"}
           paid     == {row.is : row \in {e \in db["shipment_events"] :
                          e.of["shipments"] = shipment.id /\ e.is.status = "PAID"}}
<1>1. PICK told \in SUBSET Stories :
        db["shipment_events"] = UNION {EventsOf(story) : story \in told}
  BY DEF ToldInv
<1>2. PICK story \in Stories : shipment = ShipmentOf(story)
  <2>1. shipment.id[1] # "visitor"
    BY DEF Complete, NoVisitor, Ids
  <2> QED
    BY <2>1 DEF ToldInv
<1>3. /\ shipment.id = story.id /\ shipment.is = story.is
      /\ shipment.of["routes"] = story.code
  BY <1>2 DEF ShipmentOf
<1>4. Billed(story) /\ IsSequence(story.steps)
  BY StoriesAreTrue DEF Legal
<1>5. /\ story \in told
      /\ story.pays # << >> => \E row \in db["payments"] : row.id = story.id
  BY <1>1, AllIsTold
<1>6. \A row \in db["payments"] : row.id = story.id => story.pays # << >> /\ row = PaymentOf(story)
  <2> SUFFICES ASSUME NEW row \in db["payments"], row.id = story.id
               PROVE  story.pays # << >> /\ row = PaymentOf(story)
    OBVIOUS
  <2>1. PICK one \in Stories : one.pays # << >> /\ row = PaymentOf(one)
    BY DEF ToldInv
  <2>2. one.id = story.id
    BY <2>1 DEF PaymentOf
  <2> QED
    BY <2>1, <2>2, StoriesApart
<1>7. own = IF story.pays = << >> THEN {} ELSE {story.pays[1]}
  BY <1>3, <1>5, <1>6 DEF PaymentOf
<1>8. PICK n \in Nat : n = Len(story.steps)
  BY <1>4, SequenceIs
<1>9. paid = {story.steps[k] : k \in {j \in 1 .. n : story.steps[j].status = "PAID"}}
  <2>1. {row \in db["shipment_events"] : row.of["shipments"] = shipment.id} = EventsOf(story)
    BY <1>1, <1>3, <1>5, EventsFound
  <2>2. paid = {row.is : row \in {e \in EventsOf(story) : e.is.status = "PAID"}}
    BY <2>1
  <2>3. \A k : EventRow(story, k).is = story.steps[k]
    BY DEF EventRow
  <2>4. EventsOf(story) = {EventRow(story, k) : k \in 1 .. n}
    BY <1>8 DEF EventsOf
  <2>5. PICK steps : steps = {story.steps[k] : k \in {j \in 1 .. n : story.steps[j].status = "PAID"}}
    OBVIOUS
  <2> HIDE DEF paid
  <2>6. ASSUME NEW event \in paid
        PROVE  event \in steps
    <3>1. PICK row \in EventsOf(story) : row.is.status = "PAID" /\ event = row.is
      BY <2>2, <2>6
    <3>2. PICK k \in 1 .. n : row = EventRow(story, k)
      BY <2>4
    <3> QED
      BY <2>3, <2>5, <3>1, <3>2
  <2>7. ASSUME NEW k \in 1 .. n, story.steps[k].status = "PAID"
        PROVE  story.steps[k] \in paid
    <3>1. PICK row : row = EventRow(story, k) /\ row \in EventsOf(story)
      BY <2>4
    <3>2. row.is = story.steps[k]
      BY <2>3, <3>1
    <3> QED
      BY <2>2, <2>7, <3>1, <3>2
  <2>8. steps \subseteq paid
    BY <2>5, <2>7
  <2> QED
    BY <2>5, <2>6, <2>8
<1>10. PICK isVerified :
         isVerified = (story.pays # << >> /\ story.pays[1].status = "VERIFIED")
  OBVIOUS
<1>11. verified = IF isVerified THEN {story.pays[1]} ELSE {}
  BY <1>7, <1>10
<1>12. paid # {} <=> \E k \in 1 .. n : story.steps[k].status = "PAID"
  BY <1>9
<1>13. /\ is = story.is /\ rate = routeOf(story.code).rate
  BY <1>3
<1>14. /\ story.is.totalAmount =
            calculateTariff(story.is.declaredWeight, routeOf(story.code).rate).total
       /\ story.is.paymentStatus = "PAID" <=> isVerified
       /\ story.is.paymentStatus = "PAID" <=> \E k \in 1 .. n : story.steps[k].status = "PAID"
       /\ story.is.outstandingAmount = IF isVerified THEN 0 ELSE story.is.totalAmount
       /\ story.is.paymentStatus = "WAITING_VERIFICATION" <=> story.pays # << >> /\ ~isVerified
       /\ isVerified =>
            /\ story.pays[1].claimedAmount = story.is.totalAmount
            /\ story.pays[1].verifiedAgo <= story.is.createdAgo
            /\ \A k \in 1 .. n :
                 story.steps[k].status = "PAID" => story.steps[k].ago <= story.pays[1].verifiedAgo
  BY <1>4, <1>8, <1>10 DEF Billed
<1> HIDE DEF is, rate, own, verified, paid
<1>15. /\ own # {} <=> story.pays # << >>
       /\ verified # {} <=> isVerified
  BY <1>7, <1>11
<1>16. /\ is.totalAmount = calculateTariff(is.declaredWeight, rate).total
       /\ is.paymentStatus = "PAID" <=> verified # {}
       /\ is.paymentStatus = "PAID" <=> paid # {}
       /\ is.outstandingAmount = IF verified = {} THEN is.totalAmount ELSE 0
       /\ is.paymentStatus = "WAITING_VERIFICATION" <=> own # {} /\ verified = {}
  BY <1>12, <1>13, <1>14, <1>15
<1>17. ASSUME NEW payment \in verified, NEW event \in paid
       PROVE  /\ payment.claimedAmount = is.totalAmount
              /\ payment.verifiedAgo <= is.createdAgo
              /\ event.ago <= payment.verifiedAgo
  <2>1. payment = story.pays[1] /\ isVerified
    BY <1>11
  <2>2. PICK k \in 1 .. n : story.steps[k].status = "PAID" /\ event = story.steps[k]
    BY <1>9
  <2> QED
    BY <1>13, <1>14, <2>1, <2>2
<1> USE DEF is, rate, own, verified, paid
<1> QED
  BY <1>16, <1>17

\* Whatever moment one looks at, also between two runs of the seed or while people
\* book: the timeline of every shipment could have happened, step by step, and no
\* timeline is half there (createShipment, seedOperationalShipments).
THEOREM SeededHistoryIsAlwaysLegal == SeedingSpec => []SeededHistoryIsLegal
BY ToldCorrect, ToldIsLegal, PTL

\* When a run has come to its end, each of the 40 bills is the tariff of its route, and
\* its payment and its timeline agree with it, whatever earlier runs left behind
\* (createShipment, createPayment, seedOperationalShipments).
THEOREM SeededBillsAlwaysAgree == SeedingSpec => []SeededBillsAgree
BY ToldCorrect, FillingCorrect, ToldAgrees, PTL

-------------------------------------------------------------------------------
(* The figures of the plan.                                                *)

\* An entry in a status, and one whose payment waits.
Stands(index, status, days) ==
  LET plan == OPERATIONAL_PLAN[index]
  IN  /\ plan.status = status /\ plan.staleDays = days /\ plan.weight \in Nat
      /\ plan.awaitingVerification = FALSE /\ plan.claimedDelta = 0

Awaits(index, days, delta) ==
  LET plan == OPERATIONAL_PLAN[index]
  IN  /\ plan.status = "PENDING_PAYMENT" /\ plan.staleDays = days /\ plan.weight \in Nat
      /\ plan.awaitingVerification = TRUE /\ plan.claimedDelta = delta

\* The entries that the figures on the dashboards are about.
Figures(index) ==
  LET plan == OPERATIONAL_PLAN[index]
  IN  /\ plan.weight \in Nat /\ plan.staleDays \in Nat /\ plan.claimedDelta \in Int
      /\ plan.status \in Status
      /\ plan.status = "ON_HOLD" <=> index \in {34, 35}
      /\ plan.status \notin {"DELIVERED", "CANCELLED"} /\ plan.staleDays >= 4
           <=> index \in {2, 6, 8, 12, 16, 18, 20, 23, 27, 34}
      /\ index \notin {3, 4, 5, 6} => plan.awaitingVerification = FALSE
      /\ index \in {3, 4, 5, 6} =>
           plan.awaitingVerification = TRUE /\ plan.status = "PENDING_PAYMENT"
      /\ plan.claimedDelta # 0 <=> index = 5

LEMMA AwaitingWaits ==
  ASSUME NEW index, NEW weight \in Nat, NEW code, NEW days, NEW delta,
         OPERATIONAL_PLAN[index] = Awaiting(code, weight, days, delta)
  PROVE  Awaits(index, days, delta)
<1>1. PICK entry : entry = Entry("PENDING_PAYMENT", code, weight, days)
  OBVIOUS
<1>2. /\ {"status", "staleDays", "weight", "awaitingVerification", "claimedDelta"}
           \subseteq DOMAIN entry
      /\ entry.status = "PENDING_PAYMENT" /\ entry.staleDays = days /\ entry.weight = weight
  BY <1>1 DEF Entry
<1>3. PICK plan : plan = OPERATIONAL_PLAN[index]
  OBVIOUS
<1>4. plan = [entry EXCEPT !.awaitingVerification = TRUE, !.claimedDelta = delta]
  BY <1>1, <1>3 DEF Awaiting
<1>5. /\ plan.status = "PENDING_PAYMENT" /\ plan.staleDays = days /\ plan.weight = weight
      /\ plan.awaitingVerification = TRUE /\ plan.claimedDelta = delta
  BY <1>2, <1>4
<1> QED
  BY <1>3, <1>5 DEF Awaits

LEMMA OnHoldStands ==
  ASSUME NEW index, NEW weight \in Nat, NEW code, NEW days, NEW previous,
         OPERATIONAL_PLAN[index] = OnHold(code, weight, days, previous)
  PROVE  Stands(index, "ON_HOLD", days)
<1>1. PICK entry : entry = Entry("ON_HOLD", code, weight, days)
  OBVIOUS
<1>2. /\ {"status", "staleDays", "weight", "awaitingVerification", "claimedDelta",
           "previousStatus"} \subseteq DOMAIN entry
      /\ entry.status = "ON_HOLD" /\ entry.staleDays = days /\ entry.weight = weight
      /\ entry.awaitingVerification = FALSE /\ entry.claimedDelta = 0
  BY <1>1 DEF Entry
<1>3. PICK plan : plan = OPERATIONAL_PLAN[index]
  OBVIOUS
<1>4. plan = [entry EXCEPT !.previousStatus = previous]
  BY <1>1, <1>3 DEF OnHold
<1>5. /\ plan.status = "ON_HOLD" /\ plan.staleDays = days /\ plan.weight = weight
      /\ plan.awaitingVerification = FALSE /\ plan.claimedDelta = 0
  BY <1>2, <1>4
<1> QED
  BY <1>3, <1>5 DEF Stands

LEMMA PlanFigures == \A index \in 1 .. 37 : Figures(index)
<1>1. /\ OPERATIONAL_PLAN[1] = Entry("PENDING_PAYMENT", "UPG", 80, 1)
      /\ OPERATIONAL_PLAN[2] = Entry("PENDING_PAYMENT", "JATIM", 30, 5)
      /\ OPERATIONAL_PLAN[7] = Entry("PAID", "UPG", 220, 1)
      /\ OPERATIONAL_PLAN[8] = Entry("PAID", "JABAR", 90, 5)
      /\ OPERATIONAL_PLAN[9] = Entry("PAID", "MDC", 110, 2)
      /\ OPERATIONAL_PLAN[10] = Entry("RECEIVED_AT_WAREHOUSE", "UPG", 300, 1)
  BY DEF OPERATIONAL_PLAN
<1>2. /\ Stands(1, "PENDING_PAYMENT", 1)
      /\ Stands(2, "PENDING_PAYMENT", 5)
      /\ Stands(7, "PAID", 1)
      /\ Stands(8, "PAID", 5)
      /\ Stands(9, "PAID", 2)
      /\ Stands(10, "RECEIVED_AT_WAREHOUSE", 1)
  BY <1>1 DEF Stands, Entry
<1>3. /\ Figures(1) /\ Figures(2) /\ Figures(7)
      /\ Figures(8) /\ Figures(9) /\ Figures(10)
  BY <1>2 DEF Stands, Awaits, Figures, Status
<1>4. /\ OPERATIONAL_PLAN[11] = Entry("RECEIVED_AT_WAREHOUSE", "PLW", 180, 2)
      /\ OPERATIONAL_PLAN[12] = Entry("RECEIVED_AT_WAREHOUSE", "MDC", 250, 6)
      /\ OPERATIONAL_PLAN[13] = Entry("RECEIVED_AT_WAREHOUSE", "JATIM", 70, 1)
      /\ OPERATIONAL_PLAN[14] = Entry("RECEIVED_AT_WAREHOUSE", "JATENG_DIY", 120, 1)
      /\ OPERATIONAL_PLAN[15] = Entry("IN_TRANSIT", "UPG", 400, 1)
      /\ OPERATIONAL_PLAN[16] = Entry("IN_TRANSIT", "PLW", 160, 4)
  BY DEF OPERATIONAL_PLAN
<1>5. /\ Stands(11, "RECEIVED_AT_WAREHOUSE", 2)
      /\ Stands(12, "RECEIVED_AT_WAREHOUSE", 6)
      /\ Stands(13, "RECEIVED_AT_WAREHOUSE", 1)
      /\ Stands(14, "RECEIVED_AT_WAREHOUSE", 1)
      /\ Stands(15, "IN_TRANSIT", 1)
      /\ Stands(16, "IN_TRANSIT", 4)
  BY <1>4 DEF Stands, Entry
<1>6. /\ Figures(11) /\ Figures(12) /\ Figures(13)
      /\ Figures(14) /\ Figures(15) /\ Figures(16)
  BY <1>5 DEF Stands, Awaits, Figures, Status
<1>7. /\ OPERATIONAL_PLAN[17] = Entry("IN_TRANSIT", "MDC", 95, 2)
      /\ OPERATIONAL_PLAN[18] = Entry("IN_TRANSIT", "JABAR", 50, 7)
      /\ OPERATIONAL_PLAN[19] = Entry("ARRIVED_AT_DESTINATION", "UPG", 140, 1)
      /\ OPERATIONAL_PLAN[20] = Entry("ARRIVED_AT_DESTINATION", "PLW", 200, 5)
      /\ OPERATIONAL_PLAN[21] = Entry("ARRIVED_AT_DESTINATION", "JATIM", 65, 2)
      /\ OPERATIONAL_PLAN[22] = Entry("READY_FOR_PICKUP", "UPG", 130, 3)
  BY DEF OPERATIONAL_PLAN
<1>8. /\ Stands(17, "IN_TRANSIT", 2)
      /\ Stands(18, "IN_TRANSIT", 7)
      /\ Stands(19, "ARRIVED_AT_DESTINATION", 1)
      /\ Stands(20, "ARRIVED_AT_DESTINATION", 5)
      /\ Stands(21, "ARRIVED_AT_DESTINATION", 2)
      /\ Stands(22, "READY_FOR_PICKUP", 3)
  BY <1>7 DEF Stands, Entry
<1>9. /\ Figures(17) /\ Figures(18) /\ Figures(19)
      /\ Figures(20) /\ Figures(21) /\ Figures(22)
  BY <1>8 DEF Stands, Awaits, Figures, Status
<1>10. /\ OPERATIONAL_PLAN[23] = Entry("READY_FOR_PICKUP", "MDC", 170, 8)
       /\ OPERATIONAL_PLAN[24] = Entry("READY_FOR_PICKUP", "PLW", 100, 1)
       /\ OPERATIONAL_PLAN[25] = Entry("OUT_FOR_DELIVERY", "JABODETABEK", 35, 1)
       /\ OPERATIONAL_PLAN[26] = Entry("OUT_FOR_DELIVERY", "JATENG_DIY", 80, 1)
       /\ OPERATIONAL_PLAN[27] = Entry("OUT_FOR_DELIVERY", "JATIM", 55, 4)
       /\ OPERATIONAL_PLAN[28] = Entry("DELIVERED", "UPG", 190, 12)
  BY DEF OPERATIONAL_PLAN
<1>11. /\ Stands(23, "READY_FOR_PICKUP", 8)
       /\ Stands(24, "READY_FOR_PICKUP", 1)
       /\ Stands(25, "OUT_FOR_DELIVERY", 1)
       /\ Stands(26, "OUT_FOR_DELIVERY", 1)
       /\ Stands(27, "OUT_FOR_DELIVERY", 4)
       /\ Stands(28, "DELIVERED", 12)
  BY <1>10 DEF Stands, Entry
<1>12. /\ Figures(23) /\ Figures(24) /\ Figures(25)
       /\ Figures(26) /\ Figures(27) /\ Figures(28)
  BY <1>11 DEF Stands, Awaits, Figures, Status
<1>13. /\ OPERATIONAL_PLAN[29] = Entry("DELIVERED", "PLW", 80, 20)
       /\ OPERATIONAL_PLAN[30] = Entry("DELIVERED", "MDC", 260, 15)
       /\ OPERATIONAL_PLAN[31] = Entry("DELIVERED", "JABODETABEK", 40, 9)
       /\ OPERATIONAL_PLAN[32] = Entry("DELIVERED", "JATIM", 110, 30)
       /\ OPERATIONAL_PLAN[33] = Entry("DELIVERED", "JABAR", 75, 18)
       /\ OPERATIONAL_PLAN[36] = Entry("CANCELLED", "UPG", 60, 14)
  BY DEF OPERATIONAL_PLAN
<1>14. /\ Stands(29, "DELIVERED", 20)
       /\ Stands(30, "DELIVERED", 15)
       /\ Stands(31, "DELIVERED", 9)
       /\ Stands(32, "DELIVERED", 30)
       /\ Stands(33, "DELIVERED", 18)
       /\ Stands(36, "CANCELLED", 14)
  BY <1>13 DEF Stands, Entry
<1>15. /\ Figures(29) /\ Figures(30) /\ Figures(31)
       /\ Figures(32) /\ Figures(33) /\ Figures(36)
  BY <1>14 DEF Stands, Awaits, Figures, Status
<1>16. /\ OPERATIONAL_PLAN[37] = Entry("CANCELLED", "JATENG_DIY", 30, 22)
  BY DEF OPERATIONAL_PLAN
<1>17. /\ Stands(37, "CANCELLED", 22)
  BY <1>16 DEF Stands, Entry
<1>18. /\ Figures(37)
  BY <1>17 DEF Stands, Awaits, Figures, Status
<1>19. /\ OPERATIONAL_PLAN[3] = Awaiting("PLW", 150, 1, 0)
       /\ OPERATIONAL_PLAN[4] = Awaiting("MDC", 60, 2, 0)
  BY DEF OPERATIONAL_PLAN
<1>20. /\ Awaits(3, 1, 0)
       /\ Awaits(4, 2, 0)
  BY <1>19, AwaitingWaits
<1>21. /\ Figures(3) /\ Figures(4)
  BY <1>20 DEF Stands, Awaits, Figures, Status
<1>22. PICK delta \in Int : delta = -50000
  OBVIOUS
<1>23. /\ OPERATIONAL_PLAN[5] = Awaiting("JATENG_DIY", 45, 3, delta)
       /\ OPERATIONAL_PLAN[6] = Awaiting("JABODETABEK", 20, 4, 0)
  BY <1>22 DEF OPERATIONAL_PLAN
<1>24. /\ Awaits(5, 3, delta)
       /\ Awaits(6, 4, 0)
  BY <1>23, AwaitingWaits
<1>25. /\ Figures(5) /\ Figures(6)
  BY <1>22, <1>24 DEF Stands, Awaits, Figures, Status
<1>26. /\ OPERATIONAL_PLAN[34] = OnHold("MDC", 210, 6, "IN_TRANSIT")
       /\ OPERATIONAL_PLAN[35] = OnHold("JATIM", 40, 2, "OUT_FOR_DELIVERY")
  BY DEF OPERATIONAL_PLAN
<1>27. /\ Stands(34, "ON_HOLD", 6)
       /\ Stands(35, "ON_HOLD", 2)
  BY <1>26, OnHoldStands
<1>28. /\ Figures(34) /\ Figures(35)
  BY <1>27 DEF Stands, Awaits, Figures, Status
<1> QED
  BY <1>3, <1>6, <1>9, <1>12, <1>15, <1>18, <1>21, <1>25, <1>28

-------------------------------------------------------------------------------
(* The tables when a full run has ended.                                   *)

\* The statements of a story write its own rows.
LEMMA StoryWrites ==
  ASSUME NEW story \in Stories
  PROVE  /\ <<"shipments", story.id>> \in Writes(ShipmentStatement(story))
         /\ \A statement \in StatementsOf(story) : \A pair \in Writes(statement) :
              pair[1] \in {"shipments", "shipment_items", "shipment_events", "files",
                           "attachments", "payments"}
<1>1. PICK block :
        block = createShipment(story.id, story.user, story.code, story.is, story.steps)
  OBVIOUS
<1>2. IsSequence(story.steps)
  BY StoriesAreTrue DEF Legal
<1>3. /\ Elements(block) = {ShipmentStatement(story)}
      /\ <<"shipments", story.id>> \in Adds(block)
      /\ \A pair \in Adds(block) :
           pair[1] \in {"shipments", "shipment_items", "shipment_events"}
  <2>1. Elements(block) = {block[1]}
    BY <1>1, <1>2, ShipmentElements
  <2>2. /\ <<"shipments", story.id>> \in Adds(block)
        /\ \A pair \in Adds(block) :
             pair[1] \in {"shipments", "shipment_items", "shipment_events"}
    BY <1>1, <1>2, ShipmentFits
  <2> QED
    BY <1>1, <2>1, <2>2 DEF ShipmentStatement
<1>4. \A s : Adds(s) = UNION {Writes(statement) : statement \in Elements(s)}
  BY DEF Adds, Elements
<1>5. Adds(block) = Writes(ShipmentStatement(story))
  BY <1>3, <1>4
<1>6. ASSUME NEW statement \in Elements(PaymentStatements(story)), NEW pair \in Writes(statement)
      PROVE  pair[1] \in {"files", "attachments", "payments"}
  <2>1. pair \in Adds(PaymentStatements(story))
    BY <1>4
  <2>2. Adds(PaymentStatements(story)) \subseteq {"files", "attachments", "payments"} \X {story.id}
    BY PaymentFits DEF PaymentStatements
  <2> QED
    BY <2>1, <2>2
<1> QED
  BY <1>3, <1>5, <1>6 DEF StatementsOf

\* The keys that the whole program writes in the tables of accounts and routes.
LEMMA FullWrites ==
  ASSUME NEW id
  PROVE  /\ <<"users", id>> \in Adds(FullProgram) <=> id = "admin" \/ id \in Accounts
         /\ <<"routes", id>> \in Adds(FullProgram) <=> id \in Codes
         /\ <<"rates", id>> \in Adds(FullProgram) <=> id \in Codes
<1>1. \A s : Adds(s) = UNION {Writes(statement) : statement \in Elements(s)}
  BY DEF Adds, Elements
<1>2. PICK told : told = UNION {StatementsOf(story) : story \in Stories}
  OBVIOUS
<1>3. PICK others : others = UNION {Writes(statement) : statement \in told}
  OBVIOUS
<1>4. Adds(FullProgram)
        = Adds(MinimalProgram) \cup Adds(seedUsers) \cup Adds(seedRecipients) \cup others
  <2>1. PICK a, b, c : /\ a = Elements(MinimalProgram) /\ b = Elements(seedUsers)
                       /\ c = Elements(seedRecipients)
    OBVIOUS
  <2>2. Elements(FullProgram) = a \cup b \cup c \cup told
    BY <1>2, <2>1, FullElements DEF Preliminaries
  <2>3. UNION {Writes(statement) : statement \in a \cup b \cup c \cup told}
          = (UNION {Writes(statement) : statement \in a})
              \cup (UNION {Writes(statement) : statement \in b})
              \cup (UNION {Writes(statement) : statement \in c})
              \cup (UNION {Writes(statement) : statement \in told})
    OBVIOUS
  <2> QED
    BY <1>1, <1>3, <2>1, <2>2, <2>3
<1>5. \A pair \in others : pair[1] \notin {"users", "routes", "rates"}
  <2> SUFFICES ASSUME NEW pair \in others
               PROVE  pair[1] \notin {"users", "routes", "rates"}
    OBVIOUS
  <2>1. PICK statement \in told : pair \in Writes(statement)
    BY <1>3
  <2>2. PICK story \in Stories : statement \in StatementsOf(story)
    BY <1>2
  <2>3. pair[1] \in {"shipments", "shipment_items", "shipment_events", "files",
                     "attachments", "payments"}
    BY <2>1, <2>2, StoryWrites
  <2> QED
    BY <2>3
<1>6. Adds(MinimalProgram) = ({"routes", "rates"} \X Codes) \cup {<<"users", "admin">>}
  BY MinimalIsSeedlike
<1>7. /\ {"users"} \X Accounts \subseteq Adds(seedUsers)
      /\ Adds(seedUsers) \subseteq {"users", "agent_profiles"} \X Accounts
  BY UsersFit
<1>8. \A pair \in Adds(seedRecipients) : pair[1] = "recipients"
  <2>1. PICK known : known = {"users"} \X Accounts
    OBVIOUS
  <2>2. {"users"} \X Accounts \subseteq known /\ \A pair \in known : pair[1] # "recipients"
    BY <2>1
  <2> QED
    BY <2>2, RecipientsFit
<1>9. ASSUME NEW table \in {"users", "routes", "rates"}
      PROVE  /\ <<table, id>> \notin others /\ <<table, id>> \notin Adds(seedRecipients)
             /\ <<table, id>> \in Adds(seedUsers) <=> table = "users" /\ id \in Accounts
             /\ <<table, id>> \in Adds(MinimalProgram) <=>
                  \/ table = "users" /\ id = "admin"
                  \/ table # "users" /\ id \in Codes
  <2>1. PICK pair : pair = <<table, id>>
    OBVIOUS
  <2>5. pair[1] = table
    BY <2>1
  <2>2. pair \notin others /\ pair \notin Adds(seedRecipients)
    BY <1>5, <1>8, <2>5
  <2>3. <<table, id>> \in Adds(seedUsers) <=> table = "users" /\ id \in Accounts
    BY <1>7
  <2>4. <<table, id>> \in Adds(MinimalProgram) <=>
          \/ table = "users" /\ id = "admin"
          \/ table # "users" /\ id \in Codes
    BY <1>6
  <2> QED
    BY <2>1, <2>2, <2>3, <2>4
<1> QED
  BY <1>4, <1>9

\* The shipments and the payments that are told.
Shipments == {ShipmentOf(story) : story \in Stories}
Payments  == {PaymentOf(story) : story \in {one \in Stories : one.pays # << >>}}

\* All the tables that the figures are about.
LEMMA CompleteTables ==
  ASSUME ToldInv, FillingInv, Complete
  PROVE  /\ db["shipments"] = Shipments /\ db["payments"] = Payments
         /\ Ids("users") = {"admin"} \cup Accounts
         /\ Ids("routes") = Codes /\ Ids("rates") = Codes
<1>1. /\ IsSequence(FullProgram) /\ Program = FullProgram /\ Seedlike(FullProgram)
  BY FullElements, FullIsSeedlike DEF Complete, Program
<1>2. PICK n \in Nat :
        n = Len(FullProgram) /\ DOMAIN FullProgram = 1 .. n /\ seed.at = n + 1 /\ n >= 12
  BY <1>1, SequenceIs DEF Complete, Finished, Seedlike
<1>3. Found(FullProgram, n + 1)
  BY <1>1, <1>2 DEF FillingInv
<1>4. Before(FullProgram, n + 1) = Adds(FullProgram)
  <2>1. 1 .. ((n + 1) - 1) = DOMAIN FullProgram
    BY <1>2
  <2> QED
    BY <2>1 DEF Before, Adds
<1>5. \A table \in Tables : Cleaned(table, n + 1)
  <2>1. \A j \in 1 .. 12 : j < n + 1
    BY <1>2
  <2> QED
    BY <2>1, CleanOrder DEF Cleaned
<1>6. ASSUME NEW table \in Tables, NEW id, ~Visits(table, id)
      PROVE  id \in Ids(table) <=> <<table, id>> \in Adds(FullProgram)
  <2>1. id \in Ids(table) => <<table, id>> \in Adds(FullProgram)
    BY <1>3, <1>4, <1>5, <1>6 DEF Found
  <2>2. ASSUME <<table, id>> \in Adds(FullProgram)
        PROVE  id \in Ids(table)
    <3>1. PICK pair : pair = <<table, id>>
      OBVIOUS
    <3>3. pair[1] = table /\ pair[2] = id
      BY <3>1
    <3>2. pair \in Before(FullProgram, n + 1) /\ pair[1] # "files"
      BY <1>4, <1>6, <2>2, <3>1, <3>3 DEF Tables
    <3> QED
      BY <1>3, <3>2, <3>3 DEF Found
  <2> QED
    BY <2>1, <2>2
<1>7. Ids("users") = {"admin"} \cup Accounts
  <2>1. ASSUME NEW id \in Ids("users")
        PROVE  ~Visits("users", id)
    BY DEF Visits, Complete, NoVisitor
  <2>2. ASSUME NEW id, id = "admin" \/ id \in Accounts
        PROVE  ~Visits("users", id)
    BY <2>2, VisitorsAssumption DEF Visits, Accounts
  <2>3. "users" \in Tables
    BY DEF Tables
  <2>4. ASSUME NEW id
        PROVE  id \in Ids("users") <=> id = "admin" \/ id \in Accounts
    BY <1>6, <2>1, <2>2, <2>3, FullWrites
  <2> QED
    BY <2>4
<1>8. Ids("routes") = Codes /\ Ids("rates") = Codes
  <2>1. ASSUME NEW id
        PROVE  /\ id \in Ids("routes") <=> id \in Codes
               /\ id \in Ids("rates") <=> id \in Codes
    <3>1. "routes" \in Tables /\ "rates" \in Tables
      BY DEF Tables
    <3>2. ~Visits("routes", id) /\ ~Visits("rates", id)
      BY DEF Visits
    <3> QED
      BY <1>6, <3>1, <3>2, FullWrites
  <2> QED
    BY <2>1
<1>9. db["shipments"] = {ShipmentOf(story) : story \in Stories}
  <2>1. ASSUME NEW row \in db["shipments"]
        PROVE  row \in {ShipmentOf(story) : story \in Stories}
    <3>1. row.id[1] # "visitor"
      BY DEF Complete, NoVisitor, Ids
    <3> QED
      BY <3>1 DEF ToldInv
  <2>2. ASSUME NEW story \in Stories
        PROVE  ShipmentOf(story) \in db["shipments"]
    <3>1. <<"shipments", story.id>> \in Adds(FullProgram)
      <4>1. ShipmentStatement(story) \in Elements(FullProgram)
        BY FullElements DEF StatementsOf
      <4>2. <<"shipments", story.id>> \in Writes(ShipmentStatement(story))
        BY StoryWrites
      <4> QED
        BY <4>1, <4>2 DEF Adds, Elements
    <3>2. ~Visits("shipments", story.id) /\ "shipments" \in Tables
      BY StoriesAreTrue DEF Visits, Tables
    <3>3. PICK row \in db["shipments"] : row.id = story.id
      BY <1>6, <3>1, <3>2 DEF Ids
    <3>4. row.id[1] # "visitor"
      BY <3>3, StoriesAreTrue
    <3>5. PICK one \in Stories : row = ShipmentOf(one)
      BY <3>4 DEF ToldInv
    <3>6. one.id = story.id
      BY <3>3, <3>5 DEF ShipmentOf
    <3> QED
      BY <3>5, <3>6, StoriesApart
  <2> QED
    BY <2>1, <2>2
<1>10. db["payments"] = {PaymentOf(story) : story \in {one \in Stories : one.pays # << >>}}
  <2>1. ASSUME NEW story \in Stories, story.pays # << >>
        PROVE  PaymentOf(story) \in db["payments"]
    <3>1. PICK told \in SUBSET Stories :
            db["shipment_events"] = UNION {EventsOf(one) : one \in told}
      BY DEF ToldInv
    <3>2. PICK row \in db["payments"] : row.id = story.id
      BY <2>1, <3>1, AllIsTold
    <3>3. PICK one \in Stories : one.pays # << >> /\ row = PaymentOf(one)
      BY DEF ToldInv
    <3>4. one.id = story.id
      BY <3>2, <3>3 DEF PaymentOf
    <3> QED
      BY <3>3, <3>4, StoriesApart
  <2>2. \A row \in db["payments"] : \E story \in Stories : story.pays # << >> /\ row = PaymentOf(story)
    BY DEF ToldInv
  <2> QED
    BY <2>1, <2>2
<1> QED
  BY <1>7, <1>8, <1>9, <1>10 DEF Shipments, Payments

-------------------------------------------------------------------------------
(* The stories by number, and what the dashboards show of each.            *)

StoryAt(n) ==
  IF n = 1 THEN FirstStory
  ELSE IF n = 2 THEN SecondStory
  ELSE IF n = 3 THEN ThirdStory
  ELSE PlanStory(n - 3)

Waits(story) == story.pays # << >> /\ story.pays[1].status = "WAITING_VERIFICATION"

\* On hold, stalled, to verify, to verify with another amount than the bill, and Budi's.
Shown(story, n) ==
  /\ story.is.status \in Status
  /\ story.is.status = "ON_HOLD" <=> n \in {37, 38}
  /\ story.is.status \notin {"DELIVERED", "CANCELLED"} /\ story.is.updatedAgo >= 4
       <=> n \in {5, 9, 11, 15, 19, 21, 23, 26, 30, 37}
  /\ Waits(story) <=> n \in {6, 7, 8, 9}
  /\ Waits(story) => (story.pays[1].claimedAmount # story.is.totalAmount <=> n = 8)
  /\ story.user = "customer" <=> n \in {1, 2}

LEMMA StoriesNumbered ==
  /\ Stories = {StoryAt(n) : n \in 1 .. 40}
  /\ \A m, n \in 1 .. 40 : StoryAt(m).id = StoryAt(n).id => m = n
<1>1. DOMAIN OPERATIONAL_PLAN = 1 .. 37
  BY PlanIs
<1>2. /\ StoryAt(1) = FirstStory /\ StoryAt(2) = SecondStory /\ StoryAt(3) = ThirdStory
      /\ \A n \in 4 .. 40 : StoryAt(n) = PlanStory(n - 3)
  BY DEF StoryAt
<1>3. \A n \in 1 .. 40 : n \in {1, 2, 3} \/ n \in 4 .. 40
  OBVIOUS
<1>4. \A n \in 4 .. 40 : n - 3 \in 1 .. 37
  OBVIOUS
<1>5. \A n \in 1 .. 40 : StoryAt(n) \in Stories
  BY <1>1, <1>2, <1>3, <1>4 DEF Stories
<1>6. ASSUME NEW story \in Stories
      PROVE  \E n \in 1 .. 40 : story = StoryAt(n)
  <2>1. CASE story \in {FirstStory, SecondStory, ThirdStory}
    <3>1. 1 \in 1 .. 40 /\ 2 \in 1 .. 40 /\ 3 \in 1 .. 40
      OBVIOUS
    <3> QED
      BY <1>2, <2>1, <3>1
  <2>2. ASSUME NEW i \in 1 .. 37, story = PlanStory(i)
        PROVE  \E n \in 1 .. 40 : story = StoryAt(n)
    <3>1. i + 3 \in 4 .. 40 /\ i + 3 \in 1 .. 40 /\ (i + 3) - 3 = i
      OBVIOUS
    <3>2. StoryAt(i + 3) = PlanStory((i + 3) - 3)
      BY <1>2, <3>1
    <3>3. story = StoryAt(i + 3)
      BY <2>2, <3>1, <3>2
    <3> QED
      BY <3>1, <3>3
  <2> QED
    BY <1>1, <2>1, <2>2 DEF Stories
<1>7. /\ FirstStory.id = <<"shipment", 1>> /\ SecondStory.id = <<"shipment", 2>>
      /\ ThirdStory.id = <<"shipment", 3>>
      /\ \A i : PlanStory(i).id = <<"shipment-op", i - 1>>
  BY DEF FirstStory, SecondStory, ThirdStory, PlanStory, Story
<1>8. ASSUME NEW n \in 1 .. 40
      PROVE  /\ n <= 3 => StoryAt(n).id = <<"shipment", n>>
             /\ ~(n <= 3) => StoryAt(n).id = <<"shipment-op", (n - 3) - 1>>
  <2>1. /\ StoryAt(1).id = <<"shipment", 1>> /\ StoryAt(2).id = <<"shipment", 2>>
        /\ StoryAt(3).id = <<"shipment", 3>>
    BY <1>2, <1>7
  <2>2. n <= 3 => n = 1 \/ n = 2 \/ n = 3
    OBVIOUS
  <2>3. ~(n <= 3) => StoryAt(n) = PlanStory(n - 3)
    BY <1>2
  <2> QED
    BY <1>7, <2>1, <2>2, <2>3
<1>9. ASSUME NEW m \in 1 .. 40, NEW n \in 1 .. 40, StoryAt(m).id = StoryAt(n).id
      PROVE  m = n
  <2>1. \A k \in 1 .. 40 :
          /\ StoryAt(k).id[1] = IF k <= 3 THEN "shipment" ELSE "shipment-op"
          /\ StoryAt(k).id[2] = IF k <= 3 THEN k ELSE (k - 3) - 1
    <3> SUFFICES ASSUME NEW k \in 1 .. 40
                 PROVE  /\ StoryAt(k).id[1] = IF k <= 3 THEN "shipment" ELSE "shipment-op"
                        /\ StoryAt(k).id[2] = IF k <= 3 THEN k ELSE (k - 3) - 1
      OBVIOUS
    <3>1. CASE k <= 3
      <4>1. StoryAt(k).id = <<"shipment", k>>
        BY <1>8, <3>1
      <4> QED
        BY <3>1, <4>1
    <3>2. CASE ~(k <= 3)
      <4>1. StoryAt(k).id = <<"shipment-op", (k - 3) - 1>>
        BY <1>8, <3>2
      <4> QED
        BY <3>2, <4>1
    <3> QED
      BY <3>1, <3>2
  <2>2. m <= 3 <=> n <= 3
    <3>1. "shipment" # "shipment-op"
      OBVIOUS
    <3> QED
      BY <1>9, <2>1, <3>1
  <2>3. PICK x, y : x = StoryAt(m).id[2] /\ y = StoryAt(n).id[2]
    OBVIOUS
  <2>4. /\ x = IF m <= 3 THEN m ELSE (m - 3) - 1
        /\ y = IF n <= 3 THEN n ELSE (n - 3) - 1
        /\ x = y
    BY <1>9, <2>1, <2>3
  <2> QED
    BY <2>2, <2>4
<1> QED
  BY <1>5, <1>6, <1>9

LEMMA TotalsCount ==
  ASSUME NEW code \in Codes, NEW weight \in Nat
  PROVE  calculateRateFor(routeOf(code), weight).total \in Int
<1>1. PICK i \in DOMAIN ROUTES : code = ROUTES[i].code
  BY DEF Codes
<1>2. PICK rate : rate = routeOf(code).rate
  OBVIOUS
<1>3. rate = ROUTES[i].rate
  BY <1>1, <1>2, RouteIs
<1>4. rate.pricePerKg \in Nat /\ rate.minChargeableWeight \in Nat /\ rate.baseFee \in Nat
  <2>1. PICK price \in Nat :
          \E one : ROUTES[i] = Port(one, price) \/ ROUTES[i] = Door(one, price)
    BY CodesAre DEF ROUTES
  <2>2. PICK one : ROUTES[i] = Port(one, price) \/ ROUTES[i] = Door(one, price)
    BY <2>1
  <2> QED
    BY <1>3, <2>2 DEF Port, Door
<1>5. CeilKg(weight) \in Int
  BY DEF CeilKg
<1>6. PICK charged \in Int : charged = AtLeast(CeilKg(weight), rate.minChargeableWeight)
  BY <1>4, <1>5 DEF AtLeast
<1>7. PICK amount \in Int : amount = charged * rate.pricePerKg + rate.baseFee
  BY <1>4, <1>6
<1>8. RoundUp100(amount) \in Int
  BY DEF RoundUp100
<1>9. calculateRateFor(routeOf(code), weight).total = RoundUp100(amount)
  BY <1>2, <1>6, <1>7 DEF calculateRateFor
<1> QED
  BY <1>8, <1>9

\* The samples of the two customers.
LEMMA SamplesShown ==
  Shown(FirstStory, 1) /\ Shown(SecondStory, 2) /\ Shown(ThirdStory, 3)
<1>1. /\ FirstStory.is.status = "IN_TRANSIT" /\ FirstStory.is.updatedAgo = 1
      /\ FirstStory.user = "customer"
      /\ FirstStory.pays = <<Verified(calculateRateFor(routeOf("UPG"), 120).total, 4)>>
  BY DEF FirstStory, Story, ShipmentIs
<1>2. /\ SecondStory.is.status = "PENDING_PAYMENT" /\ SecondStory.is.updatedAgo = 1
      /\ SecondStory.user = "customer" /\ SecondStory.pays = << >>
  BY DEF SecondStory, Story, ShipmentIs
<1>3. /\ ThirdStory.is.status = "DELIVERED" /\ ThirdStory.user = "agent-approved"
      /\ ThirdStory.pays = <<Verified(calculateRateFor(routeOf("MDC"), 75).total, 26)>>
  BY DEF ThirdStory, Story, ShipmentIs
<1>4. ~Waits(FirstStory) /\ ~Waits(SecondStory) /\ ~Waits(ThirdStory)
  <2>1. FirstStory.pays[1].status = "VERIFIED" /\ ThirdStory.pays[1].status = "VERIFIED"
    BY <1>1, <1>3, BillIs
  <2> QED
    BY <1>2, <2>1 DEF Waits
<1> QED
  BY <1>1, <1>2, <1>3, <1>4 DEF Shown, Status

LEMMA PlanShown ==
  ASSUME NEW index \in 1 .. 37
  PROVE  Shown(PlanStory(index), index + 3)
<1>1. PICK plan, story, path, total, pays :
        /\ plan = OPERATIONAL_PLAN[index] /\ story = PlanStory(index)
        /\ path = filteredPath(plan)
        /\ total = calculateRateFor(routeOf(plan.destination), plan.weight).total
        /\ pays = operationalPayment(plan, calculateRateFor(routeOf(plan.destination),
                                                            plan.weight).total)
  OBVIOUS
<1>2. /\ story.is.status = plan.status /\ story.is.updatedAgo = plan.staleDays
      /\ story.is.totalAmount = total /\ story.pays = pays
      /\ story.user = OPERATIONAL_SENDERS[((index - 1) % Len(OPERATIONAL_SENDERS)) + 1]
  BY <1>1 DEF PlanStory, Story, ShipmentIs
<1>3. /\ plan.weight \in Nat /\ plan.staleDays \in Nat /\ plan.claimedDelta \in Int
      /\ plan.status \in Status
      /\ plan.status = "ON_HOLD" <=> index \in {34, 35}
      /\ plan.status \notin {"DELIVERED", "CANCELLED"} /\ plan.staleDays >= 4
           <=> index \in {2, 6, 8, 12, 16, 18, 20, 23, 27, 34}
      /\ index \notin {3, 4, 5, 6} => plan.awaitingVerification = FALSE
      /\ index \in {3, 4, 5, 6} =>
           plan.awaitingVerification = TRUE /\ plan.status = "PENDING_PAYMENT"
      /\ plan.claimedDelta # 0 <=> index = 5
  BY <1>1, PlanFigures DEF Figures
<1>4. story.user # "customer"
  <2>1. /\ Len(OPERATIONAL_SENDERS) = 4
        /\ OPERATIONAL_SENDERS[1] = "cust-dewi" /\ OPERATIONAL_SENDERS[2] = "cust-rahmat"
        /\ OPERATIONAL_SENDERS[3] = "agent-nusantara"
        /\ OPERATIONAL_SENDERS[4] = "cust-suspended"
    BY DEF OPERATIONAL_SENDERS
  <2>2. PICK turn \in 0 .. 3 : turn = (index - 1) % Len(OPERATIONAL_SENDERS)
    BY <2>1
  <2>3. turn + 1 \in {1, 2, 3, 4}
    OBVIOUS
  <2> QED
    BY <1>2, <2>1, <2>2, <2>3
<1>5. ASSUME plan.status = "PENDING_PAYMENT"
      PROVE  Contains(path, "PAID") = FALSE
  <2>1. SoundEntry(plan)
    BY <1>1, PlanIsSound, PlanIs
  <2>2. PICK service : Chain(path, service, "PENDING_PAYMENT")
    BY <1>1, <1>5, <2>1, EntryPath
  <2>3. PICK n \in Nat : n = Len(path) /\ n >= 1
    BY <2>2, SequenceIs DEF Chain
  <2>4. n \in 1 .. n
    BY <2>3
  <2>5. n = 1
    BY <2>2, <2>3, <2>4 DEF Chain
  <2>6. path[1] = "PENDING_PAYMENT"
    BY <2>2 DEF Chain
  <2> QED
    BY <2>3, <2>5, <2>6 DEF Contains
<1>6. PICK n \in Nat : n = index + 3
  OBVIOUS
<1>7. /\ n \in {37, 38} <=> index \in {34, 35}
      /\ n \in {5, 9, 11, 15, 19, 21, 23, 26, 30, 37}
           <=> index \in {2, 6, 8, 12, 16, 18, 20, 23, 27, 34}
      /\ n \in {6, 7, 8, 9} <=> index \in {3, 4, 5, 6}
      /\ n = 8 <=> index = 5
      /\ n \notin {1, 2}
  BY <1>6
<1>8. /\ story.is.status \in Status
      /\ story.is.status = "ON_HOLD" <=> n \in {37, 38}
      /\ story.is.status \notin {"DELIVERED", "CANCELLED"} /\ story.is.updatedAgo >= 4
           <=> n \in {5, 9, 11, 15, 19, 21, 23, 26, 30, 37}
      /\ story.user = "customer" <=> n \in {1, 2}
  BY <1>2, <1>3, <1>4, <1>7
<1>9. ASSUME index \in {3, 4, 5, 6}
      PROVE  Shown(story, n)
  <2>1. pays = <<Waiting(total + plan.claimedDelta)>>
    BY <1>1, <1>3, <1>5, <1>9 DEF operationalPayment
  <2>2. PICK bill : bill = Waiting(total + plan.claimedDelta)
    OBVIOUS
  <2>3. bill.status = "WAITING_VERIFICATION" /\ bill.claimedAmount = total + plan.claimedDelta
    BY <2>2 DEF Waiting
  <2>4. pays # << >> /\ pays[1] = bill
    BY <2>1, <2>2
  <2>5. Waits(story)
    BY <1>2, <2>3, <2>4 DEF Waits
  <2>6. total \in Int
    <3>1. plan.destination \in Codes
      BY <1>1, PlanIs
    <3> QED
      BY <1>1, <1>3, <3>1, TotalsCount
  <2>7. story.pays[1].claimedAmount # story.is.totalAmount <=> index = 5
    BY <1>2, <1>3, <2>3, <2>4, <2>6
  <2> QED
    BY <1>9, <1>7, <1>8, <2>5, <2>7 DEF Shown
<1>10. ASSUME index \notin {3, 4, 5, 6}
       PROVE  Shown(story, n)
  <2>1. ~Waits(story)
    <3>1. CASE pays = << >>
      BY <1>2, <3>1 DEF Waits
    <3>2. CASE pays # << >>
      <4>1. pays = <<Verified(total, createdDaysAgo(plan) - 1)>>
        BY <1>1, <1>3, <1>10, <3>2 DEF operationalPayment
      <4>2. pays[1].status = "VERIFIED"
        BY <4>1, BillIs
      <4> QED
        BY <1>2, <4>2 DEF Waits
    <3> QED
      BY <3>1, <3>2
  <2> QED
    BY <1>10, <1>7, <1>8, <2>1 DEF Shown
<1> QED
  BY <1>1, <1>9, <1>10, <1>6

LEMMA StoriesShown ==
  ASSUME NEW n \in 1 .. 40
  PROVE  Shown(StoryAt(n), n)
<1>1. CASE n \in {1, 2, 3}
  BY <1>1, SamplesShown DEF StoryAt
<1>2. CASE n \notin {1, 2, 3}
  <2>1. PICK index \in 1 .. 37 : index = n - 3 /\ n = index + 3
    <3>1. n - 3 \in 1 .. 37 /\ n = (n - 3) + 3
      BY <1>2
    <3> QED
      BY <3>1
  <2>2. StoryAt(n) = PlanStory(index)
    BY <1>2, <2>1 DEF StoryAt
  <2> QED
    BY <2>1, <2>2, PlanShown
<1> QED
  BY <1>1, <1>2

\* Each status is that of some story.
LEMMA EveryStatusIsTold ==
  ASSUME NEW status \in Status
  PROVE  \E story \in Stories : story.is.status = status
<1>1. /\ OPERATIONAL_PLAN[1].status = "PENDING_PAYMENT" /\ OPERATIONAL_PLAN[7].status = "PAID"
      /\ OPERATIONAL_PLAN[10].status = "RECEIVED_AT_WAREHOUSE"
      /\ OPERATIONAL_PLAN[15].status = "IN_TRANSIT"
      /\ OPERATIONAL_PLAN[19].status = "ARRIVED_AT_DESTINATION"
      /\ OPERATIONAL_PLAN[22].status = "READY_FOR_PICKUP"
      /\ OPERATIONAL_PLAN[25].status = "OUT_FOR_DELIVERY"
      /\ OPERATIONAL_PLAN[28].status = "DELIVERED" /\ OPERATIONAL_PLAN[36].status = "CANCELLED"
  BY DEF OPERATIONAL_PLAN, Entry
<1>2. OPERATIONAL_PLAN[34].status = "ON_HOLD"
  <2>1. 34 \in 1 .. 37 /\ 34 \in {34, 35}
    OBVIOUS
  <2> QED
    BY <2>1, PlanFigures DEF Figures
<1>3. \E i \in 1 .. 37 : OPERATIONAL_PLAN[i].status = status
  <2>1. /\ 1 \in 1 .. 37 /\ 7 \in 1 .. 37 /\ 10 \in 1 .. 37 /\ 15 \in 1 .. 37 /\ 19 \in 1 .. 37
        /\ 22 \in 1 .. 37 /\ 25 \in 1 .. 37 /\ 28 \in 1 .. 37 /\ 34 \in 1 .. 37
        /\ 36 \in 1 .. 37
    OBVIOUS
  <2> QED
    BY <1>1, <1>2, <2>1 DEF Status
<1>4. \A i \in 1 .. 37 : PlanStory(i).is.status = OPERATIONAL_PLAN[i].status
  BY DEF PlanStory, Story, ShipmentIs
<1> QED
  BY <1>3, <1>4, PlanIs DEF Stories

-------------------------------------------------------------------------------
(* The figures.                                                            *)

\* The numbers of the stories whose shipments are selected, in a list of n.
Lists(list, n, selected) ==
  /\ selected \subseteq Shipments
  /\ \A i \in 1 .. n : list[i] \in 1 .. 40
  /\ \A i, j \in 1 .. n : list[i] = list[j] => i = j
  /\ \A k \in 1 .. 40 :
       ShipmentOf(StoryAt(k)) \in selected <=> \E i \in 1 .. n : list[i] = k

LEMMA SelectionCounted ==
  ASSUME NEW list, NEW n \in Nat, NEW selected, Lists(list, n, selected)
  PROVE  Cardinality(selected) = n
<1>1. PICK f : f = [i \in 1 .. n |-> ShipmentOf(StoryAt(list[i]))]
  OBVIOUS
<1>2. f \in [1 .. n -> selected]
  <2>1. ASSUME NEW i \in 1 .. n
        PROVE  ShipmentOf(StoryAt(list[i])) \in selected
    BY DEF Lists
  <2> QED
    BY <1>1, <2>1
<1>3. ASSUME NEW i \in 1 .. n, NEW j \in 1 .. n, f[i] = f[j]
      PROVE  i = j
  <2>1. ShipmentOf(StoryAt(list[i])) = ShipmentOf(StoryAt(list[j]))
    BY <1>1, <1>3
  <2>2. StoryAt(list[i]).id = StoryAt(list[j]).id
    BY <2>1 DEF ShipmentOf
  <2>3. list[i] = list[j]
    <3>1. list[i] \in 1 .. 40 /\ list[j] \in 1 .. 40
      BY DEF Lists
    <3> QED
      BY <2>2, <3>1, StoriesNumbered
  <2> QED
    BY <2>3 DEF Lists
<1>4. ASSUME NEW row \in selected
      PROVE  \E i \in 1 .. n : f[i] = row
  <2>1. PICK k \in 1 .. 40 : row = ShipmentOf(StoryAt(k))
    BY StoriesNumbered DEF Lists, Shipments
  <2>2. PICK i \in 1 .. n : list[i] = k
    BY <2>1 DEF Lists
  <2> QED
    BY <1>1, <2>1, <2>2
<1>5. f \in Bijection(1 .. n, selected)
  BY <1>2, <1>3, <1>4 DEF Bijection, Injection, Surjection, IsInjective
<1> QED
  BY <1>5, FS_CountingElements DEF ExistsBijection

\* What the tables show of the stories that they tell.
LEMMA FiguresAre ==
  ASSUME NEW shipments, shipments = Shipments, NEW payments, payments = Payments
  PROVE  /\ Cardinality(shipments) = 40
         /\ DOMAIN countByStatus(shipments) = Status
         /\ countByStatus(shipments)["ON_HOLD"] = 2
         /\ countPendingPaymentVerification(shipments, payments) = 4
         /\ Cardinality(findStalled(shipments)) = 10
<1>1. ASSUME NEW k \in 1 .. 40
      PROVE  /\ ShipmentOf(StoryAt(k)) \in shipments /\ Shown(StoryAt(k), k)
             /\ ShipmentOf(StoryAt(k)).is = StoryAt(k).is
             /\ ShipmentOf(StoryAt(k)).id = StoryAt(k).id
  BY StoriesNumbered, StoriesShown DEF ShipmentOf, Shipments
<1>2. Cardinality(shipments) = 40
  <2>1. PICK list : list = [i \in 1 .. 40 |-> i]
    OBVIOUS
  <2>2. Lists(list, 40, shipments)
    BY <1>1, <2>1 DEF Lists
  <2> QED
    BY <2>2, SelectionCounted
<1>3. DOMAIN countByStatus(shipments) = Status
  <2>1. \A row \in shipments : row.is.status \in Status
    <3> SUFFICES ASSUME NEW row \in shipments
                 PROVE  row.is.status \in Status
      OBVIOUS
    <3>1. PICK k \in 1 .. 40 : row = ShipmentOf(StoryAt(k))
      BY StoriesNumbered DEF Shipments
    <3> QED
      BY <1>1, <3>1 DEF Shown
  <2>2. ASSUME NEW status \in Status
        PROVE  \E row \in shipments : row.is.status = status
    <3>1. PICK story \in Stories : story.is.status = status
      BY EveryStatusIsTold
    <3>2. ShipmentOf(story) \in shipments /\ ShipmentOf(story).is = story.is
      BY DEF ShipmentOf, Shipments
    <3> QED
      BY <3>1, <3>2
  <2>3. {row.is.status : row \in shipments} = Status
    BY <2>1, <2>2
  <2> QED
    BY <2>3 DEF countByStatus
<1>4. countByStatus(shipments)["ON_HOLD"] = 2
  <2>1. PICK held : held = {row \in shipments : row.is.status = "ON_HOLD"}
    OBVIOUS
  <2>2. PICK list : list = [i \in 1 .. 2 |-> i + 36]
    OBVIOUS
  <2>3. ASSUME NEW k \in 1 .. 40
        PROVE  ShipmentOf(StoryAt(k)) \in held <=> \E i \in 1 .. 2 : list[i] = k
    <3>1. ShipmentOf(StoryAt(k)) \in held <=> k \in {37, 38}
      BY <1>1, <2>1 DEF Shown
    <3>2. k \in {37, 38} <=> \E i \in 1 .. 2 : list[i] = k
      BY <2>2
    <3> QED
      BY <3>1, <3>2
  <2>4. Lists(list, 2, held)
    <3>1. /\ held \subseteq Shipments
          /\ \A i \in 1 .. 2 : list[i] \in 1 .. 40
          /\ \A i, j \in 1 .. 2 : list[i] = list[j] => i = j
      BY <2>1, <2>2
    <3> QED
      BY <2>3, <3>1 DEF Lists
  <2>5. Cardinality(held) = 2
    BY <2>4, SelectionCounted
  <2>6. "ON_HOLD" \in {row.is.status : row \in shipments}
    BY <1>3 DEF countByStatus, Status
  <2> QED
    BY <2>1, <2>5, <2>6 DEF countByStatus
<1>5. countPendingPaymentVerification(shipments, payments) = 4
  <2>1. PICK waiting : waiting = {row \in shipments :
          \E payment \in payments :
            payment.of["shipments"] = row.id /\ payment.is.status = "WAITING_VERIFICATION"}
    OBVIOUS
  <2>2. PICK list : list = [i \in 1 .. 4 |-> i + 5]
    OBVIOUS
  <2>3. ASSUME NEW story
        PROVE  /\ PaymentOf(story).of["shipments"] = story.id
               /\ PaymentOf(story).is = story.pays[1]
    BY DEF PaymentOf
  <2>4. ASSUME NEW story \in Stories
        PROVE  (\E payment \in payments :
                  /\ payment.of["shipments"] = story.id
                  /\ payment.is.status = "WAITING_VERIFICATION")
                 <=> Waits(story)
    <3>1. ASSUME NEW payment \in payments, payment.of["shipments"] = story.id,
                 payment.is.status = "WAITING_VERIFICATION"
          PROVE  Waits(story)
      <4>1. PICK one \in Stories : one.pays # << >> /\ payment = PaymentOf(one)
        BY DEF Payments
      <4>2. one = story
        BY <2>3, <3>1, <4>1, StoriesApart
      <4> QED
        BY <2>3, <3>1, <4>1, <4>2 DEF Waits
    <3>2. ASSUME Waits(story)
          PROVE  /\ PaymentOf(story) \in payments
                 /\ PaymentOf(story).is.status = "WAITING_VERIFICATION"
      BY <2>3, <3>2 DEF Waits, Payments
    <3> QED
      BY <2>3, <3>1, <3>2
  <2>5. ASSUME NEW k \in 1 .. 40
        PROVE  ShipmentOf(StoryAt(k)) \in waiting <=> \E i \in 1 .. 4 : list[i] = k
    <3>1. StoryAt(k) \in Stories
      BY StoriesNumbered
    <3>2. ShipmentOf(StoryAt(k)) \in waiting <=> Waits(StoryAt(k))
      BY <1>1, <2>1, <2>4, <3>1
    <3>3. Waits(StoryAt(k)) <=> k \in {6, 7, 8, 9}
      BY <1>1 DEF Shown
    <3>4. k \in {6, 7, 8, 9} <=> \E i \in 1 .. 4 : list[i] = k
      BY <2>2
    <3> QED
      BY <3>2, <3>3, <3>4
  <2>6. Lists(list, 4, waiting)
    <3>1. /\ waiting \subseteq Shipments
          /\ \A i \in 1 .. 4 : list[i] \in 1 .. 40
          /\ \A i, j \in 1 .. 4 : list[i] = list[j] => i = j
      BY <2>1, <2>2
    <3> QED
      BY <2>5, <3>1 DEF Lists
  <2>7. Cardinality(waiting) = 4
    BY <2>6, SelectionCounted
  <2> QED
    BY <2>1, <2>7 DEF countPendingPaymentVerification
<1>6. Cardinality(findStalled(shipments)) = 10
  <2>1. PICK list : list = <<5, 9, 11, 15, 19, 21, 23, 26, 30, 37>>
    OBVIOUS
  <2>2. /\ list[1] = 5 /\ list[2] = 9 /\ list[3] = 11 /\ list[4] = 15 /\ list[5] = 19
        /\ list[6] = 21 /\ list[7] = 23 /\ list[8] = 26 /\ list[9] = 30 /\ list[10] = 37
    BY <2>1
  <2>3. \A i \in 1 .. 10 : i \in {1, 2, 3, 4, 5, 6, 7, 8, 9, 10}
    OBVIOUS
  <2>4. /\ findStalled(shipments) \subseteq Shipments
        /\ \A i \in 1 .. 10 : list[i] \in 1 .. 40
    BY <2>2, <2>3 DEF findStalled
  <2>5. ASSUME NEW i \in 1 .. 10, NEW j \in 1 .. 10, list[i] = list[j]
        PROVE  i = j
    <3>1. /\ i = 1 \/ i = 2 \/ i = 3 \/ i = 4 \/ i = 5 \/ i = 6 \/ i = 7 \/ i = 8 \/ i = 9
               \/ i = 10
          /\ j = 1 \/ j = 2 \/ j = 3 \/ j = 4 \/ j = 5 \/ j = 6 \/ j = 7 \/ j = 8 \/ j = 9
               \/ j = 10
      OBVIOUS
    <3> QED
      BY <2>2, <2>5, <3>1
  <2>6. ASSUME NEW k \in 1 .. 40
        PROVE  ShipmentOf(StoryAt(k)) \in findStalled(shipments)
                 <=> \E i \in 1 .. 10 : list[i] = k
    <3>1. ShipmentOf(StoryAt(k)) \in findStalled(shipments)
            <=> k \in {5, 9, 11, 15, 19, 21, 23, 26, 30, 37}
      <4>1. PICK row, days : row = ShipmentOf(StoryAt(k)) /\ days = STALL_THRESHOLD_DAYS + 1
        OBVIOUS
      <4>2. days = 4
        BY <4>1 DEF STALL_THRESHOLD_DAYS
      <4>3. row \in findStalled(shipments) <=>
              row.is.status \notin {"DELIVERED", "CANCELLED"} /\ row.is.updatedAgo >= days
        BY <1>1, <4>1 DEF findStalled
      <4>4. row.is.status \notin {"DELIVERED", "CANCELLED"} /\ row.is.updatedAgo >= 4
              <=> k \in {5, 9, 11, 15, 19, 21, 23, 26, 30, 37}
        BY <1>1, <4>1 DEF Shown
      <4> QED
        BY <4>1, <4>2, <4>3, <4>4
    <3>2. k \in {5, 9, 11, 15, 19, 21, 23, 26, 30, 37} => \E i \in 1 .. 10 : list[i] = k
      <4>1. /\ 1 \in 1 .. 10 /\ 2 \in 1 .. 10 /\ 3 \in 1 .. 10 /\ 4 \in 1 .. 10 /\ 5 \in 1 .. 10
            /\ 6 \in 1 .. 10 /\ 7 \in 1 .. 10 /\ 8 \in 1 .. 10 /\ 9 \in 1 .. 10
            /\ 10 \in 1 .. 10
        OBVIOUS
      <4> QED
        BY <2>2, <4>1
    <3>3. \A i \in 1 .. 10 : list[i] \in {5, 9, 11, 15, 19, 21, 23, 26, 30, 37}
      BY <2>2, <2>3
    <3> QED
      BY <3>1, <3>2, <3>3
  <2>7. Lists(list, 10, findStalled(shipments))
    BY <2>4, <2>5, <2>6 DEF Lists
  <2> QED
    BY <2>7, SelectionCounted
<1> QED
  BY <1>2, <1>3, <1>4, <1>5, <1>6

\* The payments of another amount than the bill.
Disputed(payments, shipments) ==
  {row \in payments :
     \E shipment \in shipments :
       /\ shipment.id = row.of["shipments"]
       /\ shipment.is.totalAmount # row.is.claimedAmount}

LEMMA OneClaimsAnother ==
  ASSUME NEW shipments, shipments = Shipments, NEW payments, payments = Payments,
         NEW waiting, waiting = {row \in payments : row.is.status = "WAITING_VERIFICATION"}
  PROVE  Cardinality(Disputed(waiting, shipments)) = 1
<1> DEFINE wrong == Disputed(waiting, shipments)
<1>1. \A row : row \in wrong <=>
        /\ row \in waiting
        /\ \E shipment \in shipments :
             /\ shipment.id = row.of["shipments"]
             /\ shipment.is.totalAmount # row.is.claimedAmount
  BY DEF Disputed
<1> HIDE DEF wrong
<1>2. ASSUME NEW story
      PROVE  /\ PaymentOf(story).of["shipments"] = story.id
             /\ PaymentOf(story).is = story.pays[1]
             /\ ShipmentOf(story).id = story.id /\ ShipmentOf(story).is = story.is
  BY DEF PaymentOf, ShipmentOf
<1>3. \A k \in 1 .. 40 : StoryAt(k) \in Stories /\ Shown(StoryAt(k), k)
  BY StoriesNumbered, StoriesShown
<1>4. ASSUME NEW row \in wrong
      PROVE  row = PaymentOf(StoryAt(8))
  <2>1. row \in payments /\ row.is.status = "WAITING_VERIFICATION"
    BY <1>1
  <2>2. PICK story \in Stories : story.pays # << >> /\ row = PaymentOf(story)
    BY <2>1 DEF Payments
  <2>3. PICK shipment \in shipments :
          shipment.id = row.of["shipments"] /\ shipment.is.totalAmount # row.is.claimedAmount
    BY <1>1
  <2>4. PICK one \in Stories : shipment = ShipmentOf(one)
    BY <2>3 DEF Shipments
  <2>5. one = story
    BY <1>2, <2>2, <2>3, <2>4, StoriesApart
  <2>6. PICK k \in 1 .. 40 : story = StoryAt(k)
    BY StoriesNumbered
  <2>7. Waits(story) /\ story.pays[1].claimedAmount # story.is.totalAmount
    BY <1>2, <2>1, <2>2, <2>3, <2>4, <2>5 DEF Waits
  <2>8. k = 8
    BY <1>3, <2>6, <2>7 DEF Shown
  <2> QED
    BY <2>2, <2>6, <2>8
<1>5. PaymentOf(StoryAt(8)) \in wrong
  <2>1. PICK story : story = StoryAt(8)
    OBVIOUS
  <2>2. story \in Stories /\ Shown(story, 8)
    BY <1>3, <2>1
  <2>3. Waits(story) /\ story.pays[1].claimedAmount # story.is.totalAmount
    BY <2>2 DEF Shown
  <2>4. PaymentOf(story) \in waiting
    BY <1>2, <2>2, <2>3 DEF Waits, Payments
  <2>5. ShipmentOf(story) \in shipments
    BY <2>2 DEF Shipments
  <2> QED
    BY <1>1, <1>2, <2>1, <2>3, <2>4, <2>5
<1>6. wrong = {PaymentOf(StoryAt(8))}
  BY <1>4, <1>5
<1>7. Cardinality(wrong) = 1
  BY <1>6, FS_Singleton
<1> QED
  BY <1>7 DEF wrong

\* Budi has two shipments, one to pay and one on its way.
LEMMA BudiSees ==
  ASSUME NEW shipments, shipments = Shipments
  PROVE  summaryFor(shipments, "customer") =
           [totalShipments |-> 2, awaitingPaymentCount |-> 1,
            inProgressCount |-> 1, deliveredCount |-> 0]
<1>1. PICK one, two : one = ShipmentOf(FirstStory) /\ two = ShipmentOf(SecondStory)
  OBVIOUS
<1>2. /\ one.id = <<"shipment", 1>> /\ one.is.status = "IN_TRANSIT"
      /\ two.id = <<"shipment", 2>> /\ two.is.status = "PENDING_PAYMENT"
  BY <1>1 DEF ShipmentOf, FirstStory, SecondStory, Story, ShipmentIs
<1>3. one # two
  BY <1>2
<1>4. PICK own : own = {row \in shipments : row.of["users"] = "customer"}
  OBVIOUS
<1>5. own = {one, two}
  <2>1. ASSUME NEW k \in 1 .. 40
        PROVE  /\ ShipmentOf(StoryAt(k)) \in shipments
               /\ ShipmentOf(StoryAt(k)).of["users"] = "customer" <=> k \in {1, 2}
    BY StoriesNumbered, StoriesShown DEF ShipmentOf, Shown, Shipments
  <2>2. StoryAt(1) = FirstStory /\ StoryAt(2) = SecondStory
    BY DEF StoryAt
  <2>3. 1 \in 1 .. 40 /\ 2 \in 1 .. 40
    OBVIOUS
  <2>4. one \in own /\ two \in own
    BY <1>1, <1>4, <2>1, <2>2, <2>3
  <2>5. ASSUME NEW row \in own
        PROVE  row \in {one, two}
    <3>1. PICK k \in 1 .. 40 : row = ShipmentOf(StoryAt(k))
      BY <1>4, StoriesNumbered DEF Shipments
    <3>2. k \in {1, 2}
      BY <1>4, <2>1, <3>1
    <3> QED
      BY <1>1, <2>2, <3>1, <3>2
  <2> QED
    BY <2>4, <2>5
<1>6. Cardinality(own) = 2
  <2>1. IsFiniteSet({one}) /\ Cardinality({one}) = 1
    BY FS_Singleton
  <2>2. Cardinality({one} \cup {two}) = 2
    BY <1>3, <2>1, FS_AddElement
  <2>3. own = {one} \cup {two}
    BY <1>5
  <2> QED
    BY <2>2, <2>3
<1>7. /\ {row \in own : row.is.status \in {"PENDING_PAYMENT"}} = {two}
      /\ {row \in own : row.is.status \in Status \ NOT_IN_PROGRESS} = {one}
      /\ {row \in own : row.is.status \in {"DELIVERED"}} = {}
  BY <1>2, <1>5 DEF Status, NOT_IN_PROGRESS
<1>8. /\ Cardinality({row \in own : row.is.status \in {"PENDING_PAYMENT"}}) = 1
      /\ Cardinality({row \in own : row.is.status \in Status \ NOT_IN_PROGRESS}) = 1
      /\ Cardinality({row \in own : row.is.status \in {"DELIVERED"}}) = 0
  BY <1>7, FS_Singleton, FS_EmptySet
<1> QED
  BY <1>4, <1>6, <1>8 DEF summaryFor

LEMMA RoutesAndAccountsCounted ==
  Cardinality(Codes) = 8 /\ Cardinality({"admin"} \cup Accounts) = 10
<1>1. Cardinality(Codes) = 8
  <2>1. PICK f : f = [i \in 1 .. 8 |-> ROUTES[i].code]
    OBVIOUS
  <2>2. f \in Bijection(1 .. 8, Codes)
    BY <2>1, CodesAre DEF Bijection, Injection, Surjection, IsInjective, Codes
  <2> QED
    BY <2>2, FS_CountingElements DEF ExistsBijection
<1>2. IsFiniteSet(Accounts) /\ Cardinality(Accounts) = 9
  <2>0. PICK n \in Nat : n = 9
    OBVIOUS
  <2>1. PICK f : f = [i \in 1 .. 9 |-> USERS[i].id]
    OBVIOUS
  <2>2. f \in Bijection(1 .. n, Accounts)
    BY <2>1, <2>0, UsersAre DEF Bijection, Injection, Surjection, IsInjective, Accounts
  <2>3. IsFiniteSet(1 .. n) /\ Cardinality(1 .. n) = 9
    <3>1. IsFiniteSet(1 .. n) /\ Cardinality(1 .. n) = n
      BY FS_Interval
    <3> QED
      BY <2>0, <3>1
  <2> QED
    BY <2>2, <2>3, FS_Bijection DEF ExistsBijection
<1>3. "admin" \notin Accounts
  BY UsersAre DEF Accounts
<1>4. Cardinality(Accounts \cup {"admin"}) = 10
  BY <1>2, <1>3, FS_AddElement
<1>5. {"admin"} \cup Accounts = Accounts \cup {"admin"}
  OBVIOUS
<1> QED
  BY <1>1, <1>4, <1>5

LEMMA ToldFigures == ToldInv /\ FillingInv => SeededFigures
<1> SUFFICES ASSUME ToldInv, FillingInv, Complete
             PROVE  SeededFigures
  BY DEF SeededFigures
<1>1. PICK shipments, payments : shipments = db["shipments"] /\ payments = db["payments"]
  OBVIOUS
<1>2. /\ shipments = Shipments /\ payments = Payments
      /\ Ids("users") = {"admin"} \cup Accounts
      /\ Ids("routes") = Codes /\ Ids("rates") = Codes
  BY <1>1, CompleteTables
<1>3. PICK figures : figures = summary(shipments, payments, db["agent_profiles"])
  OBVIOUS
<1>4. /\ figures.totalShipments = 40
      /\ DOMAIN figures.statusCounts = Status
      /\ figures.statusCounts["ON_HOLD"] = 2
      /\ figures.pendingPaymentVerification = 4
      /\ figures.stalledShipments = 10
  BY <1>2, <1>3, FiguresAre DEF summary
<1>5. Cardinality(Ids("routes")) = 8 /\ Cardinality(Ids("users")) = 10
  BY <1>2, RoutesAndAccountsCounted
<1>6. summaryFor(shipments, "customer") =
        [totalShipments |-> 2, awaitingPaymentCount |-> 1,
         inProgressCount |-> 1, deliveredCount |-> 0]
  BY <1>2, BudiSees
<1>7. PICK waiting : waiting = {row \in payments : row.is.status = "WAITING_VERIFICATION"}
  OBVIOUS
<1>8. Cardinality(Disputed(waiting, shipments)) = 1
  BY <1>2, <1>7, OneClaimsAnother
<1> QED
  BY <1>1, <1>2, <1>3, <1>4, <1>5, <1>6, <1>7, <1>8
  DEF SeededFigures, Disputed

\* When a run has come to its end, the tables hold what the README announces, no more
\* and no less, and the dashboards count it so, whatever earlier runs left behind:
\* 8 routes with their rates, 10 accounts, 40 shipments in every status, 4 payments to
\* verify of which one claims another amount, 10 shipments that do not move (main,
\* seed-data.ts, AdminDashboardService.summary).
THEOREM SeededFiguresAlwaysHold == SeedingSpec => []SeededFigures
BY ToldCorrect, FillingCorrect, ToldFigures, PTL
===============================================================================
