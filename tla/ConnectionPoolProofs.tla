------------------------- MODULE ConnectionPoolProofs -------------------------
(***************************************************************************)
(* A request never waits for the pool while it has a connection of it, and *)
(* no connection is lost or given back twice, for any size of the pool and *)
(* any number of requests.  Both rest on the shape of the handlers: the    *)
(* steps between a begin and its commit all run on the transaction's       *)
(* connection.                                                             *)
(***************************************************************************)
EXTENDS ConnectionPool, FiniteSetTheorems, SequenceTheorems, TLAPS

Step == [kind : {"pool", "begin", "inside", "commit"}, calls : Nat]
InsideStep == [kind |-> "inside", calls |-> 0]

\* A step that needs the open transaction, and one that leaves it open.
Within(step) == step.kind \in {"inside", "commit"}
Opens(step) == step.kind \in {"begin", "inside"}

\* What may be left of a handler: a transaction is begun by one call, and is open from
\* its begin to its commit and nowhere else.
Orderly(s) ==
  /\ s \in Seq(Step)
  /\ \A i \in 1..Len(s) : s[i].kind = "begin" => s[i].calls = 1
  /\ \A i \in 1..(Len(s) - 1) : Opens(s[i]) <=> Within(s[i + 1])
  /\ s # <<>> => ~Opens(s[Len(s)])

\* A whole handler, or a part of one that is a call or a transaction.
Bracketed(s) == Orderly(s) /\ (s # <<>> => ~Within(s[1]))

-----------------------------------------------------------------------------
\* The handlers are bracketed.

LEMMA StepsAreSteps == Begin \in Step /\ Commit \in Step /\ InsideStep \in Step
  BY DEF Begin, Commit, InsideStep, Step

LEMMA AtOnceIsBracketed ==
  ASSUME NEW n \in Nat
  PROVE  Bracketed(AtOnce(n))
<1>1. [kind |-> "pool", calls |-> n] \in Step
  BY DEF Step
<1>2. AtOnce(n) \in Seq(Step) /\ Len(AtOnce(n)) = 1
  BY <1>1 DEF AtOnce
<1> QED
  BY <1>2 DEF AtOnce, Bracketed, Orderly, Opens, Within

LEMMA ConcatIsBracketed ==
  ASSUME NEW s, NEW t, Bracketed(s), Bracketed(t)
  PROVE  Bracketed(s \o t)
<1> DEFINE u == s \o t
<1>1. s \in Seq(Step) /\ t \in Seq(Step)
  BY DEF Bracketed, Orderly
<1>2. /\ u \in Seq(Step) /\ Len(u) = Len(s) + Len(t)
      /\ Len(s) \in Nat /\ Len(t) \in Nat
      /\ \A i \in 1..(Len(s) + Len(t)) :
           u[i] = IF i <= Len(s) THEN s[i] ELSE t[i - Len(s)]
  BY <1>1, ConcatProperties, LenProperties
<1>3. /\ s # <<>> <=> Len(s) > 0
      /\ t # <<>> <=> Len(t) > 0
      /\ u # <<>> <=> Len(u) > 0
  BY <1>1, <1>2, EmptySeq
<1> HIDE DEF u
<1>4. ASSUME NEW i \in 1..Len(u), u[i].kind = "begin"
      PROVE  u[i].calls = 1
  <2>1. CASE i <= Len(s)
    <3>1. i \in 1..Len(s) /\ u[i] = s[i]
      BY <1>2, <2>1
    <3> QED
      BY <1>4, <3>1 DEF Bracketed, Orderly
  <2>2. CASE i > Len(s)
    <3>1. i - Len(s) \in 1..Len(t) /\ u[i] = t[i - Len(s)]
      BY <1>2, <2>2
    <3> QED
      BY <1>4, <3>1 DEF Bracketed, Orderly
  <2> QED
    BY <1>2, <2>1, <2>2
<1>5. ASSUME NEW i \in 1..(Len(u) - 1)
      PROVE  Opens(u[i]) <=> Within(u[i + 1])
  <2>1. CASE i < Len(s)
    BY <1>2, <2>1 DEF Bracketed, Orderly
  <2>2. CASE i = Len(s)
    <3>1. u[i] = s[Len(s)] /\ u[i + 1] = t[1]
      BY <1>2, <2>2
    <3> QED
      BY <1>2, <1>3, <2>2, <3>1 DEF Bracketed, Orderly
  <2>3. CASE i > Len(s)
    <3>1. u[i] = t[i - Len(s)] /\ u[i + 1] = t[(i - Len(s)) + 1]
      BY <1>2, <2>3
    <3>2. i - Len(s) \in 1..(Len(t) - 1)
      BY <1>2, <2>3
    <3> QED
      BY <3>1, <3>2 DEF Bracketed, Orderly
  <2> QED
    BY <1>2, <2>1, <2>2, <2>3
<1>6. u # <<>> => ~Opens(u[Len(u)]) /\ ~Within(u[1])
  <2>1. CASE Len(t) > 0 /\ Len(s) > 0
    BY <1>2, <1>3, <2>1 DEF Bracketed, Orderly
  <2>2. CASE Len(t) = 0 /\ Len(s) > 0
    BY <1>2, <1>3, <2>2 DEF Bracketed, Orderly
  <2>3. CASE Len(t) > 0 /\ Len(s) = 0
    BY <1>2, <1>3, <2>3 DEF Bracketed, Orderly
  <2> QED
    BY <1>2, <1>3, <2>1, <2>2, <2>3
<1> QED
  BY <1>2, <1>4, <1>5, <1>6 DEF Bracketed, Orderly, u

LEMMA TransactionIsBracketed ==
  ASSUME NEW body \in Seq({InsideStep})
  PROVE  Bracketed(transaction(body))
<1> DEFINE u == transaction(body)
<1>1. /\ <<Begin>> \in Seq(Step) /\ Len(<<Begin>>) = 1 /\ <<Begin>>[1] = Begin
      /\ <<Commit>> \in Seq(Step) /\ Len(<<Commit>>) = 1 /\ <<Commit>>[1] = Commit
  BY StepsAreSteps
<1>2. /\ body \in Seq(Step) /\ Len(body) \in Nat
      /\ \A i \in 1..Len(body) : body[i] = InsideStep
  BY StepsAreSteps, SeqMonotonic, ElementOfSeq, LenProperties
<1>3. /\ <<Begin>> \o body \in Seq(Step) /\ Len(<<Begin>> \o body) = 1 + Len(body)
      /\ \A i \in 1..(1 + Len(body)) :
           (<<Begin>> \o body)[i] = IF i <= 1 THEN Begin ELSE InsideStep
  BY <1>1, <1>2, ConcatProperties
<1>4. /\ u \in Seq(Step) /\ Len(u) = Len(body) + 2
      /\ \A i \in 1..(Len(body) + 2) :
           u[i] = IF i = 1 THEN Begin
                  ELSE IF i <= Len(body) + 1 THEN InsideStep ELSE Commit
  BY <1>1, <1>2, <1>3, ConcatProperties DEF transaction
<1> HIDE DEF u
<1> QED
  BY <1>2, <1>4 DEF Bracketed, Orderly, Opens, Within, Begin, Commit, InsideStep, u

\* What Times yields, whatever the steps are.
LEMMA TimesIs ==
  ASSUME NEW S, NEW n \in Nat, NEW steps \in Seq(S)
  PROVE  /\ Times(n, steps) \in Seq(S)
         /\ Len(Times(n, steps)) = n * Len(steps)
         /\ \A i \in 1..(n * Len(steps)) :
              /\ (i - 1) % Len(steps) \in 0..(Len(steps) - 1)
              /\ Times(n, steps)[i] = steps[((i - 1) % Len(steps)) + 1]
<1> DEFINE L == Len(steps)  m == n * L
<1>1. L \in Nat /\ \A i \in 1..L : steps[i] \in S
  BY LenProperties, ElementOfSeq
<1>2. m \in Nat /\ (L = 0 => m = 0)
  BY <1>1
<1>3. \A i \in 1..m : (i - 1) % L \in 0..(L - 1)
  <2>1. CASE L = 0
    BY <1>2, <2>1
  <2>2. CASE L > 0
    BY <1>1, <1>2, <2>2
  <2> QED
    BY <1>1, <2>1, <2>2
<1>4. Times(n, steps) = [i \in 1..m |-> steps[((i - 1) % L) + 1]]
  BY DEF Times
<1> HIDE DEF m, L
<1>5. \A i \in 1..m : steps[((i - 1) % L) + 1] \in S
  BY <1>1, <1>3
<1>6. Times(n, steps) \in [1..m -> S]
  BY <1>4, <1>5
<1>7. Times(n, steps) \in Seq(S) /\ Len(Times(n, steps)) = m
  BY <1>2, <1>6
<1> QED
  BY <1>3, <1>4, <1>7 DEF m, L

LEMMA InsideIsInside ==
  /\ Inside \in Seq({InsideStep})
  /\ \A n \in Nat : Times(n, Inside) \in Seq({InsideStep})
  /\ \A s, t \in Seq({InsideStep}) : s \o t \in Seq({InsideStep})
<1>1. Inside \in Seq({InsideStep})
  BY DEF Inside, InsideStep
<1> QED
  BY <1>1, TimesIs, ConcatProperties

LEMMA RemainderIs ==
  ASSUME NEW L \in Nat \ {0}, NEW p \in Int, NEW a \in 0..(L - 1)
  PROVE  (L * p + a) % L = a
<1>1. PICK i \in Int : i = L * p + a
  OBVIOUS
<1>2. PICK q \in Int, b \in 0..(L - 1) : i = L * q + b /\ b = i % L
  <2>1. /\ i = L * (i \div L) + (i % L)
        /\ i % L \in 0..(L - 1) /\ i \div L \in Int
    OBVIOUS
  <2> QED
    BY <2>1
<1>3. L * (p - q) = b - a
  BY <1>1, <1>2
<1>4. p - q = 0
  BY <1>2, <1>3
<1> QED
  BY <1>1, <1>2, <1>3, <1>4

\* The next of the steps, and the first again after the last.
LEMMA NextInTurn ==
  ASSUME NEW L \in Nat \ {0}, NEW i \in Nat
  PROVE  (i + 1) % L = IF i % L = L - 1 THEN 0 ELSE (i % L) + 1
<1>1. PICK p \in Int, a \in 0..(L - 1) : i = L * p + a /\ a = i % L
  <2>1. /\ i = L * (i \div L) + (i % L)
        /\ i % L \in 0..(L - 1) /\ i \div L \in Int
    OBVIOUS
  <2> QED
    BY <2>1
<1>2. CASE a = L - 1
  <2>1. i + 1 = L * (p + 1) + 0
    BY <1>1, <1>2
  <2>2. (L * (p + 1) + 0) % L = 0
    BY RemainderIs
  <2> QED
    BY <1>1, <1>2, <2>1, <2>2
<1>3. CASE a # L - 1
  <2>1. i + 1 = L * p + (a + 1)
    BY <1>1
  <2>2. (L * p + (a + 1)) % L = a + 1
    BY <1>3, RemainderIs
  <2> QED
    BY <1>1, <1>3, <2>1, <2>2
<1> QED
  BY <1>2, <1>3

LEMMA TimesIsBracketed ==
  ASSUME NEW n \in Nat, NEW steps, Bracketed(steps)
  PROVE  Bracketed(Times(n, steps))
<1> DEFINE u == Times(n, steps)
           L == Len(steps)
           m == n * L
           at == [i \in 1..m |-> ((i - 1) % L) + 1]
<1>1. steps \in Seq(Step) /\ L \in Nat /\ m \in Nat
  BY LenProperties DEF Bracketed, Orderly
<1>2. u \in Seq(Step) /\ Len(u) = m
  BY <1>1, TimesIs
<1>3. \A i \in 1..m : at[i] \in 1..L /\ u[i] = steps[at[i]]
  <2>1. \A i \in 1..m : /\ (i - 1) % L \in 0..(L - 1)
                        /\ u[i] = steps[((i - 1) % L) + 1]
    BY <1>1, TimesIs
  <2> HIDE DEF m, L, u
  <2> QED
    BY <1>1, <2>1
<1>4. \A i \in 1..(m - 1) : at[i + 1] = IF at[i] = L THEN 1 ELSE at[i] + 1
  <2>1. SUFFICES ASSUME NEW i \in 1..(m - 1)
                 PROVE  at[i + 1] = IF at[i] = L THEN 1 ELSE at[i] + 1
    OBVIOUS
  <2>2. L \in Nat \ {0} /\ i \in 1..m /\ i + 1 \in 1..m /\ i - 1 \in Nat
    BY <1>1, <1>3
  <2>3. ((i - 1) + 1) % L = IF (i - 1) % L = L - 1 THEN 0 ELSE ((i - 1) % L) + 1
    BY <2>2, NextInTurn
  <2>4. (i - 1) + 1 = (i + 1) - 1 /\ (i - 1) % L \in 0..(L - 1)
    BY <2>2
  <2>5. at[i] = ((i - 1) % L) + 1 /\ at[i + 1] = (((i + 1) - 1) % L) + 1
    BY <2>2
  <2> HIDE DEF at, m, L
  <2> QED
    BY <2>2, <2>3, <2>4, <2>5
<1>5. ASSUME m > 0
      PROVE  at[1] = 1 /\ at[m] = L
  <2>1. L \in Nat \ {0}
    BY <1>1, <1>5
  <2>2. (L * 0 + 0) % L = 0 /\ (L * (n - 1) + (L - 1)) % L = L - 1
    BY <2>1, RemainderIs
  <2>3. 1 - 1 = L * 0 + 0 /\ m - 1 = L * (n - 1) + (L - 1)
    BY <2>1
  <2>4. at[1] = ((1 - 1) % L) + 1 /\ at[m] = ((m - 1) % L) + 1
    BY <1>1, <1>5
  <2> HIDE DEF at, m, L
  <2> QED
    BY <2>1, <2>2, <2>3, <2>4
<1> HIDE DEF u, m, at
<1>6. ASSUME NEW i \in 1..m, u[i].kind = "begin"
      PROVE  u[i].calls = 1
  BY <1>3, <1>6 DEF Bracketed, Orderly
<1>7. ASSUME NEW i \in 1..(m - 1)
      PROVE  Opens(u[i]) <=> Within(u[i + 1])
  <2>1. /\ at[i] \in 1..L /\ u[i] = steps[at[i]]
        /\ at[i + 1] \in 1..L /\ u[i + 1] = steps[at[i + 1]]
    BY <1>1, <1>3
  <2>2. CASE at[i] = L
    BY <1>1, <1>4, <2>1, <2>2 DEF Bracketed, Orderly
  <2>3. CASE at[i] # L
    <3>1. at[i] \in 1..(L - 1) /\ u[i + 1] = steps[at[i] + 1]
      BY <1>1, <1>4, <2>1, <2>3
    <3> QED
      BY <2>1, <3>1 DEF Bracketed, Orderly
  <2> QED
    BY <2>2, <2>3
<1>8. ASSUME m > 0
      PROVE  ~Opens(u[m]) /\ ~Within(u[1])
  <2>1. u[m] = steps[L] /\ u[1] = steps[1] /\ L > 0
    BY <1>1, <1>3, <1>5, <1>8
  <2> QED
    BY <1>1, <2>1 DEF Bracketed, Orderly
<1>9. u # <<>> <=> m > 0
  BY <1>1, <1>2, EmptySeq
<1> QED
  BY <1>1, <1>2, <1>6, <1>7, <1>8, <1>9 DEF Bracketed, Orderly, u

LEMMA CallsAreBracketed ==
  /\ Bracketed(Call) /\ Bracketed(getPricing)
  /\ Bracketed(findUserById(FALSE)) /\ Bracketed(record(FALSE))
  /\ \A n \in Nat : Bracketed(AtOnce(n)) /\ Bracketed(Times(n, Call))
<1>1. Bracketed(Call) /\ \A n \in Nat : Bracketed(AtOnce(n))
  BY AtOnceIsBracketed DEF Call
<1>2. Bracketed(findUserById(FALSE)) /\ Bracketed(AuditCreate(FALSE))
  BY <1>1 DEF findUserById, AuditCreate, Through
<1> QED
  BY <1>1, <1>2, ConcatIsBracketed, TimesIsBracketed DEF record, getPricing

\* Every transaction's body, with the audit row that is written in it.
LEMMA TransactionsAreBracketed ==
  /\ Bracketed(ReviewAgent(record(TRUE))) /\ Bracketed(UpdateUserStatus(record(TRUE)))
  /\ Bracketed(CreateRoute(record(TRUE))) /\ Bracketed(UpdateRoute(record(TRUE)))
  /\ Bracketed(SetRate(record(TRUE)))
  /\ Bracketed(ApplyStatusTransition(record(TRUE)))
  /\ Bracketed(ApplyWeightCorrection(record(TRUE)))
  /\ Bracketed(CreateWithAttachment)
  /\ Bracketed(VerifyPayment(record(TRUE))) /\ Bracketed(RejectPayment(record(TRUE)))
  /\ \A n \in Nat : Bracketed(CreateShipment(n)) /\ Bracketed(UpdateShipment(n))
<1> DEFINE body == Seq({InsideStep})
<1>1. /\ Inside \in body /\ \A n \in Nat : Times(n, Inside) \in body
      /\ \A s, t \in body : s \o t \in body
  BY InsideIsInside
<1>2. record(TRUE) \in body
  BY <1>1 DEF record, findUserById, AuditCreate, Through
<1>3. \A s \in body : Bracketed(transaction(s))
  BY TransactionIsBracketed
<1> HIDE DEF body
<1>4. /\ Bracketed(ReviewAgent(record(TRUE)))
      /\ Bracketed(UpdateUserStatus(record(TRUE)))
      /\ Bracketed(CreateRoute(record(TRUE))) /\ Bracketed(UpdateRoute(record(TRUE)))
      /\ Bracketed(ApplyStatusTransition(record(TRUE)))
      /\ Bracketed(ApplyWeightCorrection(record(TRUE)))
  BY <1>1, <1>2, <1>3 DEF ReviewAgent, UpdateUserStatus, CreateRoute, UpdateRoute,
     ApplyStatusTransition, ApplyWeightCorrection
<1>5. /\ Bracketed(CreateWithAttachment)
      /\ Bracketed(VerifyPayment(record(TRUE)))
      /\ Bracketed(RejectPayment(record(TRUE)))
  BY <1>1, <1>2, <1>3 DEF CreateWithAttachment, VerifyPayment, RejectPayment
<1>6. Bracketed(SetRate(record(TRUE)))
  BY <1>1, <1>2, <1>3, CallsAreBracketed, ConcatIsBracketed DEF SetRate
<1>7. \A n \in Nat : Bracketed(CreateShipment(n)) /\ Bracketed(UpdateShipment(n))
  BY <1>1, <1>3 DEF CreateShipment, UpdateShipment
<1> QED
  BY <1>4, <1>5, <1>6, <1>7

LEMMA HandlersAreBracketed == \A h \in Handlers : Bracketed(h)
<1> USE CallsAreBracketed, TransactionsAreBracketed, ConcatIsBracketed
<1>1. Attempts \in Nat /\ BulkRows \in Nat
  BY PoolAssumption
<1>2. /\ Bracketed(Login) /\ Bracketed(Refresh) /\ Bracketed(ChangePassword)
      /\ Bracketed(ReviewByAdmin) /\ Bracketed(StatusByAdmin) /\ Bracketed(UserDetail)
  BY DEF Login, Refresh, ChangePassword, ReviewByAdmin, StatusByAdmin, UserDetail
<1>3. /\ Bracketed(RouteByAdmin) /\ Bracketed(RouteUpdateByAdmin)
      /\ Bracketed(RateByAdmin) /\ Bracketed(RoutesForAdmin)
      /\ Bracketed(AdminSummary) /\ Bracketed(Summary)
  BY DEF RouteByAdmin, RouteUpdateByAdmin, RateByAdmin, RoutesForAdmin, AdminSummary,
     Summary
<1>4. /\ Bracketed(Cancel) /\ Bracketed(ApplyTransition) /\ Bracketed(ChangeStatus)
      /\ Bracketed(CorrectWeight) /\ Bracketed(UploadProof)
      /\ Bracketed(Verify) /\ Bracketed(Reject)
  BY DEF Cancel, ApplyTransition, ChangeStatus, CorrectWeight, UploadProof, Verify, Reject
<1>5. \A n \in Nat : /\ Bracketed(UpdateProfile(n)) /\ Bracketed(Update(n))
                     /\ Bracketed(BulkChangeStatus(n))
  BY <1>4, TimesIsBracketed DEF UpdateProfile, Update, BulkChangeStatus
<1>6. \A n, saved \in Nat : Bracketed(Create(n, saved))
  BY DEF Create, nextTrackingNumber
<1>7. \A n \in Nat : Bracketed(Duplicate(n)) /\ Bracketed(CreateWalkIn(n))
  BY <1>6 DEF Duplicate, CreateWalkIn
<1>8. /\ 0..2 \subseteq Nat /\ 0..1 \subseteq Nat
      /\ 1..Attempts \subseteq Nat /\ 1..BulkRows \subseteq Nat
  BY <1>1
<1> QED
  BY <1>2, <1>3, <1>4, <1>5, <1>6, <1>7, <1>8 DEF Handlers

-----------------------------------------------------------------------------
\* The inductive invariant.

\* A request has a transaction exactly when its next step needs one, and waits for or
\* makes calls only when its next step is those calls, or it has already failed.
RequestSound(r) ==
  /\ Orderly(todo[r])
  /\ holds[r] <=> Upcoming(r) \in {"inside", "commit"}
  /\ running[r] > 0 => Upcoming(r) \in {"none", "pool"}

\* A request that waits to begin a transaction waits for nothing else.
WaitSound(i) ==
  LET r == waiting[i].by
  IN  IF waiting[i].begins
      THEN /\ Upcoming(r) = "begin" /\ running[r] = 0
           /\ \A j \in 1..Len(waiting) : waiting[j].by = r => j = i
      ELSE Upcoming(r) \in {"none", "pool"}

PoolInv ==
  /\ PoolTypeOK /\ IsFiniteSet(Lent)
  /\ \A r \in Requests : RequestSound(r)
  /\ \A i \in 1..Len(waiting) : WaitSound(i)

\* The invariant says what it was made for.
LEMMA PoolInvImplies == PoolInv => PoolTypeOK /\ HolderNeverWaits
<1> SUFFICES ASSUME PoolInv, NEW r \in Requests, holds[r]
             PROVE  WaitsOf(r) = {} /\ running[r] = 0
  BY DEF PoolInv, HolderNeverWaits
<1>1. Upcoming(r) \in {"inside", "commit"} /\ ~(running[r] > 0)
  BY DEF PoolInv, RequestSound
<1>2. ASSUME NEW i \in 1..Len(waiting), waiting[i].by = r
      PROVE  FALSE
  BY <1>1, <1>2 DEF PoolInv, WaitSound
<1>3. running[r] = 0
  BY <1>1 DEF PoolInv, PoolTypeOK
<1> QED
  BY <1>2, <1>3 DEF WaitsOf

\* What is left of a handler of the API.
IsRest(s) == \E h \in Handlers : \E n \in 0..Len(h) : s = Rest(h, n)

LEMMA RestsStayRests ==
  /\ IsRest(<<>>) /\ \A h \in Handlers : IsRest(h)
  /\ \A s : IsRest(s) /\ s # <<>> => IsRest(Tail(s))
<1>1. ASSUME NEW h \in Handlers
      PROVE  IsRest(h) /\ IsRest(<<>>) /\ h \in Seq(Step) /\ Len(h) \in Nat
  <2>1. h \in Seq(Step) /\ Len(h) \in Nat
    BY HandlersAreBracketed, LenProperties DEF Bracketed, Orderly
  <2>2. /\ 0 \in 0..Len(h) /\ Len(h) \in 0..Len(h)
        /\ Rest(h, 0) = h /\ Rest(h, Len(h)) = <<>>
    BY <2>1, SubSeqFull, SubSeqEmpty DEF Rest
  <2> QED
    BY <2>1, <2>2 DEF IsRest
<1>2. ASSUME NEW s, IsRest(s), s # <<>>
      PROVE  IsRest(Tail(s))
  <2>0. PICK h \in Handlers : \E n \in 0..Len(h) : s = Rest(h, n)
    BY <1>2 DEF IsRest
  <2>1. PICK n \in 0..Len(h) : s = Rest(h, n)
    BY <2>0
  <2>2. h \in Seq(Step) /\ Len(h) \in Nat
    BY <1>1
  <2>3. n < Len(h)
    <3>1. SUFFICES ASSUME n >= Len(h)
                   PROVE  Rest(h, n) = <<>>
      BY <1>2, <2>1, <2>2
    <3> QED
      BY <2>2, <3>1, SubSeqEmpty DEF Rest
  <2>4. n + 1 \in 0..Len(h) /\ Tail(Rest(h, n)) = Rest(h, n + 1)
    BY <2>2, <2>3, HeadTailOfSubSeq DEF Rest
  <2> QED
    BY <2>1, <2>4 DEF IsRest
<1> QED
  BY <1>1, <1>2 DEF Handlers

\* What is left stays orderly, step by step.
LEMMA TailIsOrderly ==
  ASSUME NEW s, Orderly(s), s # <<>>
  PROVE  /\ Orderly(Tail(s)) /\ Head(s) \in Step
         /\ Head(s).kind = "begin" => Head(s).calls = 1
         /\ Tail(s) # <<>> => (Opens(Head(s)) <=> Within(Head(Tail(s))))
         /\ Opens(Head(s)) => Tail(s) # <<>>
<1> DEFINE t == Tail(s)
<1>1. /\ s \in Seq(Step) /\ Len(s) \in Nat \ {0}
      /\ t \in Seq(Step) /\ Len(t) = Len(s) - 1
      /\ \A i \in 1..Len(t) : t[i] = s[i + 1]
      /\ Head(s) \in Step /\ Head(s) = s[1]
  BY EmptySeq, HeadTailProperties DEF Orderly
<1> HIDE DEF t
<1>2. t # <<>> <=> Len(s) > 1
  <2>1. t # <<>> <=> Len(t) > 0
    BY <1>1, EmptySeq
  <2> QED
    BY <1>1, <2>1
<1>3. t # <<>> => Head(t) = s[2] /\ t[Len(t)] = s[Len(s)]
  BY <1>1, <1>2
<1>4. Orderly(t)
  <2>1. ASSUME NEW i \in 1..Len(t), t[i].kind = "begin"
        PROVE  t[i].calls = 1
    <3>1. t[i] = s[i + 1] /\ i + 1 \in 1..Len(s)
      BY <1>1
    <3> QED
      BY <2>1, <3>1 DEF Orderly
  <2>2. ASSUME NEW i \in 1..(Len(t) - 1)
        PROVE  Opens(t[i]) <=> Within(t[i + 1])
    <3>1. t[i] = s[i + 1] /\ t[i + 1] = s[(i + 1) + 1] /\ i + 1 \in 1..(Len(s) - 1)
      BY <1>1
    <3> QED
      BY <3>1 DEF Orderly
  <2> QED
    BY <1>1, <1>3, <1>2, <2>1, <2>2 DEF Orderly
<1> QED
  BY <1>1, <1>2, <1>3, <1>4 DEF Orderly, t

-----------------------------------------------------------------------------
\* The connections, one lent or given back at a time.

Accounted ==
  /\ IsFiniteSet(Lent) /\ free \in 0..PoolSize
  /\ free + Cardinality(Lent) = PoolSize

LEMMA OneIsLent ==
  ASSUME Accounted, NEW c, c \notin Lent, Lent' = Lent \cup {c},
         free > 0, free' = free - 1
  PROVE  Accounted'
<1>1. PoolSize \in Nat /\ Cardinality(Lent) \in Nat
  BY PoolAssumption, FS_CardinalityType DEF Accounted
<1>2. IsFiniteSet(Lent') /\ Cardinality(Lent') = Cardinality(Lent) + 1
  BY FS_AddElement DEF Accounted
<1> QED
  BY <1>1, <1>2 DEF Accounted

LEMMA OneIsBack ==
  ASSUME Accounted, NEW c \in Lent, Lent' = Lent \ {c}, free' = free + 1
  PROVE  Accounted'
<1>1. PoolSize \in Nat /\ Cardinality(Lent) \in Nat
  BY PoolAssumption, FS_CardinalityType DEF Accounted
<1>2. IsFiniteSet(Lent') /\ Cardinality(Lent') = Cardinality(Lent) - 1
  BY FS_RemoveElement DEF Accounted
<1>3. Cardinality(Lent') \in Nat
  BY <1>2, FS_CardinalityType
<1> QED
  BY <1>1, <1>2, <1>3 DEF Accounted

LEMMA LentStays ==
  ASSUME Accounted, UNCHANGED <<holds, running, free>>
  PROVE  Accounted'
BY DEF Accounted, Lent

Counts == running \in [Requests -> 0..PoolSize] /\ holds \in [Requests -> BOOLEAN]

\* A transaction takes a connection, and gives it back.
LEMMA BeginTakes ==
  ASSUME Counts, Accounted, NEW r \in Requests, ~holds[r],
         holds' = [holds EXCEPT ![r] = TRUE], running' = running,
         free > 0, free' = free - 1
  PROVE  Accounted'
<1>1. 0 \in 0..PoolSize
  BY PoolAssumption
<1>2. <<r, 0>> \notin Lent
  BY DEF Lent
<1>3. Lent' = Lent \cup {<<r, 0>>}
  <2>1. ASSUME NEW q \in Requests, NEW i \in 0..PoolSize
        PROVE  <<q, i>> \in Lent' <=> <<q, i>> \in Lent \/ (q = r /\ i = 0)
    BY DEF Lent, Counts
  <2> QED
    BY <1>1, <2>1 DEF Lent
<1> QED
  BY <1>2, <1>3, OneIsLent

LEMMA EndGivesBack ==
  ASSUME Counts, Accounted, NEW r \in Requests, holds[r],
         holds' = [holds EXCEPT ![r] = FALSE], running' = running, free' = free + 1
  PROVE  Accounted'
<1>1. <<r, 0>> \in Lent
  BY PoolAssumption DEF Lent
<1>2. Lent' = Lent \ {<<r, 0>>}
  <2>1. ASSUME NEW q \in Requests, NEW i \in 0..PoolSize
        PROVE  <<q, i>> \in Lent' <=> <<q, i>> \in Lent /\ ~(q = r /\ i = 0)
    BY DEF Lent, Counts
  <2> QED
    BY <2>1 DEF Lent
<1> QED
  BY <1>1, <1>2, OneIsBack

LEMMA CardinalityOfOwn ==
  ASSUME NEW r, NEW n \in Nat
  PROVE  Cardinality({r} \X (1..n)) = n
<1>1. IsFiniteSet({r}) /\ Cardinality({r}) = 1
  BY FS_Singleton
<1>2. IsFiniteSet(1..n) /\ Cardinality(1..n) = n
  <2>1. IsFiniteSet(1..n) /\ Cardinality(1..n) = IF 1 > n THEN 0 ELSE n - 1 + 1
    BY FS_Interval
  <2> QED
    BY <2>1
<1>3. Cardinality({r} \X (1..n)) = Cardinality({r}) * Cardinality(1..n)
  BY <1>1, <1>2, FS_Product
<1> QED
  BY <1>1, <1>2, <1>3

\* A call takes a connection, which it finds because the pool is not all lent to the
\* calls of its own request, and gives it back.
LEMMA CallTakes ==
  ASSUME Counts, Accounted, NEW r \in Requests,
         running' = [running EXCEPT ![r] = @ + 1], holds' = holds,
         free > 0, free' = free - 1
  PROVE  Accounted' /\ Counts'
<1> DEFINE n == running[r]  own == {r} \X (1..n)
<1>1. n \in 0..PoolSize /\ PoolSize \in Nat
  BY PoolAssumption DEF Counts
<1>2. n \in Nat
  BY <1>1
<1>3. Cardinality(own) = n
  BY <1>2, CardinalityOfOwn, Zenon
<1>4. own \subseteq Lent
  BY <1>1 DEF Lent
<1>5. n <= Cardinality(Lent) /\ Cardinality(Lent) \in Nat
  BY <1>3, <1>4, FS_Subset, FS_CardinalityType DEF Accounted
<1> HIDE DEF own
<1>6. n + 1 \in 0..PoolSize
  BY <1>1, <1>5 DEF Accounted
<1>7. Counts'
  BY <1>6 DEF Counts
<1>8. <<r, n + 1>> \notin Lent
  BY <1>1 DEF Lent
<1>9. Lent' = Lent \cup {<<r, n + 1>>}
  <2>1. ASSUME NEW q \in Requests, NEW i \in 0..PoolSize
        PROVE  <<q, i>> \in Lent' <=> <<q, i>> \in Lent \/ (q = r /\ i = n + 1)
    BY <1>1, <1>6 DEF Lent, Counts
  <2> QED
    BY <1>6, <2>1 DEF Lent
<1> QED
  BY <1>7, <1>8, <1>9, OneIsLent

LEMMA CallGivesBack ==
  ASSUME Counts, Accounted, NEW r \in Requests, running[r] > 0,
         running' = [running EXCEPT ![r] = @ - 1], holds' = holds, free' = free + 1
  PROVE  Accounted' /\ Counts'
<1> DEFINE n == running[r]
<1>1. n \in 1..PoolSize /\ PoolSize \in Nat
  BY PoolAssumption DEF Counts
<1>2. Counts'
  BY <1>1 DEF Counts
<1>3. <<r, n>> \in Lent
  BY <1>1 DEF Lent
<1>4. Lent' = Lent \ {<<r, n>>}
  <2>1. ASSUME NEW q \in Requests, NEW i \in 0..PoolSize
        PROVE  <<q, i>> \in Lent' <=> <<q, i>> \in Lent /\ ~(q = r /\ i = n)
    BY <1>1 DEF Lent, Counts
  <2> QED
    BY <2>1 DEF Lent
<1> QED
  BY <1>2, <1>3, <1>4, OneIsBack

-----------------------------------------------------------------------------
\* The waits, and what a step of one request leaves of the invariant.

\* The step changes nothing of the other requests.
OnlyOf(r) ==
  /\ DOMAIN todo' = Requests
  /\ \A q \in Requests \ {r} :
       /\ todo'[q] = todo[q] /\ running'[q] = running[q]
       /\ holds'[q] = holds[q]

LEMMA PoolInvGives ==
  ASSUME PoolInv
  PROVE  /\ Counts /\ Accounted /\ waiting \in Seq(Wait)
         /\ Len(waiting) \in Nat
         /\ \A i \in 1..Len(waiting) : waiting[i] \in Wait
         /\ DOMAIN todo = Requests
         /\ \A r \in Requests : IsRest(todo[r]) /\ RequestSound(r)
<1>1. /\ waiting \in Seq(Wait) /\ Counts /\ Accounted /\ DOMAIN todo = Requests
      /\ \A r \in Requests : IsRest(todo[r]) /\ RequestSound(r)
  BY DEF PoolInv, PoolTypeOK, Counts, Accounted, IsRest
<1> QED
  BY <1>1, LenProperties, ElementOfSeq

LEMMA StepOfOne ==
  ASSUME PoolInv, NEW r \in Requests, OnlyOf(r), Counts', Accounted',
         IsRest(todo'[r]), RequestSound(r)', waiting' \in Seq(Wait),
         \A i \in 1..Len(waiting') : WaitSound(i)'
  PROVE  PoolInv'
<1>1. \A q \in Requests \ {r} : RequestSound(q)' /\ IsRest(todo'[q])
  BY PoolInvGives DEF OnlyOf, RequestSound, Upcoming
<1>2. PoolTypeOK'
  BY <1>1 DEF PoolTypeOK, OnlyOf, Counts, Accounted, IsRest
<1> QED
  BY <1>1, <1>2 DEF PoolInv, Accounted

\* Waits that were there before stay sound when those of the request itself do.
LEMMA WaitsStaySound ==
  ASSUME PoolInv, NEW r \in Requests, OnlyOf(r),
         waiting' \in Seq(Wait),
         NEW k \in [1..Len(waiting') -> 1..Len(waiting)],
         \A i, j \in 1..Len(waiting') : k[i] = k[j] => i = j,
         \A i \in 1..Len(waiting') : waiting'[i] = waiting[k[i]],
         \A i \in 1..Len(waiting') :
           waiting'[i].by = r =>
             IF waiting'[i].begins THEN Upcoming(r)' = "begin" /\ running'[r] = 0
                                   ELSE Upcoming(r)' \in {"none", "pool"}
  PROVE  \A i \in 1..Len(waiting') : WaitSound(i)'
<1> SUFFICES ASSUME NEW i \in 1..Len(waiting')
             PROVE  WaitSound(i)'
  OBVIOUS
<1>1. PICK q \in Requests : q = waiting'[i].by
  BY PoolInvGives DEF Wait
<1>2. WaitSound(k[i]) /\ waiting'[i] = waiting[k[i]]
  BY DEF PoolInv
<1>3. waiting'[i].begins =>
        \A j \in 1..Len(waiting') : waiting'[j].by = q => j = i
  BY <1>1, <1>2 DEF WaitSound
<1>4. IF waiting'[i].begins THEN Upcoming(q)' = "begin" /\ running'[q] = 0
                            ELSE Upcoming(q)' \in {"none", "pool"}
  <2>1. CASE q = r
    BY <1>1, <2>1
  <2>2. CASE q # r
    <3>1. Upcoming(q)' = Upcoming(q) /\ running'[q] = running[q]
      BY <2>2 DEF OnlyOf, Upcoming
    <3> QED
      BY <1>1, <1>2, <3>1 DEF WaitSound
  <2> QED
    BY <2>1, <2>2
<1> QED
  BY <1>1, <1>3, <1>4 DEF WaitSound

LEMMA SameWaitsStaySound ==
  ASSUME PoolInv, NEW r \in Requests, OnlyOf(r), waiting' = waiting,
         \A i \in 1..Len(waiting) :
           waiting[i].by = r =>
             IF waiting[i].begins THEN Upcoming(r)' = "begin" /\ running'[r] = 0
                                  ELSE Upcoming(r)' \in {"none", "pool"}
  PROVE  \A i \in 1..Len(waiting') : WaitSound(i)'
<1> DEFINE k == [i \in 1..Len(waiting') |-> i]
<1>1. /\ k \in [1..Len(waiting') -> 1..Len(waiting)]
      /\ \A i, j \in 1..Len(waiting') : k[i] = k[j] => i = j
      /\ \A i \in 1..Len(waiting') : waiting'[i] = waiting[k[i]]
  OBVIOUS
<1>2. waiting' \in Seq(Wait)
  BY PoolInvGives
<1> HIDE DEF k
<1> QED
  BY <1>1, <1>2, WaitsStaySound

\* One wait is served or given up: the others keep their order.
LEMMA RemovedIs ==
  ASSUME NEW w \in Seq(Wait), NEW i \in 1..Len(w)
  PROVE  /\ RemoveAt(w, i) \in Seq(Wait)
         /\ Len(RemoveAt(w, i)) = Len(w) - 1
         /\ \A j \in 1..(Len(w) - 1) :
              /\ j < i => RemoveAt(w, i)[j] = w[j]
              /\ j >= i => RemoveAt(w, i)[j] = w[j + 1]
<1> DEFINE a == SubSeq(w, 1, i - 1)  b == SubSeq(w, i + 1, Len(w))
<1>1. Len(w) \in Nat /\ \A j \in 1..Len(w) : w[j] \in Wait
  BY LenProperties, ElementOfSeq
<1>2. /\ a \in Seq(Wait) /\ Len(a) = i - 1
      /\ \A j \in 1..(i - 1) : a[j] = w[j]
  <2>1. \A j \in 1..(i - 1) : w[j] \in Wait
    BY <1>1
  <2>2. 1 \in Int /\ i - 1 \in Int
    BY <1>1
  <2>3. /\ a \in Seq(Wait) /\ Len(a) = IF 1 <= i - 1 THEN (i - 1) - 1 + 1 ELSE 0
        /\ \A j \in 1..((i - 1) - 1 + 1) : a[j] = w[1 + j - 1]
    BY <2>1, <2>2, SubSeqProperties
  <2> HIDE DEF a
  <2> QED
    BY <1>1, <2>3
<1>3. /\ b \in Seq(Wait) /\ Len(b) = Len(w) - i
      /\ \A j \in 1..(Len(w) - i) : b[j] = w[i + j]
  <2>1. \A j \in (i + 1)..Len(w) : w[j] \in Wait
    BY <1>1
  <2>2. i + 1 \in Int /\ Len(w) \in Int
    BY <1>1
  <2>3. /\ b \in Seq(Wait)
        /\ Len(b) = IF i + 1 <= Len(w) THEN Len(w) - (i + 1) + 1 ELSE 0
        /\ \A j \in 1..(Len(w) - (i + 1) + 1) : b[j] = w[(i + 1) + j - 1]
    BY <2>1, <2>2, SubSeqProperties
  <2> HIDE DEF b
  <2> QED
    BY <1>1, <2>3
<1>4. RemoveAt(w, i) = a \o b
  BY DEF RemoveAt
<1> HIDE DEF a, b
<1>5. /\ a \o b \in Seq(Wait) /\ Len(a \o b) = Len(a) + Len(b)
      /\ \A j \in 1..(Len(a) + Len(b)) :
           (a \o b)[j] = IF j <= Len(a) THEN a[j] ELSE b[j - Len(a)]
  BY <1>2, <1>3, ConcatProperties
<1>6. Len(a) + Len(b) = Len(w) - 1
  BY <1>1, <1>2, <1>3
<1>7. ASSUME NEW j \in 1..(Len(w) - 1)
      PROVE  /\ j < i => (a \o b)[j] = w[j]
             /\ j >= i => (a \o b)[j] = w[j + 1]
  <2>1. CASE j < i
    <3>1. j <= Len(a) /\ j \in 1..(i - 1) /\ j \in 1..(Len(a) + Len(b))
      BY <1>1, <1>2, <1>6, <2>1
    <3> QED
      BY <1>2, <1>5, <2>1, <3>1
  <2>2. CASE j >= i
    <3>1. /\ ~(j <= Len(a)) /\ j \in 1..(Len(a) + Len(b))
          /\ j - Len(a) \in 1..(Len(w) - i) /\ i + (j - Len(a)) = j + 1
      BY <1>1, <1>2, <1>6, <2>2
    <3>2. (a \o b)[j] = b[j - Len(a)]
      BY <1>5, <3>1
    <3>3. b[j - Len(a)] = w[i + (j - Len(a))]
      BY <1>3, <3>1
    <3>4. (a \o b)[j] = w[j + 1]
      BY <3>1, <3>2, <3>3
    <3> QED
      BY <2>2, <3>4
  <2> QED
    BY <1>1, <2>1, <2>2
<1> QED
  BY <1>4, <1>5, <1>6, <1>7

LEMMA OtherWaitsStaySound ==
  ASSUME PoolInv, NEW r \in Requests, OnlyOf(r), NEW i \in 1..Len(waiting),
         waiting' \in Seq(Wait), Len(waiting') = Len(waiting) - 1,
         \A j \in 1..(Len(waiting) - 1) :
           /\ j < i => waiting'[j] = waiting[j]
           /\ j >= i => waiting'[j] = waiting[j + 1],
         \A j \in 1..Len(waiting) :
           j # i /\ waiting[j].by = r =>
             IF waiting[j].begins THEN Upcoming(r)' = "begin" /\ running'[r] = 0
                                  ELSE Upcoming(r)' \in {"none", "pool"}
  PROVE  \A j \in 1..Len(waiting') : WaitSound(j)'
<1> DEFINE k == [j \in 1..Len(waiting') |-> IF j < i THEN j ELSE j + 1]
<1>1. Len(waiting) \in Nat /\ Len(waiting') = Len(waiting) - 1
  BY PoolInvGives
<1>2. /\ k \in [1..Len(waiting') -> 1..Len(waiting)]
      /\ \A j, l \in 1..Len(waiting') : k[j] = k[l] => j = l
      /\ \A j \in 1..Len(waiting') : waiting'[j] = waiting[k[j]]
      /\ \A j \in 1..Len(waiting') : k[j] # i
  BY <1>1
<1> HIDE DEF k
<1>3. \A j \in 1..Len(waiting') :
        waiting'[j].by = r =>
          IF waiting'[j].begins THEN Upcoming(r)' = "begin" /\ running'[r] = 0
                                ELSE Upcoming(r)' \in {"none", "pool"}
  BY <1>2
<1>4. /\ k \in [1..Len(waiting') -> 1..Len(waiting)]
      /\ \A j, l \in 1..Len(waiting') : k[j] = k[l] => j = l
      /\ \A j \in 1..Len(waiting') : waiting'[j] = waiting[k[j]]
  BY <1>2
<1> QED
  BY <1>3, <1>4, WaitsStaySound

-----------------------------------------------------------------------------
\* Initially, and after each action.

LEMMA PoolInit == Init => PoolInv
<1> SUFFICES ASSUME Init
             PROVE  PoolInv
  OBVIOUS
<1> USE DEF Init
<1>1. PoolSize \in Nat /\ 0 \in 0..PoolSize
  BY PoolAssumption
<1>2. Lent = {}
  BY <1>1 DEF Lent
<1>3. IsFiniteSet(Lent) /\ free + Cardinality(Lent) = PoolSize
  BY <1>1, <1>2, FS_EmptySet
<1>4. \A r \in Requests : RequestSound(r) /\ IsRest(todo[r])
  <2>1. Orderly(<<>>)
    BY DEF Orderly
  <2> QED
    BY <2>1, RestsStayRests DEF RequestSound, Upcoming
<1>5. waiting \in Seq(Wait) /\ Len(waiting) = 0
  BY EmptySeq
<1> QED
  BY <1>1, <1>3, <1>4, <1>5 DEF PoolInv, PoolTypeOK, IsRest

\* What may be next for a request that goes on, and that is answered.
LEMMA NextUpcoming ==
  ASSUME NEW r \in Requests, RequestSound(r), todo[r] # <<>>
  PROVE  /\ Orderly(Tail(todo[r])) /\ Orderly(<<>>)
         /\ Upcoming(r) \in {"pool", "begin", "inside", "commit"}
         /\ todo'[r] = Tail(todo[r]) =>
              IF Upcoming(r) \in {"begin", "inside"}
              THEN Upcoming(r)' \in {"inside", "commit"}
              ELSE Upcoming(r)' \in {"none", "pool", "begin"}
<1> DEFINE s == todo[r]
<1>1. /\ Orderly(Tail(s)) /\ Head(s) \in Step
      /\ Tail(s) # <<>> => (Opens(Head(s)) <=> Within(Head(Tail(s))))
      /\ Opens(Head(s)) => Tail(s) # <<>>
  BY TailIsOrderly DEF RequestSound
<1>2. Orderly(<<>>)
  BY DEF Orderly
<1>3. Tail(s) # <<>> => Head(Tail(s)) \in Step
  BY <1>1, TailIsOrderly
<1> QED
  BY <1>1, <1>2, <1>3 DEF Upcoming, Opens, Within, Step

LEMMA ArrivesSound ==
  ASSUME PoolInv, NEW r \in Requests, Arrives(r)
  PROVE  PoolInv'
<1>1. PICK h \in Handlers : todo' = [todo EXCEPT ![r] = h]
  BY DEF Arrives
<1>2. /\ Counts /\ Accounted /\ waiting \in Seq(Wait) /\ DOMAIN todo = Requests
      /\ RequestSound(r) /\ Counts' /\ Accounted'
  BY PoolInvGives, LentStays DEF Arrives, Counts
<1>3. todo'[r] = h /\ OnlyOf(r)
  BY <1>1, <1>2 DEF OnlyOf, Arrives
<1>4. running[r] = 0 /\ ~holds[r] /\ running' = running /\ holds' = holds
  BY <1>2 DEF Arrives, Pending, Counts, RequestSound, Upcoming
<1>5. Orderly(h) /\ Upcoming(r)' \notin {"inside", "commit"}
  <2>1. Bracketed(h)
    BY HandlersAreBracketed
  <2>2. h # <<>> => Head(h) = h[1]
    BY <2>1 DEF Bracketed, Orderly
  <2> QED
    BY <1>3, <2>1, <2>2 DEF Bracketed, Upcoming, Within
<1>6. RequestSound(r)'
  BY <1>3, <1>4, <1>5 DEF RequestSound
<1>7. \A i \in 1..Len(waiting') : WaitSound(i)'
  BY <1>3, SameWaitsStaySound DEF Arrives, Pending, WaitsOf
<1>8. IsRest(todo'[r]) /\ waiting' \in Seq(Wait)
  BY <1>2, <1>3, RestsStayRests DEF Arrives
<1> QED
  BY <1>2, <1>3, <1>6, <1>7, <1>8, StepOfOne

LEMMA AsksSound ==
  ASSUME PoolInv, NEW r \in Requests, Asks(r)
  PROVE  PoolInv'
<1> DEFINE n == Head(todo[r]).calls
           w == [by |-> r, begins |-> Upcoming(r) = "begin"]
           new == [i \in 1..n |-> w]
<1>1. /\ Counts /\ Accounted /\ waiting \in Seq(Wait) /\ DOMAIN todo = Requests
      /\ RequestSound(r) /\ IsRest(todo[r]) /\ Counts' /\ Accounted'
  BY PoolInvGives, LentStays DEF Asks, Counts
<1>2. /\ OnlyOf(r) /\ UNCHANGED <<todo, running, holds, free>>
      /\ running[r] = 0 /\ ~holds[r]
  BY <1>1 DEF OnlyOf, Asks, Pending, Counts, RequestSound
<1>3. n \in Nat /\ (Upcoming(r) = "begin" => n = 1)
  BY <1>1, TailIsOrderly DEF RequestSound, Upcoming, Step, Asks
<1>4. w \in Wait
  BY DEF Wait
<1>5. waiting' = waiting \o new
  BY DEF Asks
<1> HIDE DEF n, w
<1>6. new \in Seq(Wait) /\ Len(new) = n /\ \A i \in 1..n : new[i] = w
  BY <1>3, <1>4
<1> HIDE DEF new
<1>7. /\ waiting' \in Seq(Wait) /\ Len(waiting) \in Nat /\ Len(waiting') = Len(waiting) + n
      /\ \A i \in 1..(Len(waiting) + n) :
           waiting'[i] = IF i <= Len(waiting) THEN waiting[i] ELSE new[i - Len(waiting)]
  BY <1>1, <1>5, <1>6, ConcatProperties, LenProperties
<1>8. \A i \in 1..Len(waiting) : waiting'[i] = waiting[i] /\ waiting[i].by # r
  BY <1>7, <1>3 DEF Asks, Pending, WaitsOf
<1>9. \A i \in (Len(waiting) + 1)..Len(waiting') : waiting'[i] = w
  BY <1>3, <1>6, <1>7
<1>10. ASSUME NEW i \in 1..Len(waiting')
       PROVE  WaitSound(i)'
  <2>1. CASE i \in 1..Len(waiting)
    <3>1. PICK q \in Requests : q = waiting[i].by
      BY PoolInvGives, <2>1 DEF Wait
    <3>2. /\ waiting'[i] = waiting[i] /\ q # r /\ WaitSound(i)
          /\ Upcoming(q)' = Upcoming(q)
      BY <1>2, <1>8, <2>1, <3>1 DEF PoolInv, Upcoming
    <3>3. ASSUME NEW j \in 1..Len(waiting'), waiting'[j].by = q
          PROVE  j \in 1..Len(waiting) /\ waiting[j].by = q
      <4>1. j \in 1..Len(waiting) \/ j \in (Len(waiting) + 1)..Len(waiting')
        BY <1>3, <1>7
      <4> QED
        BY <1>8, <1>9, <3>2, <3>3, <4>1 DEF w
    <3> QED
      BY <1>2, <3>1, <3>2, <3>3 DEF WaitSound
  <2>2. CASE i \in (Len(waiting) + 1)..Len(waiting')
    <3>1. waiting'[i].by = r /\ waiting'[i].begins = (Upcoming(r) = "begin")
      BY <1>9, <2>2 DEF w
    <3>2. Upcoming(r)' = Upcoming(r) /\ Upcoming(r) \in {"pool", "begin"}
      BY <1>2 DEF Upcoming, Asks
    <3>3. ASSUME Upcoming(r) = "begin", NEW j \in 1..Len(waiting'), waiting'[j].by = r
          PROVE  j = i
      BY <1>3, <1>7, <1>8, <2>2, <3>3
    <3> QED
      BY <1>2, <3>1, <3>2, <3>3 DEF WaitSound
  <2> QED
    BY <1>3, <1>7, <2>1, <2>2
<1>11. RequestSound(r)' /\ IsRest(todo'[r])
  BY <1>1, <1>2 DEF RequestSound, Upcoming
<1> QED
  BY <1>1, <1>2, <1>7, <1>10, <1>11, StepOfOne

\* The first of those who wait gets its connection.
LEMMA GrantedSound ==
  ASSUME PoolInv, NEW r \in Requests, Granted(r)
  PROVE  PoolInv'
<1>1. /\ Counts /\ Accounted /\ waiting \in Seq(Wait) /\ DOMAIN todo = Requests
      /\ Len(waiting) \in Nat /\ RequestSound(r) /\ IsRest(todo[r])
  BY PoolInvGives
<1>2. /\ 1 \in 1..Len(waiting) /\ Head(waiting) = waiting[1] /\ waiting[1].by = r
      /\ WaitSound(1)
      /\ waiting' \in Seq(Wait) /\ Len(waiting') = Len(waiting) - 1
      /\ \A j \in 1..(Len(waiting) - 1) : waiting'[j] = waiting[j + 1]
  <2>1. waiting # <<>> /\ waiting' = Tail(waiting) /\ Head(waiting).by = r
    BY DEF Granted
  <2>2. Len(waiting) > 0
    BY <1>1, <2>1, EmptySeq
  <2> QED
    BY <1>1, <2>1, <2>2, HeadTailProperties DEF PoolInv
<1>3. CASE waiting[1].begins
  <2>1. /\ Upcoming(r) = "begin" /\ running[r] = 0 /\ ~holds[r] /\ todo[r] # <<>>
        /\ \A j \in 1..Len(waiting) : waiting[j].by = r => j = 1
    BY <1>1, <1>2, <1>3 DEF WaitSound, RequestSound, Upcoming
  <2>2. /\ holds' = [holds EXCEPT ![r] = TRUE] /\ running' = running
        /\ todo' = [todo EXCEPT ![r] = Tail(@)] /\ free > 0 /\ free' = free - 1
    BY <1>2, <1>3 DEF Granted
  <2>3. Accounted' /\ Counts'
    BY <1>1, <2>1, <2>2, BeginTakes DEF Counts
  <2>4. /\ OnlyOf(r) /\ todo'[r] = Tail(todo[r]) /\ IsRest(todo'[r])
        /\ holds'[r] /\ running'[r] = 0
    BY <1>1, <2>1, <2>2, RestsStayRests DEF OnlyOf, Counts
  <2>5. RequestSound(r)'
    BY <1>1, <2>1, <2>4, NextUpcoming DEF RequestSound
  <2>6. \A j \in 1..Len(waiting') : WaitSound(j)'
    BY <1>2, <2>1, <2>4, OtherWaitsStaySound
  <2> QED
    BY <1>2, <2>3, <2>4, <2>5, <2>6, StepOfOne
<1>4. CASE ~waiting[1].begins
  <2>1. Upcoming(r) \in {"none", "pool"}
    BY <1>2, <1>4 DEF WaitSound
  <2>2. /\ running' = [running EXCEPT ![r] = @ + 1] /\ holds' = holds /\ todo' = todo
        /\ free > 0 /\ free' = free - 1
    BY <1>2, <1>4 DEF Granted
  <2>3. Accounted' /\ Counts'
    BY <1>1, <2>2, CallTakes
  <2>4. OnlyOf(r) /\ IsRest(todo'[r]) /\ Upcoming(r)' = Upcoming(r)
    BY <1>1, <2>2 DEF OnlyOf, Counts, Upcoming
  <2>5. RequestSound(r)'
    BY <1>1, <2>1, <2>2, <2>4 DEF RequestSound
  <2>6. \A j \in 1..Len(waiting) : waiting[j].by = r => ~waiting[j].begins
    BY <2>1 DEF PoolInv, WaitSound
  <2>7. \A j \in 1..Len(waiting') : WaitSound(j)'
    BY <1>2, <2>1, <2>4, <2>6, OtherWaitsStaySound
  <2> QED
    BY <1>2, <2>3, <2>4, <2>5, <2>7, StepOfOne
<1> QED
  BY <1>3, <1>4

LEMMA ReturnsSound ==
  ASSUME PoolInv, NEW r \in Requests, Returns(r)
  PROVE  PoolInv'
<1>1. /\ Counts /\ Accounted /\ waiting \in Seq(Wait) /\ DOMAIN todo = Requests
      /\ RequestSound(r) /\ IsRest(todo[r])
  BY PoolInvGives
<1>2. /\ running' = [running EXCEPT ![r] = @ - 1] /\ running[r] > 0
      /\ free' = free + 1 /\ holds' = holds /\ waiting' = waiting
  BY DEF Returns
<1>3. Accounted' /\ Counts'
  BY <1>1, <1>2, CallGivesBack
<1>4. Upcoming(r) \in {"none", "pool"} /\ ~holds[r]
  BY <1>1, <1>2 DEF RequestSound, Counts
<1>5. \A i \in 1..Len(waiting) : waiting[i].by = r => ~waiting[i].begins
  BY <1>4 DEF PoolInv, WaitSound
<1>6. CASE running[r] = 1 /\ WaitsOf(r) = {} /\ todo[r] # <<>>
  <2>1. todo' = [todo EXCEPT ![r] = Tail(@)]
    BY <1>6 DEF Returns
  <2>2. /\ OnlyOf(r) /\ todo'[r] = Tail(todo[r]) /\ IsRest(todo'[r])
        /\ running'[r] = 0
    BY <1>1, <1>2, <1>6, <2>1, RestsStayRests DEF OnlyOf, Counts
  <2>3. RequestSound(r)'
    BY <1>1, <1>2, <1>4, <1>6, <2>2, NextUpcoming DEF RequestSound
  <2>4. \A i \in 1..Len(waiting') : WaitSound(i)'
    BY <1>2, <1>6, <2>2, SameWaitsStaySound DEF WaitsOf
  <2> QED
    BY <1>1, <1>2, <1>3, <2>2, <2>3, <2>4, StepOfOne
<1>7. CASE ~(running[r] = 1 /\ WaitsOf(r) = {} /\ todo[r] # <<>>)
  <2>1. todo' = todo
    BY <1>7 DEF Returns
  <2>2. OnlyOf(r) /\ IsRest(todo'[r]) /\ Upcoming(r)' = Upcoming(r)
    BY <1>1, <1>2, <2>1 DEF OnlyOf, Counts, Upcoming
  <2>3. RequestSound(r)'
    BY <1>1, <1>2, <1>4, <2>1, <2>2 DEF RequestSound
  <2>4. \A i \in 1..Len(waiting') : WaitSound(i)'
    BY <1>2, <1>4, <1>5, <2>2, SameWaitsStaySound
  <2> QED
    BY <1>1, <1>2, <1>3, <2>2, <2>3, <2>4, StepOfOne
<1> QED
  BY <1>6, <1>7

\* A request with an open transaction neither waits nor makes calls.
LEMMA HolderIsAlone ==
  ASSUME PoolInv, NEW r \in Requests, holds[r]
  PROVE  /\ todo[r] # <<>> /\ running[r] = 0
         /\ \A i \in 1..Len(waiting) : waiting[i].by # r
BY PoolInvImplies, PoolInvGives
   DEF HolderNeverWaits, WaitsOf, RequestSound, Upcoming

LEMMA RunsInsideSound ==
  ASSUME PoolInv, NEW r \in Requests, RunsInside(r)
  PROVE  PoolInv'
<1>1. /\ Counts /\ Accounted /\ waiting \in Seq(Wait) /\ DOMAIN todo = Requests
      /\ RequestSound(r) /\ IsRest(todo[r]) /\ Counts' /\ Accounted'
  BY PoolInvGives, LentStays DEF RunsInside, Counts
<1>2. /\ holds[r] /\ todo[r] # <<>> /\ running[r] = 0 /\ Upcoming(r) = "inside"
      /\ \A i \in 1..Len(waiting) : waiting[i].by # r
      /\ todo' = [todo EXCEPT ![r] = Tail(@)]
      /\ UNCHANGED <<running, holds, waiting, free>>
  BY HolderIsAlone DEF RunsInside
<1>3. OnlyOf(r) /\ todo'[r] = Tail(todo[r]) /\ IsRest(todo'[r])
  BY <1>1, <1>2, RestsStayRests DEF OnlyOf
<1>4. RequestSound(r)'
  BY <1>1, <1>2, <1>3, NextUpcoming DEF RequestSound
<1>5. \A i \in 1..Len(waiting') : WaitSound(i)'
  BY <1>2, <1>3, SameWaitsStaySound
<1> QED
  BY <1>1, <1>2, <1>3, <1>4, <1>5, StepOfOne

LEMMA CommitsSound ==
  ASSUME PoolInv, NEW r \in Requests, Commits(r)
  PROVE  PoolInv'
<1>1. /\ Counts /\ Accounted /\ waiting \in Seq(Wait) /\ DOMAIN todo = Requests
      /\ RequestSound(r) /\ IsRest(todo[r])
  BY PoolInvGives
<1>2. /\ holds[r] /\ todo[r] # <<>> /\ running[r] = 0 /\ Upcoming(r) = "commit"
      /\ \A i \in 1..Len(waiting) : waiting[i].by # r
      /\ todo' = [todo EXCEPT ![r] = Tail(@)]
      /\ holds' = [holds EXCEPT ![r] = FALSE] /\ free' = free + 1
      /\ UNCHANGED <<running, waiting>>
  BY HolderIsAlone DEF Commits
<1>3. Accounted' /\ Counts'
  BY <1>1, <1>2, EndGivesBack DEF Counts
<1>4. OnlyOf(r) /\ todo'[r] = Tail(todo[r]) /\ IsRest(todo'[r]) /\ ~holds'[r]
  BY <1>1, <1>2, RestsStayRests DEF OnlyOf, Counts
<1>5. RequestSound(r)'
  BY <1>1, <1>2, <1>4, NextUpcoming DEF RequestSound
<1>6. \A i \in 1..Len(waiting') : WaitSound(i)'
  BY <1>2, <1>4, SameWaitsStaySound
<1> QED
  BY <1>1, <1>2, <1>3, <1>4, <1>5, <1>6, StepOfOne

\* A request that has been answered asks for nothing more.
LEMMA AnsweredIsSound ==
  ASSUME NEW r \in Requests, todo'[r] = <<>>, ~holds'[r]
  PROVE  RequestSound(r)' /\ Upcoming(r)' = "none" /\ IsRest(todo'[r])
<1>1. Orderly(<<>>)
  BY DEF Orderly
<1> QED
  BY <1>1, RestsStayRests DEF RequestSound, Upcoming

LEMMA FailsSound ==
  ASSUME PoolInv, NEW r \in Requests, Fails(r)
  PROVE  PoolInv'
<1>1. /\ Counts /\ Accounted /\ waiting \in Seq(Wait) /\ DOMAIN todo = Requests
  BY PoolInvGives
<1>2. /\ todo' = [todo EXCEPT ![r] = <<>>] /\ holds' = [holds EXCEPT ![r] = FALSE]
      /\ running' = running /\ waiting' = waiting /\ free' = free + Back(r)
      /\ \A i \in 1..Len(waiting) : waiting[i].by # r
  BY HolderIsAlone DEF Fails, Pending, WaitsOf
<1>3. Accounted' /\ Counts'
  <2>1. CASE holds[r]
    BY <1>1, <1>2, <2>1, EndGivesBack DEF Counts, Back
  <2>2. CASE ~holds[r]
    <3>1. holds' = holds /\ free' = free
      BY <1>1, <1>2, <2>2 DEF Counts, Back, Accounted
    <3> QED
      BY <1>1, <1>2, <3>1, LentStays DEF Counts
  <2> QED
    BY <2>1, <2>2
<1>4. OnlyOf(r) /\ todo'[r] = <<>> /\ ~holds'[r]
  BY <1>1, <1>2 DEF OnlyOf, Counts
<1>5. \A i \in 1..Len(waiting') : WaitSound(i)'
  BY <1>2, <1>4, SameWaitsStaySound
<1> QED
  BY <1>1, <1>2, <1>3, <1>4, <1>5, AnsweredIsSound, StepOfOne

LEMMA CallFailsSound ==
  ASSUME PoolInv, NEW r \in Requests, CallFails(r)
  PROVE  PoolInv'
<1>1. /\ Counts /\ Accounted /\ waiting \in Seq(Wait) /\ DOMAIN todo = Requests
      /\ RequestSound(r)
  BY PoolInvGives
<1>2. Upcoming(r) \in {"none", "pool"} /\ ~holds[r] /\ running[r] > 0
  BY <1>1 DEF RequestSound, Counts, CallFails
<1>3. /\ running' = [running EXCEPT ![r] = @ - 1] /\ holds' = holds
      /\ free' = free + 1 /\ waiting' = waiting /\ todo' = [todo EXCEPT ![r] = <<>>]
  BY <1>1, <1>2 DEF CallFails, Counts, Back, Accounted
<1>4. Accounted' /\ Counts'
  BY <1>1, <1>2, <1>3, CallGivesBack
<1>5. OnlyOf(r) /\ todo'[r] = <<>> /\ ~holds'[r]
  BY <1>1, <1>2, <1>3 DEF OnlyOf, Counts
<1>6. \A i \in 1..Len(waiting) : waiting[i].by = r => ~waiting[i].begins
  BY <1>2 DEF PoolInv, WaitSound
<1>7. \A i \in 1..Len(waiting') : WaitSound(i)'
  BY <1>3, <1>5, <1>6, AnsweredIsSound, SameWaitsStaySound
<1> QED
  BY <1>1, <1>3, <1>4, <1>5, <1>7, AnsweredIsSound, StepOfOne

LEMMA GivesUpSound ==
  ASSUME PoolInv, NEW r \in Requests, GivesUp(r)
  PROVE  PoolInv'
<1>1. /\ Counts /\ Accounted /\ waiting \in Seq(Wait) /\ DOMAIN todo = Requests
      /\ RequestSound(r)
  BY PoolInvGives
<1>2. PICK i \in 1..Len(waiting) :
        /\ waiting[i].by = r /\ waiting' = RemoveAt(waiting, i)
        /\ todo' = [todo EXCEPT ![r] = <<>>] /\ holds' = [holds EXCEPT ![r] = FALSE]
        /\ free' = free + Back(r) /\ running' = running
  BY DEF GivesUp
<1>3. ~holds[r] /\ WaitSound(i)
  BY <1>2, HolderIsAlone DEF PoolInv
<1>4. holds' = holds /\ free' = free
  BY <1>1, <1>2, <1>3 DEF Counts, Back, Accounted
<1>5. Accounted' /\ Counts'
  BY <1>1, <1>2, <1>4, LentStays DEF Counts
<1>6. OnlyOf(r) /\ todo'[r] = <<>> /\ ~holds'[r]
  BY <1>1, <1>2, <1>3, <1>4 DEF OnlyOf
<1>7. /\ waiting' \in Seq(Wait) /\ Len(waiting') = Len(waiting) - 1
      /\ \A j \in 1..(Len(waiting) - 1) :
           /\ j < i => waiting'[j] = waiting[j]
           /\ j >= i => waiting'[j] = waiting[j + 1]
  BY <1>1, <1>2, RemovedIs
<1>8. \A j \in 1..Len(waiting) : j # i /\ waiting[j].by = r => ~waiting[j].begins
  BY <1>2, <1>3 DEF PoolInv, WaitSound
<1>9. \A j \in 1..Len(waiting') : WaitSound(j)'
  <2>1. Upcoming(r)' = "none"
    BY <1>6, AnsweredIsSound
  <2>2. \A j \in 1..Len(waiting) :
          j # i /\ waiting[j].by = r =>
            IF waiting[j].begins THEN Upcoming(r)' = "begin" /\ running'[r] = 0
                                 ELSE Upcoming(r)' \in {"none", "pool"}
    BY <1>8, <2>1
  <2> QED
    BY <1>6, <1>7, <2>2, OtherWaitsStaySound
<1> QED
  BY <1>5, <1>6, <1>7, <1>9, AnsweredIsSound, StepOfOne

-----------------------------------------------------------------------------
\* The theorems.

LEMMA PoolStep == PoolInv /\ [Next]_vars => PoolInv'
<1> SUFFICES ASSUME PoolInv, [Next]_vars
             PROVE  PoolInv'
  OBVIOUS
<1>1. CASE Next
  <2>1. PICK r \in Requests :
          Arrives(r) \/ Proceeds(r) \/ Fails(r) \/ CallFails(r) \/ GivesUp(r)
    BY <1>1 DEF Next
  <2>2. CASE Arrives(r)
    BY <2>2, ArrivesSound
  <2>3. CASE Asks(r)
    BY <2>3, AsksSound
  <2>4. CASE Granted(r)
    BY <2>4, GrantedSound
  <2>5. CASE Returns(r)
    BY <2>5, ReturnsSound
  <2>6. CASE RunsInside(r)
    BY <2>6, RunsInsideSound
  <2>7. CASE Commits(r)
    BY <2>7, CommitsSound
  <2>8. CASE Fails(r)
    BY <2>8, FailsSound
  <2>9. CASE CallFails(r)
    BY <2>9, CallFailsSound
  <2>10. CASE GivesUp(r)
    BY <2>10, GivesUpSound
  <2> QED
    BY <2>1, <2>2, <2>3, <2>4, <2>5, <2>6, <2>7, <2>8, <2>9, <2>10 DEF Proceeds
<1>2. CASE UNCHANGED vars
  BY <1>2 DEF vars, PoolInv, PoolTypeOK, Lent, RequestSound, WaitSound, Upcoming
<1> QED
  BY <1>1, <1>2

\* Whatever the handlers do and however they fail, a request with an open transaction has
\* no call that waits for or runs on another connection of the pool, for any size of the
\* pool, any requests, any number of draws and any bulk change: production may set
\* connection_limit to 1.
THEOREM HoldersNeverWait == Spec => []HolderNeverWaits
<1>1. Init => PoolInv
  BY PoolInit
<1>2. PoolInv /\ [Next]_vars => PoolInv'
  BY PoolStep
<1>3. PoolInv => HolderNeverWaits
  BY PoolInvImplies
<1> QED
  BY <1>1, <1>2, <1>3, PTL DEF Spec

\* What each request has still to do is the end of a handler, and the connections that
\* are free and those that are lent make up the pool: none is lost when a request fails
\* or gives up, and none is given back twice.
THEOREM ConnectionsAccounted == Spec => []PoolTypeOK
<1>1. Init => PoolInv
  BY PoolInit
<1>2. PoolInv /\ [Next]_vars => PoolInv'
  BY PoolStep
<1>3. PoolInv => PoolTypeOK
  BY PoolInvImplies
<1> QED
  BY <1>1, <1>2, <1>3, PTL DEF Spec
=============================================================================
