---------------------------- MODULE ConnectionPool ----------------------------
(***************************************************************************)
(* How the handlers share the connections to the database.  A call of a    *)
(* repository takes a connection of Prisma's pool and gives it back; an    *)
(* interactive transaction keeps one from its begin to its end, and only   *)
(* the calls that are handed the transaction's client run on it.  In       *)
(* production the pool has one connection (README.md:317).                 *)
(***************************************************************************)
EXTENDS Naturals, FiniteSets, Sequences, SequencesExt

CONSTANTS
  PoolSize,       \* connection_limit
  Requests,       \* requests in flight
  Attempts,       \* draws of a tracking number, TRACKING_NUMBER_ATTEMPTS
  BulkRows        \* rows of a bulk change that pass the check

ASSUME PoolAssumption == PoolSize \in Nat \ {0} /\ {Attempts, BulkRows} \subseteq Nat \ {0}

-----------------------------------------------------------------------------
\* What a handler asks of the pool, in order.  A step is some calls at once, a call
\* inside the open transaction, or the begin or commit of one.

Begin == [kind |-> "begin", calls |-> 1]
Commit == [kind |-> "commit", calls |-> 0]
AtOnce(n) == <<[kind |-> "pool", calls |-> n]>>
Call == AtOnce(1)
Inside == <<[kind |-> "inside", calls |-> 0]>>
\* (tx ?? this.prisma): the transaction's connection, or one of the pool.
Through(tx) == IF tx THEN Inside ELSE Call
transaction(body) == <<Begin>> \o body \o <<Commit>>
\* The steps of a sequence, n times over.
Times(n, steps) == [i \in 1..(n * Len(steps)) |-> steps[((i - 1) % Len(steps)) + 1]]

findUserById_IgnoresTransaction(tx) == Call
findUserById(tx) == Through(tx)
AuditCreate_IgnoresTransaction(tx) == Call
AuditCreate(tx) == Through(tx)
\* The audit row copies the name of the actor, who is looked up first.
record(tx) == findUserById(tx) \o AuditCreate(tx)

-----------------------------------------------------------------------------
\* The repositories' transactions; audit is the callback that a service hands them.

ReviewAgent(audit) == transaction(Inside \o audit)
UpdateUserStatus(audit) == transaction(Inside \o audit)
CreateRoute(audit) == transaction(Inside \o audit)
UpdateRoute(audit) == transaction(Inside \o audit)
SetRate(audit) == transaction(Inside \o Inside \o audit) \o Call
CreateShipment(saved) == transaction(Inside \o Times(saved, Inside))
UpdateShipment(items) == transaction(Times(items, Inside) \o Inside)
ApplyStatusTransition(audit) == transaction(Inside \o audit)
ApplyWeightCorrection(audit) == transaction(Inside \o audit)
CreateWithAttachment == transaction(Inside \o Inside \o Inside)
VerifyPayment(audit) == transaction(Inside \o Inside \o audit)
RejectPayment(audit) == transaction(Inside \o Inside \o audit)

-----------------------------------------------------------------------------
\* The handlers, up to the early ends that Fails(r) stands for.

nextTrackingNumber(n) == Times(n, Call)
getPricing == Call

Login == Call \o Call
Refresh == Call \o Call \o Call
ChangePassword == findUserById(FALSE) \o Call \o Call
UpdateProfile(n) == findUserById(FALSE) \o Times(n, Call) \o findUserById(FALSE)

ReviewByAdmin == Call \o ReviewAgent(record(TRUE)) \o Call
StatusByAdmin == Call \o UpdateUserStatus(record(TRUE)) \o Call
UserDetail == Call \o AtOnce(3)

RouteByAdmin == Call \o CreateRoute(record(TRUE))
RouteUpdateByAdmin == Call \o UpdateRoute(record(TRUE)) \o Call
RateByAdmin == Call \o SetRate(record(TRUE)) \o Call
RoutesForAdmin == AtOnce(2)

Create(n, saved) ==
  findUserById(FALSE) \o getPricing \o nextTrackingNumber(n) \o CreateShipment(saved)
Duplicate(n) == Call \o Create(n, 0)
CreateWalkIn(n) == Create(n, 0) \o record(FALSE)
Update(items) == Call \o UpdateShipment(items)
Cancel == Call \o Call
ApplyTransition == ApplyStatusTransition(record(TRUE))
ChangeStatus == Call \o ApplyTransition
BulkChangeStatus(n) == Call \o Times(n, ApplyTransition)
CorrectWeight == Call \o ApplyWeightCorrection(record(TRUE))

UploadProof == Call \o CreateWithAttachment \o Call
Verify == Call \o Call \o VerifyPayment(record(TRUE)) \o Call
Reject == Call \o RejectPayment(record(TRUE)) \o Call

AdminSummary == AtOnce(7)
Summary == AtOnce(2)

Handlers ==
  {Login, Refresh, ChangePassword, ReviewByAdmin, StatusByAdmin, UserDetail,
   RouteByAdmin, RouteUpdateByAdmin, RateByAdmin, RoutesForAdmin, Cancel,
   ChangeStatus, CorrectWeight, UploadProof, Verify, Reject, AdminSummary, Summary}
  \cup {UpdateProfile(n) : n \in 0..2} \cup {Update(items) : items \in 0..2}
  \cup {BulkChangeStatus(n) : n \in 1..BulkRows}
  \cup {Create(n, saved) : n \in 1..Attempts, saved \in 0..1}
  \cup {Duplicate(n) : n \in 1..Attempts} \cup {CreateWalkIn(n) : n \in 1..Attempts}

-----------------------------------------------------------------------------
VARIABLES
  todo,       \* what each request has still to ask, <<>> once it is answered
  running,    \* how many of its calls have a connection of the pool
  holds,      \* whether it has an open transaction
  waiting,    \* who waits for a connection, in the order they asked
  free        \* connections that nobody has

vars == <<todo, running, holds, waiting, free>>

Wait == [by : Requests, begins : BOOLEAN]
WaitsOf(r) == {i \in 1..Len(waiting) : waiting[i].by = r}
\* Calls under way; those of a request that failed end on their own.
Pending(r) == running[r] > 0 \/ WaitsOf(r) # {}
Upcoming(r) == IF todo[r] = <<>> THEN "none" ELSE Head(todo[r]).kind
Back_Always(r) == 1
\* What a rollback gives back.
Back(r) == IF holds[r] THEN 1 ELSE 0

\* The connections that are lent: <<r, 0>> is that of r's transaction, <<r, i>> that
\* of its i-th call under way.
Lent == {c \in Requests \X (0..PoolSize) :
           IF c[2] = 0 THEN holds[c[1]] ELSE c[2] <= running[c[1]]}

\* What is left of a handler after its first n steps.
Rest(h, n) == SubSeq(h, n + 1, Len(h))

\* Types, and no connection is lost or given back twice.
PoolTypeOK ==
  /\ DOMAIN todo = Requests
  /\ \A r \in Requests : \E h \in Handlers : \E n \in 0..Len(h) : todo[r] = Rest(h, n)
  /\ running \in [Requests -> 0..PoolSize] /\ holds \in [Requests -> BOOLEAN]
  /\ waiting \in Seq(Wait) /\ free \in 0..PoolSize
  /\ free + Cardinality(Lent) = PoolSize

Init ==
  /\ todo = [r \in Requests |-> <<>>]
  /\ running = [r \in Requests |-> 0]
  /\ holds = [r \in Requests |-> FALSE]
  /\ waiting = <<>>
  /\ free = PoolSize

Arrives(r) ==
  /\ todo[r] = <<>> /\ ~Pending(r)
  /\ \E h \in Handlers : todo' = [todo EXCEPT ![r] = h]
  /\ UNCHANGED <<running, holds, waiting, free>>

Asks(r) ==
  /\ ~Pending(r) /\ Upcoming(r) \in {"pool", "begin"}
  /\ waiting' = waiting \o [i \in 1..Head(todo[r]).calls |->
                             [by |-> r, begins |-> Upcoming(r) = "begin"]]
  /\ UNCHANGED <<todo, running, holds, free>>

\* The pool serves in the order of asking.
Granted(r) ==
  /\ waiting # <<>> /\ free > 0 /\ Head(waiting).by = r
  /\ free' = free - 1
  /\ waiting' = Tail(waiting)
  /\ IF Head(waiting).begins
     THEN /\ holds' = [holds EXCEPT ![r] = TRUE]
          /\ todo' = [todo EXCEPT ![r] = Tail(@)]
          /\ UNCHANGED running
     ELSE /\ running' = [running EXCEPT ![r] = @ + 1]
          /\ UNCHANGED <<todo, holds>>

\* The handler goes on when all the calls it made at once are back.
Returns(r) ==
  /\ running[r] > 0
  /\ running' = [running EXCEPT ![r] = @ - 1]
  /\ free' = free + 1
  /\ todo' = IF running[r] = 1 /\ WaitsOf(r) = {} /\ todo[r] # <<>>
             THEN [todo EXCEPT ![r] = Tail(@)] ELSE todo
  /\ UNCHANGED <<holds, waiting>>

RunsInside(r) ==
  /\ holds[r] /\ Upcoming(r) = "inside"
  /\ todo' = [todo EXCEPT ![r] = Tail(@)]
  /\ UNCHANGED <<running, holds, waiting, free>>

Commits(r) ==
  /\ holds[r] /\ Upcoming(r) = "commit"
  /\ todo' = [todo EXCEPT ![r] = Tail(@)]
  /\ holds' = [holds EXCEPT ![r] = FALSE]
  /\ free' = free + 1
  /\ UNCHANGED <<running, waiting>>

\* A refusal, an error inside the transaction or its timeout: the request is answered and
\* an open transaction rolled back.
Fails(r) ==
  /\ todo[r] # <<>> /\ (holds[r] \/ ~Pending(r))
  /\ todo' = [todo EXCEPT ![r] = <<>>]
  /\ holds' = [holds EXCEPT ![r] = FALSE]
  /\ free' = free + Back(r)
  /\ UNCHANGED <<running, waiting>>

\* The calls that were made together with the failed one go on.
CallFails(r) ==
  /\ running[r] > 0
  /\ running' = [running EXCEPT ![r] = @ - 1]
  /\ todo' = [todo EXCEPT ![r] = <<>>]
  /\ holds' = [holds EXCEPT ![r] = FALSE]
  /\ free' = free + 1 + Back(r)
  /\ UNCHANGED waiting

\* pool_timeout of a call, maxWait of a transaction.
GivesUp(r) ==
  \E i \in 1..Len(waiting) :
    /\ waiting[i].by = r
    /\ waiting' = RemoveAt(waiting, i)
    /\ todo' = [todo EXCEPT ![r] = <<>>]
    /\ holds' = [holds EXCEPT ![r] = FALSE]
    /\ free' = free + Back(r)
    /\ UNCHANGED running

Proceeds(r) == Asks(r) \/ Granted(r) \/ Returns(r) \/ RunsInside(r) \/ Commits(r)
Next == \E r \in Requests :
          Arrives(r) \/ Proceeds(r) \/ Fails(r) \/ CallFails(r) \/ GivesUp(r)

\* The event loop and the database go on; nobody must send a request, and nothing is
\* assumed to fail or to time out.
Spec == Init /\ [][Next]_vars /\ \A r \in Requests : WF_vars(Proceeds(r))

-----------------------------------------------------------------------------
\* A request never waits for the pool while it has a connection of it: with one
\* connection it would wait for itself until its transaction expires
\* (auth.repository.ts:16-19).
HolderNeverWaits == \A r \in Requests : holds[r] => WaitsOf(r) = {} /\ running[r] = 0

\* Every request is answered as long as the database answers, without the help of a
\* timeout, however few connections there are and however many calls are made at once.
EveryRequestIsAnswered == \A r \in Requests : todo[r] # <<>> ~> todo[r] = <<>>
=============================================================================
