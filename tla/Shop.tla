--------------------------------- MODULE Shop ---------------------------------
(***************************************************************************)
(* What the booking handlers promise, without tables, requests or draws: a *)
(* shop with a price list that changes under way.  A client is let in if   *)
(* he is welcome, is quoted a price that is in force at that moment on a   *)
(* route that is served, and buys at that price, once, or leaves.  What is *)
(* sold stays as it was sold.                                              *)
(***************************************************************************)
EXTENDS Tariff, Sequences

CONSTANTS Routes, Offers, Emails, Weights, Numbers, Clients

VARIABLES
  served,     \* the routes that are served
  tags,       \* the terms in force on each route: one, if all is well
  welcome,    \* who may book for himself (FALSE), and for whom an admin may (TRUE)
  client,     \* how far each client has come
  sold,       \* the sales, in their order
  recorded    \* the admin's sales that are on record

prices  == <<served, tags>>
vars    == <<prices, welcome, client, sold, recorded>>

Outside == [at |-> "outside"]

Goes(c, to) == client' = [client EXCEPT ![c] = to]

-------------------------------------------------------------------------------
(* The price list and the guest list.                                      *)

ServeOrNot(k) ==
  /\ served' \in {served \cup {k}, served \ {k}}
  /\ UNCHANGED <<tags, welcome, client, sold, recorded>>

\* New terms for one route take the place of old ones of the same route.
Retag(k, terms, former) ==
  /\ tags' = [tags EXCEPT ![k] = (@ \ former) \cup {terms}]
  /\ UNCHANGED <<served, welcome, client, sold, recorded>>

\* One person at a time.
Reconsider(u, by) ==
  /\ welcome' = [byAdmin \in BOOLEAN |->
                   IF byAdmin \in by THEN welcome[byAdmin] \cup {u}
                                     ELSE welcome[byAdmin] \ {u}]
  /\ UNCHANGED <<prices, client, sold, recorded>>

-------------------------------------------------------------------------------
(* Clients.                                                                *)

Enter(c, asked) ==
  /\ client[c] = Outside
  /\ asked.owner \in welcome[asked.byAdmin]
  /\ asked.weight <= MAX_WEIGHT
  /\ asked.saveRecipient => ~asked.byAdmin
  /\ Goes(c, [at |-> "counter", asked |-> asked])
  /\ UNCHANGED <<prices, welcome, sold, recorded>>

Quote(c, terms) ==
  /\ client[c].at = "counter"
  /\ client[c].asked.route \in served
  /\ terms \in tags[client[c].asked.route]
  /\ Goes(c, [at |-> "quoted", asked |-> client[c].asked, terms |-> terms])
  /\ UNCHANGED <<prices, welcome, sold, recorded>>

Sale(asked, terms, number) ==
  [owner |-> asked.owner, route |-> asked.route, number |-> number,
   byAdmin |-> asked.byAdmin, terms |-> terms, weight |-> asked.weight,
   bill |-> calculateTariff(asked.weight, terms).total,
   debt |-> calculateTariff(asked.weight, terms).total,
   kept |-> asked.saveRecipient]

\* At the quoted price, whatever the price list says by now.
Buy(c, number) ==
  /\ client[c].at = "quoted"
  /\ \A i \in DOMAIN sold : sold[i].number # number
  /\ sold' = Append(sold, Sale(client[c].asked, client[c].terms, number))
  /\ Goes(c, IF client[c].asked.byAdmin
             THEN [at |-> "record", sale |-> Len(sold) + 1] ELSE Outside)
  /\ UNCHANGED <<prices, welcome, recorded>>

Record(c) ==
  /\ client[c].at = "record"
  /\ recorded' = recorded \cup {client[c].sale}
  /\ Goes(c, Outside)
  /\ UNCHANGED <<prices, welcome, sold>>

Leave(c) ==
  /\ Goes(c, Outside)
  /\ UNCHANGED <<prices, welcome, sold, recorded>>

-------------------------------------------------------------------------------
Asked ==
  [owner : Emails, route : Routes, weight : Weights,
   byAdmin : BOOLEAN, saveRecipient : BOOLEAN]

Init ==
  /\ served \in SUBSET Routes
  /\ tags \in [Routes -> SUBSET Offers]
  /\ welcome \in [BOOLEAN -> SUBSET Emails]
  /\ client = [c \in Clients |-> Outside]
  /\ sold = <<>>
  /\ recorded = {}

Next ==
  \/ \E k \in Routes :
       \/ ServeOrNot(k)
       \/ \E terms \in Offers, former \in SUBSET tags[k] : Retag(k, terms, former)
  \/ \E u \in Emails, by \in SUBSET BOOLEAN : Reconsider(u, by)
  \/ \E c \in Clients :
       \/ \E asked \in Asked : Enter(c, asked)
       \/ \E terms \in Offers : Quote(c, terms)
       \/ \E number \in Numbers : Buy(c, number)
       \/ Record(c)
       \/ Leave(c)

Spec == Init /\ [][Next]_vars
===============================================================================
