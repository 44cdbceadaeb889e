--------------------------- MODULE DeliveryJourney ----------------------------
(***************************************************************************)
(* What the status machine and the payment desk promise about a shipment,  *)
(* without statuses, tables or requests: a journey of seven legs taken one *)
(* at a time, which can pause between arrival at the warehouse and         *)
(* delivery, can be called off until departure or while it pauses, and is  *)
(* settled by at most one payment, once and for all.                       *)
(***************************************************************************)
EXTENDS Naturals

CONSTANTS Shipments, Payments, NoPayment

VARIABLES
  leg,        \* 0 when called off, else how far the shipment has come
  held,       \* whether it pauses there
  settled     \* the payment that settled it, if any

vars == <<leg, held, settled>>

CalledOff == 0
AwaitsPayment == 1
AtWarehouse == 3
Delivered == 7

Init ==
  /\ leg = [s \in Shipments |-> AwaitsPayment]
  /\ held = [s \in Shipments |-> FALSE]
  /\ settled = [s \in Shipments |-> NoPayment]

Advance(s) ==
  /\ ~held[s]
  /\ leg[s] \in AwaitsPayment .. (Delivered - 1)
  /\ leg' = [leg EXCEPT ![s] = @ + 1]
  /\ UNCHANGED <<held, settled>>

Hold(s) ==
  /\ ~held[s]
  /\ leg[s] \in AtWarehouse .. (Delivered - 1)
  /\ held' = [held EXCEPT ![s] = TRUE]
  /\ UNCHANGED <<leg, settled>>

Resume(s) ==
  /\ held[s]
  /\ held' = [held EXCEPT ![s] = FALSE]
  /\ UNCHANGED <<leg, settled>>

CallOff(s) ==
  /\ held[s] \/ leg[s] \in AwaitsPayment .. AtWarehouse
  /\ leg' = [leg EXCEPT ![s] = CalledOff]
  /\ held' = [held EXCEPT ![s] = FALSE]
  /\ UNCHANGED settled

\* A payment may settle a shipment at any point of its journey, or after it; one
\* that waits for payment thereby takes its first leg.
Settle(s, p) ==
  /\ settled[s] = NoPayment
  /\ settled' = [settled EXCEPT ![s] = p]
  /\ leg' = [leg EXCEPT ![s] = IF @ = AwaitsPayment THEN @ + 1 ELSE @]
  /\ UNCHANGED held

Next ==
  \E s \in Shipments :
    \/ Advance(s)
    \/ Hold(s)
    \/ Resume(s)
    \/ CallOff(s)
    \/ \E p \in Payments : Settle(s, p)

Spec == Init /\ [][Next]_vars
===============================================================================
