-------------------------- MODULE FreshShipmentProofs -------------------------
(***************************************************************************)
(* Facts about tariffs and fresh shipments, for any weight and rate.       *)
(***************************************************************************)
EXTENDS FreshShipment, TLAPS

\* A tariff is made of natural numbers (calculateTariff).
LEMMA TariffType ==
  ASSUME NEW weight \in Nat, NEW rate \in Rate
  PROVE  /\ calculateTariff(weight, rate) \in
              [chargeableWeight : Nat, weightFee : Nat, total : Nat]
         /\ calculateTariff(weight, rate).total \in Nat
         /\ calculateTariff(weight, rate).chargeableWeight \in Nat
<1> DEFINE kg  == chargeableWeightOf(weight, rate)
           fee == weightFeeOf(weight, rate)
<1>1. CeilKg(weight) \in Nat
  BY DEF CeilKg
<1>2. kg \in Nat
  BY <1>1 DEF chargeableWeightOf, AtLeast, Rate
<1>3. fee \in Nat
  <2>1. \A a, b \in Nat : a * b \in Nat
    OBVIOUS
  <2>2. QED
    BY <1>2, <2>1 DEF weightFeeOf, Rate
<1>4. RoundUp100(fee + rate.baseFee) \in Nat
  <2>1. \A a \in Nat : RoundUp100(a) \in Nat
    BY DEF RoundUp100
  <2>2. QED
    BY <1>3, <2>1 DEF Rate
<1>5. QED
  BY <1>2, <1>3, <1>4 DEF calculateTariff

\* The bill of a fresh shipment is the tariff at its rate, all of it owed
\* (ShipmentsRepository.create).
LEMMA BookedIs ==
  ASSUME NEW service, NEW weight \in Nat, NEW rate \in Rate, NEW recipient
  PROVE  LET row    == Booked(service, rate, weight, recipient)
             tariff == calculateTariff(weight, rate)
         IN  /\ row.rate = rate
             /\ row.declaredWeight = weight
             /\ row.chargeableWeight = tariff.chargeableWeight
             /\ row.totalAmount = tariff.total
             /\ row.outstandingAmount = tariff.total
BY DEF Booked
===============================================================================
