------------------------------ MODULE MCBookings ------------------------------
(* Values of the constants of Bookings for TLC, and its symmetries.        *)
EXTENDS BookingsShop, TLC

ToPort == [serviceType |-> "PORT_TO_PORT", destinationCode |-> "BPN"]
ToDoor == [serviceType |-> "PORT_TO_DOOR", destinationCode |-> "BPN"]

OneRoute  == {ToPort}
TwoRoutes == {ToPort, ToDoor}

\* Two rates that differ in every column.
TwoOffers ==
  {[pricePerKg |-> 130, minChargeableWeight |-> 3, baseFee |-> 50],
   [pricePerKg |-> 200, minChargeableWeight |-> 1, baseFee |-> 0]}

\* ... and one that setRate refuses.
SomeOffers == TwoOffers \cup {[pricePerKg |-> 0, minChargeableWeight |-> 1, baseFee |-> 0]}

NoSeed   == <<>>
SeededOne ==
  <<[route |-> ToPort, isActive |-> TRUE,
     terms |-> [pricePerKg |-> 130, minChargeableWeight |-> 3, baseFee |-> 50]]>>

\* 2.5 kg, and a weight over the limit.
SomeWeights == {25, MAX_WEIGHT + 1}

Symmetric ==
  Permutations(Admins) \cup Permutations(Clerks) \cup Permutations(Desks)
    \cup Permutations(Numbers)
===============================================================================
