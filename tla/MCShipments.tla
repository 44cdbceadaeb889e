----------------------------- MODULE MCShipments ------------------------------
(* Values of the constants of Shipments for TLC, and its symmetries.       *)
EXTENDS ShipmentsJourney, TLC

\* One rate on which the rounding up to Rp100, the minimum weight and the base fee
\* all matter.
OneRate ==
  {[pricePerKg |-> 130, minChargeableWeight |-> 3, baseFee |-> 50]}

\* 1.1, 2.5 and 3.5 kg: below the minimum weight, at it, and above it.
SomeWeights == {11, 25, 35}
OneWeight == {25}

\* Weights that the checks of correctWeight refuse, beside two that it takes.
EdgeWeights == {0, 25, 35, MAX_WEIGHT + 1}

AllOperations ==
  {"cancel", "update", "upload", "verify", "reject", "status", "bulk", "weight"}

Symmetric == Permutations(Requests) \cup Permutations(Payments)
===============================================================================
