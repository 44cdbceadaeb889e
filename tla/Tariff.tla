-------------------------------- MODULE Tariff --------------------------------
(***************************************************************************)
(* The tariff formula, src/src/common/utils/money.ts.  Amounts are BigInt  *)
(* rupiah in the code, so unbounded integers here.  A weight is a Float in *)
(* kilograms of which only the ceiling is ever used; it is counted here in *)
(* tenths of a kilogram.                                                   *)
(***************************************************************************)
EXTENDS Integers

\* rates.service.ts: 1000 kg, in tenths.
MAX_WEIGHT == 10000

Rate == [pricePerKg : Nat, minChargeableWeight : Nat, baseFee : Nat]

CeilKg(weight) == (weight + 9) \div 10

AtLeast(a, b) == IF a >= b THEN a ELSE b

\* Rounds an amount up to the next multiple of Rp100.
RoundUp100(amount) == ((amount + 99) \div 100) * 100

chargeableWeightOf(weight, rate) ==
  AtLeast(CeilKg(weight), rate.minChargeableWeight)

weightFeeOf(weight, rate) == chargeableWeightOf(weight, rate) * rate.pricePerKg

calculateTariff(weight, rate) ==
  [chargeableWeight |-> chargeableWeightOf(weight, rate),
   weightFee        |-> weightFeeOf(weight, rate),
   total            |-> RoundUp100(weightFeeOf(weight, rate) + rate.baseFee)]
===============================================================================
