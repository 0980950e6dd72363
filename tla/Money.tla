-------------------------------- MODULE Money --------------------------------
(***************************************************************************)
(* Amounts on their way from a message to a DECIMAL(38,9) column           *)
(* (money.rs).  A message writes an amount as digits with some of them     *)
(* after the separator, a comma or a dot; the same amount can be written   *)
(* with more zeros.  FromStr and the two directions of Rescale stand for   *)
(* rust_decimal, which is not in the repository: a mantissa of 96 bits and *)
(* a scale, and a rescale that stops early when the mantissa is full.  The *)
(* sign, which nothing here depends on, is left out.                       *)
(***************************************************************************)
EXTENDS Integers, FiniteSetsExt

CONSTANTS
  MaxMantissa, \* 2^96 - 1
  MaxScale,    \* 28
  MoneyScale,  \* 9
  Limit        \* 10^38, more than MaxMantissa

ASSUME MoneyAssumption ==
  /\ MaxMantissa \in Nat /\ MaxScale \in Nat /\ MoneyScale \in 0 .. MaxScale
  /\ Limit \in Nat /\ Limit > MaxMantissa

\* Rust's Option::None, and SQL's NULL.
NoAmount == [none |-> TRUE]
-----------------------------------------------------------------------------
Pow10(k) == LET pow[j \in 0 .. k] == IF j = 0 THEN 1 ELSE 10 * pow[j - 1] IN pow[k]

\* n with the last k digits rounded off, half away from zero.
RoundOff(n, k) == (n + Pow10(k) \div 2) \div Pow10(k)

\* Decimal::from_str keeps as many decimals as fit, or fails.
FromStr(w) ==
  LET fits == {s \in 0 .. MaxScale :
                 s <= w.decimals /\ RoundOff(w.digits, w.decimals - s) <= MaxMantissa}
  IN IF fits = {} THEN NoAmount
     ELSE [mantissa |-> RoundOff(w.digits, w.decimals - Max(fits)), scale |-> Max(fits)]

\* Decimal::rescale to a smaller scale, and to a larger one.
RescaleDown(d, scale) ==
  [mantissa |-> RoundOff(d.mantissa, d.scale - scale), scale |-> scale]

RescaleUp(d, scale) ==
  LET k == Max({j \in 0 .. scale - d.scale : d.mantissa * Pow10(j) <= MaxMantissa})
  IN [mantissa |-> d.mantissa * Pow10(k), scale |-> d.scale + k]

Rescale(d, scale) ==
  IF d.scale > scale THEN RescaleDown(d, scale) ELSE RescaleUp(d, scale)

\* Bug: more decimals than the column has are cut off, not rounded.
ClampScaleCutting(d) ==
  IF d.scale > MoneyScale
  THEN [mantissa |-> d.mantissa \div Pow10(d.scale - MoneyScale), scale |-> MoneyScale]
  ELSE d

\* clamp_scale.
ClampScale(d) == IF d.scale > MoneyScale THEN Rescale(d, MoneyScale) ELSE d

\* Bug: the mantissa is stored at the scale it was written with.
ToDecimal128Unscaled(d) == [i128 |-> d.mantissa]

\* to_decimal128_i128: the mantissa at the scale of the column.
ToDecimal128(d) ==
  LET m == Rescale(d, MoneyScale).mantissa
  IN IF m < Limit THEN [i128 |-> m] ELSE NoAmount

\* parse_mt_amount and parse_mx_amount, of digits that are there.
ParseAmount(w) == LET d == FromStr(w) IN IF d = NoAmount THEN NoAmount ELSE ClampScale(d)

\* dec_col: the value of a row in a DECIMAL(38,9) column.
DecCol(d) == IF d = NoAmount THEN NoAmount ELSE ToDecimal128(d)
-----------------------------------------------------------------------------
SameAmount(v, w) == v.digits * Pow10(w.decimals) = w.digits * Pow10(v.decimals)

\* The column's scale does not overfill a mantissa with this amount.
Fits(w) == /\ w.decimals <= MoneyScale
           /\ w.digits * Pow10(MoneyScale - w.decimals) <= MaxMantissa
=============================================================================
