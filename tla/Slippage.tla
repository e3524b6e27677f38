------------------------------ MODULE Slippage ------------------------------
(***************************************************************************)
(* The slippage guards of amm-core: a quoted amount becomes a floor on the *)
(* output or a ceiling on the input, and a per-hop tolerance is compounded *)
(* over the hops of one transaction.  Amounts are raw base units; a        *)
(* tolerance is a number of basis points, and may exceed BPS_ONE (it is a  *)
(* bare u16 in the code).                                                  *)
(***************************************************************************)
EXTENDS Naturals

CONSTANTS
  BPS_ONE,   \* one hundred percent; 10 000 in the code, small under TLC
  MaxRaw     \* the largest raw amount, U256::MAX in the code

ASSUME BpsAssumption == BPS_ONE \in Nat \ {0}
ASSUME MaxRawAssumption == MaxRaw \in Nat

Amount == 0..MaxRaw

SaturatingSub(a, b) == IF b > a THEN 0 ELSE a - b
CeilDiv(a, b) == (a + b - 1) \div b

(* What a tolerance leaves of one hundred percent. *)
Retained(tol) == SaturatingSub(BPS_ONE, tol)

(* quoted * (1 - tol), rounded down. *)
MinAmountOut(quoted, tol) == (quoted * Retained(tol)) \div BPS_ONE

\* Mutant of MaxAmountIn: rounds up by always adding one.
MaxAmountInPlusOne(quoted, tol) ==
  (quoted * (BPS_ONE + tol)) \div BPS_ONE + 1

(* quoted * (1 + tol), rounded up, saturating. *)
MaxAmountIn(quoted, tol) ==
  LET grossed == CeilDiv(quoted * (BPS_ONE + tol), BPS_ONE)
  IN  IF grossed > MaxRaw THEN MaxRaw ELSE grossed

(* The powers of x from 0 to hops, by repeated multiplication.             *)
Powers(x, hops) ==
  LET power[h \in 0..hops] == IF h = 0 THEN 1 ELSE power[h - 1] * x
  IN  power

(* The numerator and the denominator of the share kept after that many     *)
(* hops: one multiplication by (1 - tol) per hop, with no rounding.        *)
KeptNum(tol, hops) == Powers(Retained(tol), hops)[hops]
KeptDen(hops) == Powers(BPS_ONE, hops)[hops]

\* Mutant of Compound: the kept share rounded down instead of up.
CompoundRoundedUp(tol, hops) ==
  SaturatingSub(BPS_ONE, (BPS_ONE * KeptNum(tol, hops)) \div KeptDen(hops))

(* 1 - (1 - tol)^hops in whole basis points, rounded down.                 *)
Compound(tol, hops) ==
  SaturatingSub(BPS_ONE, CeilDiv(BPS_ONE * KeptNum(tol, hops), KeptDen(hops)))
=============================================================================
