-------------------------------- MODULE Prices --------------------------------
(***************************************************************************)
(* Prices (amm-core, primitives/ratio.rs and price.rs) and what pools of   *)
(* concentrated liquidity make of them: the spot price of a square root,   *)
(* and the square root that a limit given as a price bounds a swap by      *)
(* (protocols/concentrated.rs).  TickEngine starts from that bound.        *)
(***************************************************************************)
EXTENDS Integers

CONSTANTS
  Q96,               \* the unit of a square root, 2^96 in the code
  MinSqrt, MaxSqrt,  \* the square roots at the ends of the range of ticks
  NotInPool          \* the error

ASSUME PricesAssumption ==
  /\ Q96 \in Nat \ {0}
  /\ MinSqrt \in Nat \ {0} /\ MaxSqrt \in Nat /\ MinSqrt + 1 < MaxSqrt

(* A Ratio, whose numerator and denominator have no bound.                 *)
Fraction(num, den) == [num |-> num, den |-> den]
Inverted(ratio) == Fraction(ratio.den, ratio.num)

(* Price::new; of a positive ratio between two assets, so that invert is   *)
(* total.                                                                  *)
PriceOf(base, quote, ratio) == [base |-> base, quote |-> quote, ratio |-> ratio]
InvertPrice(price) == PriceOf(price.quote, price.base, Inverted(price.ratio))

FloorSqrt(n) == CHOOSE s \in 0..n : s * s <= n /\ n < (s + 1) * (s + 1)

(* Ratio::from_q192_sqrt and to_q192_sqrt *)
FromSqrt(sqrt) == Fraction(sqrt * sqrt, Q96 * Q96)
ToSqrt(ratio) == FloorSqrt((ratio.num * Q96 * Q96) \div ratio.den)

(* spot_price of a pool of two assets; refused for any other.              *)
SpotPrice(assets, base, quote, sqrt) ==
  IF <<base, quote>> = assets THEN PriceOf(base, quote, FromSqrt(sqrt))
  ELSE IF <<quote, base>> = assets
  THEN PriceOf(base, quote, Inverted(FromSqrt(sqrt)))
  ELSE NotInPool

Clamped(sqrt) ==
  IF sqrt < MinSqrt + 1 THEN MinSqrt + 1
  ELSE IF sqrt > MaxSqrt - 1 THEN MaxSqrt - 1 ELSE sqrt

\* Mutant of SqrtLimit: inverted after it was rounded.
SqrtLimitInvertedLate(assets, limit) ==
  IF <<limit.base, limit.quote>> = assets THEN Clamped(ToSqrt(limit.ratio))
  ELSE IF <<limit.quote, limit.base>> = assets /\ ToSqrt(limit.ratio) > 0
  THEN Clamped((Q96 * Q96) \div ToSqrt(limit.ratio))
  ELSE NotInPool

(* clamped_sqrt_limit, of a limit in either orientation.                   *)
SqrtLimit(assets, limit) ==
  IF <<limit.base, limit.quote>> = assets THEN Clamped(ToSqrt(limit.ratio))
  ELSE IF <<limit.quote, limit.base>> = assets
  THEN Clamped(ToSqrt(Inverted(limit.ratio)))
  ELSE NotInPool

(* limit_already_reached *)
AlreadyReached(sqrt, zeroForOne, limit) ==
  IF zeroForOne THEN limit >= sqrt ELSE limit <= sqrt
=============================================================================
