---------------------------- MODULE ReservePools ----------------------------
(***************************************************************************)
(* The quotes of the pools that hold two reserves (amm-core): Uniswap V2   *)
(* (protocols/uniswap/v2.rs), Aerodrome's volatile pools (volatile.rs) and *)
(* its stable ones (stable.rs), and two coins of a Curve pool              *)
(* (protocols/curve/pool.rs), whose own arithmetic is external.  An amount *)
(* that cannot be quoted, whatever the error, is Refused; amounts do not   *)
(* overflow.                                                               *)
(***************************************************************************)
EXTENDS Integers

CONSTANTS
  BPS_ONE,       \* one hundred percent
  E18,           \* the fixed-point unit of stable pools, 10^18 in the code
  NewtonSteps,   \* iterations of get_y, 255 in the code
  PROBE,         \* the share of a reserve that probes a price, 10^6 in the code
  CurveOut(_, _, _), CurveIn(_, _, _), CurveSpot(_, _),
                 \* get_amount_out, get_amount_in and spot_price of curve-math,
                 \* of a pool and the side sold
  Refused

ASSUME ReservePoolsAssumption ==
  /\ BPS_ONE \in Nat \ {0} /\ E18 \in Nat \ {0} /\ NewtonSteps \in Nat
  /\ PROBE \in Nat \ {0} /\ Refused \notin Int

Side == {0, 1}

(* A fee above one hundred percent, which no pool has, is left out.        *)
ReservePool ==
  [ kind : {"V2", "Volatile", "Stable", "Curve"}, reserves : [Side -> Nat],
    fee : 0..BPS_ONE, units : [Side -> Nat \ {0}] ]

CeilDiv(a, b) == (a + b - 1) \div b

Empty(p) == p.reserves[0] = 0 \/ p.reserves[1] = 0

-----------------------------------------------------------------------------
\* Mutant of V2AmountOut: the fee is taken off, and rounded, first.
V2AmountOutFeeFirst(p, from, x) ==
  LET net == x - (x * p.fee) \div BPS_ONE
  IN  IF Empty(p) THEN Refused
      ELSE (net * p.reserves[1 - from]) \div (p.reserves[from] + net)

(* UniswapV2Pool::amount_out, for x of the asset on a side.                *)
V2AmountOut(p, from, x) ==
  LET net == x * (BPS_ONE - p.fee)
  IN  IF Empty(p) THEN Refused
      ELSE (net * p.reserves[1 - from]) \div (p.reserves[from] * BPS_ONE + net)

\* Mutant of V2AmountIn: rounds down.
V2AmountInShort(p, from, y) ==
  IF p.reserves[from] = 0 \/ y >= p.reserves[1 - from] \/ p.fee = BPS_ONE
  THEN Refused
  ELSE (p.reserves[from] * y * BPS_ONE)
         \div ((p.reserves[1 - from] - y) * (BPS_ONE - p.fee))

(* UniswapV2Pool::amount_in *)
V2AmountIn(p, from, y) ==
  IF p.reserves[from] = 0 \/ y >= p.reserves[1 - from] \/ p.fee = BPS_ONE
  THEN Refused
  ELSE (p.reserves[from] * y * BPS_ONE)
         \div ((p.reserves[1 - from] - y) * (BPS_ONE - p.fee)) + 1

-----------------------------------------------------------------------------
(* after_fee of Aerodrome's pools *)
AfterFee(p, x) == x - (x * p.fee) \div BPS_ONE

(* AerodromeVolatilePool::amount_out *)
VolatileAmountOut(p, from, x) ==
  LET net == AfterFee(p, x)
  IN  IF Empty(p) THEN Refused
      ELSE (net * p.reserves[1 - from]) \div (p.reserves[from] + net)

(* Where the search of AerodromeVolatilePool::amount_in starts.            *)
VolatileCandidate(p, from, y) ==
  IF p.reserves[from] = 0 \/ y >= p.reserves[1 - from] \/ p.fee = BPS_ONE
  THEN Refused
  ELSE LET net == (p.reserves[from] * y) \div (p.reserves[1 - from] - y) + 1
       IN  (net * BPS_ONE) \div (BPS_ONE - p.fee) + 1

-----------------------------------------------------------------------------
Scale(x, unit) == (x * E18) \div unit

(* stable_invariant, f, and k on amounts that are not scaled yet.          *)
StableInvariant(x, y) ==
  (((x * y) \div E18) * ((x * x) \div E18 + (y * y) \div E18)) \div E18
StableK(p, x, y) == StableInvariant(Scale(x, p.units[0]), Scale(y, p.units[1]))

(* d *)
Slope(x, y) ==
  (3 * x * ((y * y) \div E18)) \div E18 + (((x * x) \div E18) * x) \div E18

(* One iteration of get_y at y, and what the following ones make of where  *)
(* it goes on.  It scales x, which is scaled already, once more where it   *)
(* looks one above the root.                                               *)
NewtonStep(p, x, k, y, following) ==
  LET here == StableInvariant(x, y)
      dy == ((IF here < k THEN k - here ELSE here - k) * E18) \div Slope(x, y)
  IN  IF y < 0 \/ Slope(x, y) = 0 THEN Refused
      ELSE IF here < k /\ dy > 0 THEN following[y + dy]
      ELSE IF here < k THEN
        IF StableK(p, x, y + 1) > k THEN y + 1 ELSE following[y + 1]
      ELSE IF dy > 0 THEN following[y - dy]
      ELSE IF here = k THEN y
      ELSE IF y = 0 THEN Refused
      ELSE IF StableInvariant(x, y - 1) < k THEN y
      ELSE following[y - 1]

(* get_y: Newton's iteration for the y that gives back k. *)
GetY(p, x, k, start) ==
  LET newton[left \in 0..NewtonSteps] ==
        [y \in Int |-> IF left = 0 THEN Refused
                       ELSE NewtonStep(p, x, k, y, newton[left - 1])]
  IN  newton[NewtonSteps][start]

ScaledReserve(p, side) == Scale(p.reserves[side], p.units[side])

\* Mutant of StableAmountOut: rounds up.
StableAmountOutUp(p, from, x) ==
  IF x = 0 \/ Empty(p) THEN Refused
  ELSE LET reserveOut == ScaledReserve(p, 1 - from)
           y == GetY(p, Scale(AfterFee(p, x), p.units[from]) + ScaledReserve(p, from),
                     StableK(p, p.reserves[0], p.reserves[1]), reserveOut)
       IN  IF y = Refused THEN Refused
           ELSE IF y > reserveOut THEN Refused
           ELSE CeilDiv((reserveOut - y) * p.units[1 - from], E18)

(* AerodromeStablePool::amount_out *)
StableAmountOut(p, from, x) ==
  IF x = 0 \/ Empty(p) THEN Refused
  ELSE LET reserveOut == ScaledReserve(p, 1 - from)
           y == GetY(p, Scale(AfterFee(p, x), p.units[from]) + ScaledReserve(p, from),
                     StableK(p, p.reserves[0], p.reserves[1]), reserveOut)
       IN  IF y = Refused THEN Refused
           ELSE IF y > reserveOut THEN Refused
           ELSE ((reserveOut - y) * p.units[1 - from]) \div E18

(* Where the search of AerodromeStablePool::amount_in starts.              *)
StableCandidate(p, from, y) ==
  IF y = 0 \/ Empty(p) \/ p.fee = BPS_ONE THEN Refused
  ELSE LET reserveIn == ScaledReserve(p, from)
           left == ScaledReserve(p, 1 - from) - CeilDiv(y * E18, p.units[1 - from])
           new == GetY(p, left, StableK(p, p.reserves[0], p.reserves[1]), reserveIn)
           net == CeilDiv((new - reserveIn) * p.units[from], E18)
       IN  IF left < 0 THEN Refused
           ELSE IF new = Refused THEN Refused
           ELSE IF new < reserveIn THEN Refused
           ELSE CeilDiv(net * BPS_ONE, BPS_ONE - p.fee) + 1

-----------------------------------------------------------------------------
(* CurvePool::quote; what comes in for nothing is not asked of curve-math. *)
CurveAmountOut(p, from, x) == IF x = 0 THEN 0 ELSE CurveOut(p, from, x)

-----------------------------------------------------------------------------
(* Pool::quote of the four. *)
AmountOut(p, from, x) ==
  IF p.kind = "V2" THEN V2AmountOut(p, from, x)
  ELSE IF p.kind = "Volatile" THEN VolatileAmountOut(p, from, x)
  ELSE IF p.kind = "Stable" THEN StableAmountOut(p, from, x)
  ELSE CurveAmountOut(p, from, x)

Candidate(p, from, y) ==
  IF p.kind = "Volatile" THEN VolatileCandidate(p, from, y)
  ELSE IF p.kind = "Stable" THEN StableCandidate(p, from, y)
  ELSE CurveIn(p, from, y)

-----------------------------------------------------------------------------
(* Prices of the other asset per the one on a side, as a fraction; stable  *)
(* pools have none.                                                        *)
ReserveSpot(p, from) ==
  IF p.kind = "Stable" \/ Empty(p) THEN Refused
  ELSE <<p.reserves[1 - from], p.reserves[from]>>

(* CurvePool::spot_price: where curve-math has none, that of a small trade. *)
CurveProbe(p, from) ==
  LET share == p.reserves[from] \div PROBE
      dx == IF share < 1 THEN 1 ELSE share
      dy == CurveOut(p, from, dx)
  IN  IF p.reserves[from] = 0 THEN Refused
      ELSE IF dy \in {Refused, 0} THEN Refused ELSE <<dy, dx>>

SpotPrice(p, from) ==
  IF p.kind # "Curve" THEN ReserveSpot(p, from)
  ELSE IF CurveSpot(p, from) # Refused THEN CurveSpot(p, from)
  ELSE CurveProbe(p, from)

(* Price::convert *)
Ideal(p, from, x) == (x * SpotPrice(p, from)[1]) \div SpotPrice(p, from)[2]

\* Mutant of PriceImpact: in parts of what comes out.
PriceImpactOfActual(p, from, x) ==
  LET actual == AmountOut(p, from, x)
  IN  IF SpotPrice(p, from) = Refused THEN Refused
      ELSE IF actual = Refused THEN Refused
      ELSE IF actual = 0 \/ actual >= Ideal(p, from, x) THEN 0
      ELSE ((Ideal(p, from, x) - actual) * BPS_ONE) \div actual

(* Pricing::price_impact: how far a quote falls below the spot price.      *)
PriceImpact(p, from, x) ==
  LET actual == AmountOut(p, from, x)
  IN  IF SpotPrice(p, from) = Refused THEN Refused
      ELSE IF actual = Refused THEN Refused
      ELSE IF Ideal(p, from, x) = 0 \/ actual >= Ideal(p, from, x) THEN 0
      ELSE ((Ideal(p, from, x) - actual) * BPS_ONE) \div Ideal(p, from, x)
=============================================================================
