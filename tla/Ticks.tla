-------------------------------- MODULE Ticks --------------------------------
(***************************************************************************)
(* The tick state of a concentrated-liquidity pool as amm-core's           *)
(* protocols/concentrated.rs holds it: a fetched slice of the pool's       *)
(* initialized ticks, found through a bitmap of words and bounded by the   *)
(* window that was fetched.                                                *)
(*                                                                         *)
(* A price is a whole number of units, Unit of them to a tick, where the   *)
(* code has the square root of the price.  Moving it by one unit through   *)
(* liquidity L yields L of the output; the input it takes grows with L,    *)
(* with the fee, and with every unit the price has moved already.          *)
(***************************************************************************)
EXTENDS Integers, FiniteSets, Functions, FiniteSetsExt

CONSTANTS
  MinTick, MaxTick,  \* MIN_TICK and MAX_TICK
  Unit,              \* units of price to a tick
  WordBits,          \* ticks to a word of the bitmap, 256 in the code
  Spacing            \* the tick spacing of the pools

ASSUME TicksAssumption ==
  /\ MinTick \in Int /\ MaxTick \in Int /\ MinTick < 0 /\ 0 < MaxTick
  /\ Unit \in Nat \ {0} /\ WordBits \in Nat \ {0} /\ Spacing \in Nat \ {0}

Tick == MinTick .. MaxTick

(* tick_math of the uniswap_v3_math crate. *)
SqrtAt(tick) == tick * Unit
TickAt(price) == price \div Unit

(* Division of the code's integers truncates towards zero.                 *)
TruncDiv(x, y) == IF x >= 0 THEN x \div y ELSE -((-x) \div y)
ClampTick(x) == IF x < MinTick THEN MinTick ELSE IF x > MaxTick THEN MaxTick ELSE x

(* price_limit *)
PriceExtreme(down) == IF down THEN SqrtAt(MinTick) + 1 ELSE SqrtAt(MaxTick) - 1

(* The tighter of two bounds on a price that falls, or rises; step_target  *)
(* is the same.                                                            *)
Tighter(down, p, q) == IF (p > q) <=> down THEN p ELSE q
StrictlyTighter(down, p, q) == p # q /\ Tighter(down, p, q) = p

(* set_bitmap_bit, without the split into word and bit. *)
Compressed(tick) ==
  IF tick < 0 /\ tick % Spacing # 0 THEN TruncDiv(tick, Spacing) - 1
  ELSE TruncDiv(tick, Spacing)

(* The middle of the window around an active tick, both where a source     *)
(* lays out its reads and where the window is recorded.                    *)
Center(tick) == TruncDiv(tick, Spacing) * Spacing

\* Mutant of WindowAround: the window is not clamped.
WindowAroundUnclamped(tick, steps) ==
  [ low  |-> Center(tick) - steps * Spacing,
    high |-> Center(tick) + steps * Spacing ]

(* with_window_around *)
WindowAround(tick, steps) ==
  [ low  |-> ClampTick(Center(tick) - steps * Spacing),
    high |-> ClampTick(Center(tick) + steps * Spacing) ]

(* TickData::from_ticks and with_window_around: nets maps each initialized *)
(* tick that was fetched to its net liquidity.                             *)
TickData(nets, tick, steps) ==
  [ nets |-> nets, bits |-> {Compressed(t) : t \in DOMAIN nets},
    window |-> WindowAround(tick, steps) ]

(* window_edge_price *)
WindowEdge(data, down) ==
  SqrtAt(IF down THEN data.window.low ELSE data.window.high)

(* next_initialized_tick_within_one_word of the uniswap_v3_math crate: the *)
(* nearest set bit at or below the tick, or above it, in one word of the   *)
(* bitmap, or else the end of that word.                                   *)
NextInWord(bits, tick, down) ==
  LET from == IF down THEN tick \div Spacing ELSE tick \div Spacing + 1
      word == from \div WordBits
      set == { b \in bits : /\ b \div WordBits = word
                            /\ IF down THEN b <= from ELSE b >= from }
  IN  IF set = {}
      THEN [ tick |-> Spacing * (IF down THEN word * WordBits
                                 ELSE word * WordBits + WordBits - 1),
             initialized |-> FALSE ]
      ELSE [ tick |-> Spacing * (IF down THEN Max(set) ELSE Min(set)),
             initialized |-> TRUE ]

(* next_tick *)
NextTick(data, tick, down) ==
  LET raw == NextInWord(data.bits, tick, down)
  IN  [raw EXCEPT !.tick = ClampTick(@)]

-----------------------------------------------------------------------------
(* compute_swap_step of the uniswap_v3_math crate: move the price towards  *)
(* the target as far as the remaining amount takes it.  An exact input too *)
(* small for the way is used up; an exact output moves the price far       *)
(* enough to yield it.                                                     *)
Travelled(price, down) ==
  IF down THEN SqrtAt(MaxTick) - price ELSE price - SqrtAt(MinTick)
InputFor(units, price, down, liquidity, fee) ==
  liquidity * (1 + fee) * (units * Travelled(price, down) + (units * (units + 1)) \div 2)

SwapStep(price, target, liquidity, fee, remaining, exactIn) ==
  LET down == price > target
      gap == IF down THEN price - target ELSE target - price
      input(units) == InputFor(units, price, down, liquidity, fee)
      affordable == {units \in 0..gap : IF exactIn THEN input(units) <= remaining
                                       ELSE units * liquidity < remaining + liquidity}
      moved == Max(affordable)
      short == exactIn /\ moved < gap
  IN  [ price |-> IF down THEN price - moved ELSE price + moved,
        in    |-> IF short THEN remaining ELSE input(moved),
        out   |-> IF exactIn THEN moved * liquidity
                  ELSE Min({remaining, moved * liquidity}) ]
=============================================================================
