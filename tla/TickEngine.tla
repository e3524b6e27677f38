----------------------------- MODULE TickEngine -----------------------------
(***************************************************************************)
(* The swap loop of protocols/concentrated.rs, one iteration at a time,    *)
(* and the four questions asked of it: amount_out, amount_in,              *)
(* max_amount_in and quote_with_limit; and before it the pools of the      *)
(* three protocols, which are asked about assets (uniswap/v3.rs,           *)
(* uniswap/v4.rs, aerodrome/slipstream.rs).                                *)
(***************************************************************************)
EXTENDS Ticks

CONSTANTS
  Asset,
  Asks(_),       \* the questions asked of a snapshot
  MaxI256,       \* the largest signed amount, more than any pool can take
  MaxLiquidity,  \* u128::MAX
  None

(* The price of the base in the quote asset.  The other way round it is    *)
(* the negative, as with ticks.                                            *)
Price == [base : Asset, quote : Asset, at : Int]

Ask == [ kind : {"AmountOut", "AmountIn", "MaxAmountIn", "WithLimit"},
         from : Asset, to : Asset, amount : Nat, limit : Price ]

ASSUME EngineAssumption ==
  MaxI256 \in Nat /\ MaxLiquidity \in Nat /\ None \notin Ask \cup Int \cup BOOLEAN

QuoteError == {"InsufficientLiquidity", "TickWindowExceeded", "Overflow",
               "AssetNotInPool", "Unsupported"}

VARIABLES
  pool,   \* the snapshot quoted from
  ask,    \* the question, None before there is one
  swap,   \* the locals of simulate() while it runs, else None
  answer  \* its answer, None until there is one

engineVars == <<pool, ask, swap, answer>>

Fails(error) == [verdict |-> error, in |-> 0, out |-> 0, limited |-> FALSE]
Gives(in, out, limited) == [verdict |-> "Ok", in |-> in, out |-> out, limited |-> limited]

-----------------------------------------------------------------------------
(* two_asset_direction: whether the first asset is sold, which lets the    *)
(* price fall; None for any other pair.                                    *)
Direction(p, from, to) ==
  IF <<from, to>> = p.assets THEN TRUE
  ELSE IF <<to, from>> = p.assets THEN FALSE ELSE None

(* fee_pips: of a V4 pool each direction has its own.                      *)
FeePips(p, down) == IF p.protocol = "UniswapV4" THEN p.fee[down] ELSE p.fee

UniswapV3Refusal(p, a) ==
  IF Direction(p, a.from, a.to) = None THEN "AssetNotInPool" ELSE "Ok"

SlipstreamRefusal(p, a) ==
  IF Direction(p, a.from, a.to) = None THEN "AssetNotInPool" ELSE "Ok"

(* ensure_supported: a hook may change the curve or the fee.               *)
UniswapV4Refusal(p, a) ==
  IF ~p.supported THEN "Unsupported"
  ELSE IF Direction(p, a.from, a.to) = None THEN "AssetNotInPool" ELSE "Ok"

PoolRefusal(p, a) ==
  CASE p.protocol = "UniswapV3"  -> UniswapV3Refusal(p, a)
    [] p.protocol = "Slipstream" -> SlipstreamRefusal(p, a)
    [] p.protocol = "UniswapV4"  -> UniswapV4Refusal(p, a)

-----------------------------------------------------------------------------
ExactIn(a) == a.kind # "AmountIn"

(* positive_i256, and what max_amount_in asks for instead.                 *)
Specified(a) == IF a.kind = "MaxAmountIn" THEN MaxI256 ELSE a.amount

\* Mutant of ClampedLimit: taken for a price of the first asset.
ClampedLimitAsItIs(limit) ==
  LET low == SqrtAt(MinTick) + 1
      high == SqrtAt(MaxTick) - 1
  IN  IF Direction(pool, limit.base, limit.quote) = None THEN None
      ELSE IF limit.at < low THEN low ELSE IF limit.at > high THEN high ELSE limit.at

(* clamped_sqrt_limit: the bound as a price of the pool's first asset.     *)
ClampedLimit(limit) ==
  LET direct == Direction(pool, limit.base, limit.quote)
      at == IF direct = TRUE THEN limit.at ELSE -limit.at
      low == SqrtAt(MinTick) + 1
      high == SqrtAt(MaxTick) - 1
  IN  IF direct = None THEN None
      ELSE IF at < low THEN low ELSE IF at > high THEN high ELSE at

Limit(a) ==
  IF a.kind = "WithLimit" THEN ClampedLimit(a.limit)
  ELSE PriceExtreme(Direction(pool, a.from, a.to))

(* limit_already_reached *)
LimitReached(a) ==
  IF Direction(pool, a.from, a.to) THEN ClampedLimit(a.limit) >= pool.price
  ELSE ClampedLimit(a.limit) <= pool.price

Down == Direction(pool, ask.from, ask.to)

\* Mutant of Bind: the caller's limit alone bounds the swap.
BindToLimit == Limit(ask)

(* How far the price may move. *)
Bind == Tighter(Down, Limit(ask), WindowEdge(pool.data, Down))

(* What every entry point does before the loop.                            *)
Asked(a) ==
  /\ pool # None /\ ask = None
  /\ ask' = a
  /\ UNCHANGED pool

(* The error of an entry point, or "Ok"; the first check that fails.       *)
Refusal(a) ==
  IF PoolRefusal(pool, a) # "Ok" THEN PoolRefusal(pool, a)
  ELSE IF Specified(a) > MaxI256 THEN "Overflow"
  ELSE IF a.kind = "WithLimit" /\ ClampedLimit(a.limit) = None THEN "AssetNotInPool"
  ELSE IF a.kind = "WithLimit" /\ LimitReached(a) THEN "Ok"
  ELSE IF pool.data.bits = {} THEN "InsufficientLiquidity" ELSE "Ok"

Askable(a) == Refusal(a) = "Ok" /\ ~(a.kind = "WithLimit" /\ LimitReached(a))

(* Refused, or nothing to do as the price is beyond the limit already.     *)
Refuse(a) ==
  /\ Asked(a) /\ ~Askable(a)
  /\ answer' = IF Refusal(a) # "Ok" THEN Fails(Refusal(a)) ELSE Gives(0, 0, TRUE)
  /\ UNCHANGED swap

Begin(a) ==
  /\ Asked(a) /\ Askable(a)
  /\ swap' = [ price |-> pool.price, tick |-> pool.tick,
               liquidity |-> pool.liquidity, remaining |-> Specified(a),
               in |-> 0, out |-> 0 ]
  /\ UNCHANGED answer

Question == pool # None /\ \E a \in Asks(pool) \cap Ask : Refuse(a) \/ Begin(a)

-----------------------------------------------------------------------------
\* Mutant of NetLiquidity: the sign is not adjusted for the direction.
NetUnsigned(nets, tick, down) == nets[tick]

(* tick_liquidity_net *)
NetLiquidity(nets, tick, down) == IF down THEN -nets[tick] ELSE nets[tick]

\* Mutant of Advance: a falling price leaves the tick at the boundary.
AdvanceOnto(next, price) ==
  IF price = SqrtAt(next.tick)
  THEN [ tick |-> next.tick,
         net |-> IF ~next.initialized THEN 0
                 ELSE IF next.tick \notin DOMAIN pool.data.nets THEN None
                 ELSE NetLiquidity(pool.data.nets, next.tick, Down) ]
  ELSE [ tick |-> IF price # swap.price THEN TickAt(price) ELSE swap.tick, net |-> 0 ]

(* advance_tick: the tick after a step, and the liquidity it crosses, None *)
(* for a tick set in the bitmap that is not there.                         *)
Advance(next, price) ==
  IF price = SqrtAt(next.tick)
  THEN [ tick |-> IF Down THEN next.tick - 1 ELSE next.tick,
         net |-> IF ~next.initialized THEN 0
                 ELSE IF next.tick \notin DOMAIN pool.data.nets THEN None
                 ELSE NetLiquidity(pool.data.nets, next.tick, Down) ]
  ELSE [ tick |-> IF price # swap.price THEN TickAt(price) ELSE swap.tick, net |-> 0 ]

Running == swap # None /\ swap.remaining # 0 /\ swap.price # Bind

(* One iteration of the loop. *)
Step ==
  /\ Running
  /\ LET next == NextTick(pool.data, swap.tick, Down)
         step == SwapStep(swap.price, Tighter(Down, SqrtAt(next.tick), Bind),
                          swap.liquidity, FeePips(pool, Down),
                          swap.remaining, ExactIn(ask))
         to == Advance(next, step.price)
         liquidity == swap.liquidity + to.net
         used == IF ExactIn(ask) THEN step.in ELSE step.out
         error == IF to.net = None THEN "InsufficientLiquidity"
                  ELSE IF liquidity \notin 0..MaxLiquidity THEN "Overflow" ELSE "Ok"
     IN  IF error # "Ok"
         THEN swap' = None /\ answer' = Fails(error)
         ELSE /\ swap' = [ price |-> step.price, tick |-> to.tick,
                           liquidity |-> liquidity,
                           remaining |-> swap.remaining - used,
                           in |-> swap.in + step.in, out |-> swap.out + step.out ]
              /\ UNCHANGED answer
  /\ UNCHANGED <<pool, ask>>

\* Mutant of WindowExhausted: whether anything is left is not looked at.
WindowExhaustedAnyway == StrictlyTighter(Down, WindowEdge(pool.data, Down), Limit(ask))

(* The window stopped the swap, and not the caller's limit.                *)
WindowExhausted ==
  /\ swap.remaining # 0
  /\ StrictlyTighter(Down, WindowEdge(pool.data, Down), Limit(ask))

(* What each entry point makes of the outcome.                             *)
Outcome ==
  LET limited == swap.remaining # 0
  IN  IF ask.kind = "MaxAmountIn" THEN Gives(swap.in, 0, FALSE)
      ELSE IF WindowExhausted THEN Fails("TickWindowExceeded")
      ELSE IF limited /\ ask.kind # "WithLimit" THEN Fails("InsufficientLiquidity")
      ELSE Gives(swap.in, swap.out, limited)

Finish ==
  /\ swap # None /\ ~Running
  /\ swap' = None /\ answer' = Outcome
  /\ UNCHANGED <<pool, ask>>

EngineNext == Question \/ Step \/ Finish
=============================================================================
