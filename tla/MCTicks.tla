------------------------------ MODULE MCTicks ------------------------------
(***************************************************************************)
(* Pools of few positions for TickSource: every price in and around them,  *)
(* on a tick axis where the window, the words of the bitmap and the ends   *)
(* of the range all matter.                                                *)
(***************************************************************************)
EXTENDS TickProperties, TLC

CONSTANTS k1, k2, k3, k4, one, hooked, x, y, z

Position(low, high, liquidity) == [low |-> low, high |-> high, liquidity |-> liquidity]

(* None, over the whole range, adjacent, with a gap, overlapping, and      *)
(* reaching just to and just beyond what a window shows.                   *)
PositionSets ==
  { {}, {Position(-6, 6, 1)}, {Position(-2, 2, 2)},
    {Position(-2, 0, 1), Position(0, 2, 1)},
    {Position(-4, -2, 2), Position(2, 4, 1)},
    {Position(-6, 6, 1), Position(0, 2, 2)},
    {Position(-6, 6, 1), Position(-4, 2, 1), Position(0, 4, 2)} }

NetsOf(positions) ==
  [ t \in {p.low : p \in positions} \cup {p.high : p \in positions} |->
      MapThenSumSet(LAMBDA p : IF p.low = t THEN p.liquidity ELSE -p.liquidity,
                    {p \in positions : t \in {p.low, p.high}}) ]

(* The fees when the price falls and when it rises. *)
ChainOf(fees, positions, price, tick) ==
  [ assets |-> <<x, y>>, price |-> price, tick |-> tick,
    fee |-> [down \in BOOLEAN |-> IF down THEN fees[1] ELSE fees[2]],
    nets |-> NetsOf(positions),
    liquidity |-> NetOver(NetsOf(positions), MinTick - 1, tick) ]

(* A price that fell onto a boundary leaves the tick below it.             *)
TicksOf(price) ==
  {TickAt(price)} \cup
    IF price % (Spacing * Unit) = 0 THEN {TickAt(price) - 1} ELSE {}

Prices == {-11, -9, -8, -7, -5, -4, -3, -2, -1, 0, 1, 2, 3, 4, 5, 7, 8, 9, 11}

Fees(from) == IF from = "UniswapV4" THEN <<1, 0>> ELSE <<1, 1>>

ChainsOf(from) ==
  UNION {{ChainOf(Fees(from), positions, price, tick) : tick \in TicksOf(price)} :
           positions \in PositionSets,
           price \in CASE from = "UniswapV3"  -> {-7, -3, 0, 1, 3, 8}
                       [] from = "UniswapV4"  -> Prices
                       [] from = "Slipstream" -> {-3, 0, 3}}

(* Somebody mints or burns at an unchanged price, or trades.               *)
SingleNextChains(chain) ==
  IF chain.price \notin {-3, 0} THEN {}
  ELSE { next \in ChainsOf("UniswapV3") \cup ChainsOf("UniswapV4") :
           /\ next.fee = chain.fee
           /\ next.price \in {chain.price, 3}
           /\ Cardinality(DOMAIN next.nets) # 3 }

-----------------------------------------------------------------------------
MakePrice(base, quote, price) == [base |-> base, quote |-> quote, at |-> price]
MakeAsk(kind, pair, amount, limit) ==
  [kind |-> kind, from |-> pair[1], to |-> pair[2], amount |-> amount, limit |-> limit]
NoLimit == MakePrice(x, y, 0)

Pairs == {<<x, y>>, <<y, x>>}
Foreign == {<<x, z>>, <<z, y>>, <<y, y>>}

SinglePoolAsks ==
  { MakeAsk("AmountOut", pair, amount, NoLimit) : pair \in Pairs,
      amount \in {0, 9, 40, 130, 500} }
    \cup { MakeAsk("AmountIn", pair, amount, NoLimit) : pair \in Pairs,
             amount \in {0, 1, 3, 8, 20} }
    \cup { MakeAsk("MaxAmountIn", pair, 0, NoLimit) : pair \in Pairs }
    \cup { MakeAsk("WithLimit", pair, amount, limit) : pair \in Pairs,
             amount \in {25, 200},
             limit \in {MakePrice(x, y, -20), MakePrice(y, x, 4), MakePrice(x, y, 1)} }
    \cup { MakeAsk("AmountOut", <<x, y>>, MaxI256 + 1, NoLimit) }

(* About other assets than the pool's. *)
StrangeAsks ==
  { MakeAsk(kind, pair, 9, NoLimit) : pair \in Foreign,
      kind \in {"AmountOut", "AmountIn", "MaxAmountIn", "WithLimit"} }
    \cup { MakeAsk("WithLimit", pair, amount, MakePrice(x, z, 1)) :
             pair \in Pairs, amount \in {25, MaxI256 + 1} }

-----------------------------------------------------------------------------
(* One pool in every state, put to every question; one that cannot be      *)
(* quoted; and several in one refresh, one listed twice, with a question   *)
(* each.                                                                   *)
MakeRequest(from, keys0, heads0) == [source |-> from, keys |-> keys0, heads |-> heads0]

Sources == {"UniswapV3", "UniswapV4", "Slipstream"}

SingleRequests ==
  UNION {{MakeRequest(from, <<one>>, one :> chain) : chain \in ChainsOf(from)} :
           from \in Sources}

HookedRequests ==
  { MakeRequest("UniswapV4", <<hooked>>, hooked :> ChainOf(<<1, 0>>, positions, 1, 0)) :
      positions \in PositionSets }

BatchKeys == <<k1, k2, k3, k4, k3>>
BatchChains(from) ==
  { ChainOf(Fees(from), {Position(-2, 2, 2)}, -1, -1),
    ChainOf(Fees(from), {Position(-6, 6, 1), Position(0, 2, 2)}, 1, 0) }
BatchRequests ==
  UNION {{MakeRequest(from, BatchKeys, heads0) :
            heads0 \in [ToSet(BatchKeys) -> BatchChains(from)]} : from \in Sources}

MCChain ==
  UNION {ChainsOf(from) \cup BatchChains(from) : from \in Sources}
MCRequests == SingleRequests \cup HookedRequests \cup BatchRequests
MCNextChains(chain) ==
  IF \E from \in Sources : chain \in BatchChains(from)
  THEN UNION {{next \in BatchChains(from) : next.fee = chain.fee} : from \in Sources} \ {chain}
  ELSE SingleNextChains(chain)
MCAsks(p) ==
  IF p.id = one /\ p.price # 1 THEN SinglePoolAsks
  ELSE IF p.id \in {one, hooked} THEN SinglePoolAsks \cup StrangeAsks
  ELSE {MakeAsk("AmountOut", pair, 9, NoLimit) : pair \in Pairs}
MCMinTick == -6
=============================================================================
