------------------------------- MODULE Paths -------------------------------
(***************************************************************************)
(* How a transaction names the pools it trades on.  An encoder writes      *)
(* tokens, fees and tick spacings, pool keys or coin indices; the router   *)
(* derives the pools from them.  The two must meet.                        *)
(*                                                                         *)
(* A leg is one pool a router goes to, with the asset it sells there and   *)
(* the asset it buys; the legs of a transaction are in the order of travel.*)
(***************************************************************************)
EXTENDS Calldata

CONSTANTS
  Coins,   \* the assets of a pool in its own order (Pool::assets)
  TierOf   \* the fee, tick spacing or V4 key that tells a pool from another
           \* pool of its kind on the same assets, 0 if there is none

(* A factory deploys one pool per key; spacings fit an int24; only Curve   *)
(* pools have other than two coins.                                        *)
ASSUME PathsAssumption ==
  /\ \A pool \in Pool :
       /\ IsInjective(Coins[pool]) /\ Range(Coins[pool]) = AssetsOf[pool]
       /\ RouterKindOf(pool) # "Curve" => DOMAIN Coins[pool] = 1..2
       /\ TierOf[pool] \in -2^23..2^23 - 1
       /\ KindOf[pool] \in {"UniswapV2", "AerodromeVolatile", "AerodromeStable"}
            => TierOf[pool] = 0
  /\ \A pool, other \in Pool :
       /\ KindOf[pool] = KindOf[other] /\ AssetsOf[pool] = AssetsOf[other]
       /\ TierOf[pool] = TierOf[other]
       /\ RouterKindOf(pool) # "Curve"
       => pool = other

Leg(pools, sells, buys) == [pools |-> pools, sells |-> sells, buys |-> buys]

(* What the factory behind a router answers.                               *)
PoolsOf(kind, assets, tier) ==
  {pool \in Pool : KindOf[pool] = kind /\ AssetsOf[pool] = assets /\ TierOf[pool] = tier}

SpanTokens(call) == SubSeq(call.path, call.span.start + 1, call.span.end + 1)
SpanTiers(call) ==
  [k \in 1..SpanLen(call.span) |-> TierOf[call.pools[call.span.start + k]]]

-----------------------------------------------------------------------------
(* Paths of V3 and Slipstream: tokens with the tier of each pool between,  *)
(* as three bytes of two's complement.                                     *)
ThreeBytes(tier) == tier % 2^24

\* Mutant of TieredPath: reversed, a token is followed by its own tier.
TieredPathOwnTier(tokens, tiers, reversed) ==
  LET n == Len(tokens)
      Push(i, tier) == IF tier \in DOMAIN tiers
                       THEN <<tokens[i], ThreeBytes(tiers[tier])>> ELSE <<tokens[i]>>
  IN  FlattenSeq([k \in 1..n |-> IF reversed THEN Push(n + 1 - k, n + 1 - k)
                                 ELSE Push(k, k)])

(* v3_path *)
TieredPath(tokens, tiers, reversed) ==
  LET n == Len(tokens)
      Push(i, tier) == IF tier \in DOMAIN tiers
                       THEN <<tokens[i], ThreeBytes(tiers[tier])>> ELSE <<tokens[i]>>
  IN  FlattenSeq([k \in 1..n |-> IF reversed THEN Push(n + 1 - k, n - k)
                                 ELSE Push(k, k)])

(* slipstream_path does the same with tick spacings.                       *)
SlipstreamPath(tokens, spacings, reversed) == TieredPath(tokens, spacings, reversed)

(* The router reads a token, a tier and the next token at a time.  For an  *)
(* exact output it starts with the pool that pays.                         *)
Int24(bytes) == IF bytes < 2^23 THEN bytes ELSE bytes - 2^24
TieredLegs(kind, path, exactOut) ==
  LET hops == (Len(path) - 1) \div 2
      At(k) == PoolsOf(kind, {path[2 * k - 1], path[2 * k + 1]}, Int24(path[2 * k]))
  IN  [k \in 1..hops |->
         IF exactOut
         THEN LET back == hops + 1 - k
              IN  Leg(At(back), path[2 * back + 1], path[2 * back - 1])
         ELSE Leg(At(k), path[2 * k - 1], path[2 * k + 1])]

(* The single-pool structs hold one hop.                                   *)
TieredStructLegs(call) ==
  LET pool == FirstPool(call)
  IN  << Leg(PoolsOf(KindOf[pool], {Sold(call, WETH), Bought(call, WETH)},
                     Int24(ThreeBytes(TierOf[pool]))),
             Sold(call, WETH), Bought(call, WETH)) >>

-----------------------------------------------------------------------------
(* A V2 path is its tokens, in the order of travel for exact outputs too.  *)
PairLegs(tokens) ==
  [k \in 1..Len(tokens) - 1 |->
     Leg(PoolsOf("UniswapV2", {tokens[k], tokens[k + 1]}, 0), tokens[k], tokens[k + 1])]

(* build_pool_key, and the direction an encoder asks for.                  *)
PoolKey(pool) == [c0 |-> Coins[pool][1], c1 |-> Coins[pool][2], tier |-> TierOf[pool]]

ZeroForOne(pool, input) == input = PoolKey(pool).c0

KeyLeg(key, zeroForOne) ==
  Leg({pool \in Pool : KindOf[pool] = "UniswapV4" /\ PoolKey(pool) = key},
      IF zeroForOne THEN key.c0 ELSE key.c1, IF zeroForOne THEN key.c1 ELSE key.c0)
V4Leg(pool, input) == KeyLeg(PoolKey(pool), ZeroForOne(pool, input))

(* One Route of Aerodrome per pool.                                        *)
AerodromeRoute(call, i) ==
  [from |-> call.path[i], to |-> call.path[i + 1],
   stable |-> KindOf[call.pools[i]] = "AerodromeStable"]
AerodromeLegs(routes) ==
  [k \in 1..Len(routes) |->
     Leg(PoolsOf(IF routes[k].stable THEN "AerodromeStable" ELSE "AerodromeVolatile",
                 {routes[k].from, routes[k].to}, 0),
         routes[k].from, routes[k].to)]

-----------------------------------------------------------------------------
(* Curve. *)

CoinIndex(pool, asset) == CHOOSE i \in DOMAIN Coins[pool] : Coins[pool][i] = asset

(* exchange(i, j) on the pool itself.                                      *)
ExchangeLeg(pool, i, j) == Leg({pool}, Coins[pool][i], Coins[pool][j])

EthSentinel == "EthSentinel"
AddressZero == NATIVE
RouteSlots == 11

(* No pool is deployed at zero, and _route has room for every span.        *)
ASSUME CurveAssumption ==
  AddressZero \notin Pool /\ 2 * CURVE_MAX_HOPS + 1 <= RouteSlots

(* _route: input, pool, output, pool, ..., and zeroes; _swap_params.       *)
CurveRoute(call) ==
  LET Endpoint(k) ==
        IF \/ k = 0 /\ call.nativeIn
           \/ k = SpanLen(call.span) /\ call.nativeOut
        THEN EthSentinel ELSE SpanTokens(call)[k + 1]
  IN  [slot \in 1..RouteSlots |->
         IF slot > 2 * SpanLen(call.span) + 1 THEN AddressZero
         ELSE IF slot % 2 = 1 THEN Endpoint(slot \div 2)
         ELSE call.pools[call.span.start + slot \div 2]]

(* curve_pool_type, and the interface the router makes of it.              *)
CurvePoolType(interface, n) ==
  CASE interface = "StableI128" -> 1
    [] interface = "StableI128Ng" -> 10
    [] interface = "CryptoU256UseEth" -> IF n = 2 THEN 2 ELSE 3
    [] OTHER -> IF n = 2 THEN 20 ELSE 30
InterfaceOfType(type) ==
  CASE type = 1 -> "StableI128"
    [] type = 10 -> "StableI128Ng"
    [] type \in {2, 3} -> "CryptoU256UseEth"
    [] OTHER -> "CryptoU256Receiver"

SwapParams(call) ==
  [k \in 1..SpanLen(call.span) |->
     LET pool == call.pools[call.span.start + k]
     IN  [i |-> CoinIndex(pool, SpanTokens(call)[k]),
          j |-> CoinIndex(pool, SpanTokens(call)[k + 1]),
          poolType |-> CurvePoolType(InterfaceOf[pool], Len(Coins[pool]))]]

(* The router goes on until the next pool is zero, and calls each pool by  *)
(* the interface of its type.                                              *)
CurveLegs(route, params) ==
  LET hops == Cardinality({k \in 1..5 : \A l \in 1..k : route[2 * l] # AddressZero})
      Answers(k) == {route[2 * k]} \cap
                    {pool \in Pool : InterfaceOf[pool] = InterfaceOfType(params[k].poolType)}
  IN  [k \in 1..hops |->
         Leg(Answers(k), Coins[route[2 * k]][params[k].i], Coins[route[2 * k]][params[k].j])]

-----------------------------------------------------------------------------
(* The legs of a transaction. *)

PoolLegs(call) ==
  LET pool == FirstPool(call)
      kind == KindOf[pool]
  IN  CASE kind = "UniswapV2" -> PairLegs(<<Sold(call, WETH), Bought(call, WETH)>>)
        [] kind \in {"UniswapV3", "Slipstream"} -> TieredStructLegs(call)
        [] kind = "UniswapV4" -> << V4Leg(pool, V4Sold(call)) >>
        [] kind \in {"AerodromeVolatile", "AerodromeStable"} ->
             AerodromeLegs(<< [from |-> Sold(call, WETH), to |-> Bought(call, WETH),
                               stable |-> kind = "AerodromeStable"] >>)
        [] OTHER -> << ExchangeLeg(pool, CoinIndex(pool, Sold(call, WETH)),
                                   CoinIndex(pool, Bought(call, WETH))) >>

(* One command per hop, or one for the span.                               *)
UniswapHopLegs(call, i) ==
  LET pool == call.pools[i]
      hop == <<call.path[i], call.path[i + 1]>>
  IN  CASE KindOf[pool] = "UniswapV2" -> PairLegs(hop)
        [] KindOf[pool] = "UniswapV3" ->
             TieredLegs("UniswapV3", TieredPath(hop, <<TierOf[pool]>>, FALSE), FALSE)
        [] OTHER -> << V4Leg(pool, call.path[i]) >>
UniswapLegs(call) ==
  FlattenSeq([k \in 1..SpanLen(call.span) |-> UniswapHopLegs(call, call.span.start + k)])
UniswapLegsExactOut(call) ==
  CASE KindOf[FirstPool(call)] = "UniswapV2" -> PairLegs(SpanTokens(call))
    [] KindOf[FirstPool(call)] = "UniswapV3" ->
         TieredLegs("UniswapV3", TieredPath(SpanTokens(call), SpanTiers(call), TRUE), TRUE)
    [] OTHER -> << V4Leg(FirstPool(call), SpanIn(call)) >>

SlipstreamLegs(call, exactOut) ==
  TieredLegs("Slipstream", SlipstreamPath(SpanTokens(call), SpanTiers(call), exactOut), exactOut)

SpanLegs(call, exactOut) ==
  IF ~exactOut /\ SpanLen(call.span) = 1 THEN PoolLegs(call)
  ELSE CASE call.span.kind = "UniswapUniversal" ->
              IF exactOut THEN UniswapLegsExactOut(call) ELSE UniswapLegs(call)
         [] call.span.kind = "Slipstream" -> SlipstreamLegs(call, exactOut)
         [] call.span.kind = "Aerodrome" ->
              AerodromeLegs([k \in 1..SpanLen(call.span) |->
                               AerodromeRoute(call, call.span.start + k)])
         [] OTHER -> CurveLegs(CurveRoute(call), SwapParams(call))
=============================================================================
