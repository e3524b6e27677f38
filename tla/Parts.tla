-------------------------------- MODULE Parts -------------------------------
(***************************************************************************)
(* The pure parts, on every input, one per state: every route over the     *)
(* pools and assets, valid or not, built one pool at a time; every quote,  *)
(* tolerance and number of hops; every list of assets to discover pools    *)
(* for, whatever pools there are and whichever read fails; the storage of  *)
(* pools of Uniswap V4; and the prices of a pool and the limits of a       *)
(* caller.  The five share no state: while one moves the others rest.      *)
(***************************************************************************)
EXTENDS Routing, Slippage, Discovery, PoolStorage, Prices, FiniteSetsExt

CONSTANTS
  Tokens,     \* the assets to discover pools for and to price, numbers
  Managers,   \* what the V4 pool manager may store
  Spacings,   \* the tick spacings of its pools
  \* bounds
  MaxWindow, MaxPools, MaxQuote, MaxTol, MaxHops, MaxAssets, MaxRatio

ASSUME PartsAssumption ==
  /\ Tokens \subseteq Nat
  /\ \A manager \in Managers : \A id \in DOMAIN manager : IsPoolState(manager[id])
  /\ Spacings \subseteq Nat \ {0}
  /\ {MaxWindow, MaxPools, MaxQuote, MaxTol, MaxHops, MaxAssets, MaxRatio} \subseteq Nat
  /\ MaxQuote <= MaxRaw                 \* a quote is an amount
  /\ MinSqrt < Q96 /\ Q96 < MaxSqrt     \* a price of one is within range

VARIABLES
  route,
  quoted, tol, hops,
  query,   \* what discover() is called with, and what it meets
  stored,  \* the pools of the V4 pool manager, the spacing and the window
  priced   \* the square root of a pool's price, and a caller's limit

guard == <<quoted, tol, hops>>
vars == <<route, quoted, tol, hops, query, stored, priced>>

NothingStored == [pools |-> <<>>, spacing |-> 1, window |-> 1]
Unpriced == [sqrt |-> Q96, limit |-> PriceOf(1, 2, Fraction(1, 1))]
NoQuery == [from |-> "None", assets |-> <<>>, deployed |-> {}, lost |-> {}]

Init == /\ \E start \in Asset : route = [pools |-> <<>>, path |-> <<start>>]
        /\ quoted = 0 /\ tol = 0 /\ hops = 0
        /\ query = NoQuery /\ stored = NothingStored /\ priced = Unpriced

Resting == /\ guard = <<0, 0, 0>> /\ route.pools = <<>> /\ query = NoQuery
           /\ stored = NothingStored /\ priced = Unpriced

(* The caller lists one more pool and the asset it leads to.               *)
AddHop == /\ guard = <<0, 0, 0>> /\ query = NoQuery /\ stored = NothingStored
          /\ priced = Unpriced
          /\ Len(route.pools) < MaxPools
          /\ Len(route.path) = Len(route.pools) + 1
          /\ \E pool \in Pool, asset \in Asset :
               route' = [pools |-> Append(route.pools, pool),
                         path  |-> Append(route.path, asset)]
          /\ UNCHANGED <<guard, query, stored, priced>>

(* The caller forgets a path entry. *)
DropAsset == /\ route.pools # <<>>
             /\ Len(route.path) = Len(route.pools) + 1
             /\ route' = [route EXCEPT !.path = SubSeq(@, 1, Len(@) - 1)]
             /\ UNCHANGED <<guard, query, stored, priced>>

Requote  == /\ route.pools = <<>> /\ query = NoQuery /\ stored = NothingStored
            /\ priced = Unpriced /\ quoted < MaxQuote /\ quoted' = quoted + 1
            /\ UNCHANGED <<route, tol, hops, query, stored, priced>>
Loosen   == /\ route.pools = <<>> /\ query = NoQuery /\ stored = NothingStored
            /\ priced = Unpriced /\ tol < MaxTol /\ tol' = tol + 1
            /\ UNCHANGED <<route, quoted, hops, query, stored, priced>>
Lengthen == /\ route.pools = <<>> /\ query = NoQuery /\ stored = NothingStored
            /\ priced = Unpriced /\ hops < MaxHops /\ hops' = hops + 1
            /\ UNCHANGED <<route, quoted, tol, query, stored, priced>>

Pools(from) ==
  [tokens : kSubset(2, Tokens), tier : ToSet(Tiers(from))]

Ask == /\ Resting
       /\ \E from \in {"UniswapV2", "Aerodrome", "UniswapV3", "Slipstream"} :
            \E assets \in SeqOf(Tokens, MaxAssets), deployed \in SUBSET Pools(from) :
              \E lost \in {{}} \cup { {k} : k \in DOMAIN Questions(from, assets) } :
                query' = [from |-> from, assets |-> assets,
                          deployed |-> deployed, lost |-> lost]
       /\ UNCHANGED <<route, guard, stored, priced>>

AskConfigured == /\ Resting
                 /\ \E from \in DOMAIN Configured :
                      query' = [NoQuery EXCEPT !.from = from]
                 /\ UNCHANGED <<route, guard, stored, priced>>

Store == /\ Resting
         /\ \E pools \in Managers, spacing \in Spacings, window \in 0..MaxWindow :
              stored' = [pools |-> pools, spacing |-> spacing, window |-> window]
         /\ UNCHANGED <<route, guard, query, priced>>

(* A limit about any two assets, or one that is the spot price itself.     *)
Limits == [base : Tokens, quote : Tokens, ratio : [num : 1..MaxRatio, den : 1..MaxRatio]]

Price == /\ Resting
         /\ priced' \in
              { [sqrt |-> Q96, limit |-> limit] :
                  limit \in {one \in Limits : one.base # one.quote} }
              \cup { [sqrt |-> sqrt, limit |-> SpotPrice(<<1, 2>>, 1, 2, sqrt)] :
                       sqrt \in MinSqrt + 1..MaxSqrt - 1 }
         /\ UNCHANGED <<route, guard, query, stored>>

Next == AddHop \/ DropAsset \/ Requote \/ Loosen \/ Lengthen \/ Ask \/ AskConfigured
          \/ Store \/ Price
Spec == Init /\ [][Next]_vars

-----------------------------------------------------------------------------
PoolCount == Len(route.pools)

(* partition returns a gap-free cover of the route by same-router spans,   *)
(* each as long as its router can take (router_span.rs, doc of partition). *)
SpansPartitionRoute ==
  Classifiable(route.pools) =>
    IsPartition(route.pools, Partition(route.pools), PoolCount)

(* A set of interior boundaries at which a route may be cut so that each   *)
(* piece is one transaction of one router.                                 *)
Cuttable(cuts) ==
  \A first, last \in 1..PoolCount :
    (first <= last /\ (first..last - 1) \cap cuts = {}) =>
      /\ RouterKindOf(route.pools[first]) = RouterKindOf(route.pools[last])
      /\ RouterKindOf(route.pools[first]) = "Curve"
           => last - first < CURVE_MAX_HOPS

(* No way of cutting the route into single-router transactions has fewer   *)
(* of them than the partition: "maximal runs" cost the caller the fewest   *)
(* transactions, and the fewest stops at which a trade can be stranded.    *)
FewestTransactions ==
  (PoolCount > 0 /\ Classifiable(route.pools)) =>
    Len(Partition(route.pools)) =
      1 + Min({Cardinality(cuts) :
                 cuts \in {s \in SUBSET (1..PoolCount - 1) : Cuttable(s)}})

-----------------------------------------------------------------------------
(* The floor after h hops that each round down on their own. *)
HopByHopFloor ==
  LET floor[h \in 0..hops] ==
        IF h = 0 THEN quoted ELSE MinAmountOut(floor[h - 1], tol)
  IN  floor[hops]

(* The compounded floor of a multi-hop transaction reverts any drift that  *)
(* a hop-by-hop guard with the same tolerance would have reverted: it is   *)
(* never below the floor obtained by guarding each hop separately          *)
(* (plan.rs: "must revert when the cumulative drift across all k hops      *)
(* exceeds the user's tolerance").  Nor is it needlessly high: one basis   *)
(* point more would already exceed the exact 1 - (1 - tol)^hops.           *)
CompoundIsTight ==
  /\ MinAmountOut(quoted, Compound(tol, hops)) >= HopByHopFloor
  /\ tol <= BPS_ONE =>
       /\ (BPS_ONE - Compound(tol, hops)) * KeptDen(hops)
            >= BPS_ONE * KeptNum(tol, hops)
       /\ (BPS_ONE - Compound(tol, hops) - 1) * KeptDen(hops)
            < BPS_ONE * KeptNum(tol, hops)

(* Both guards are usable at once: for any tolerance, over 100% included,  *)
(* floor <= quote <= ceiling, and undoing the ceiling's rounding never     *)
(* permits spending a whole unit more than quoted * (1 + tol).             *)
GuardsBracketQuote ==
  /\ MinAmountOut(quoted, tol) <= quoted
  /\ quoted <= MaxAmountIn(quoted, tol)
  /\ MaxAmountIn(quoted, tol) * BPS_ONE < quoted * (BPS_ONE + tol) + BPS_ONE

-----------------------------------------------------------------------------
Discovered == Discover(query.from, query.assets, query.deployed, query.lost)

(* discover() finds every pool that trades two of the assets ("for every   *)
(* unordered pair (x each fee tier / tick spacing / stable flag)", header  *)
(* of discover.rs) and no other; a failed read hides its own pool at most; *)
(* and if no asset and no tier is listed twice, no pool is found twice.    *)
FindsEveryPoolOnce ==
  query.from \in HasFactory =>
    LET found == {Discovered[k].address : k \in DOMAIN Discovered}
        traded == {pool \in query.deployed : pool.tokens \subseteq ToSet(query.assets)}
        asked == Questions(query.from, query.assets)
        unread == {PoolOf(query.deployed, asked[k]) : k \in query.lost}
    IN  /\ found \subseteq traded /\ traded \subseteq found \cup unread
        /\ IsInjective(query.assets) /\ IsInjective(Tiers(query.from))
             => Len(Discovered) = Cardinality(found)

(* The key of a pool lists its own two assets in token order, in which the *)
(* reserves and prices are read when it is refreshed, with the fee of its  *)
(* tier (sorted_pairs, "the order factories key their pools by").          *)
KeysFitTheirPools ==
  query.from \in HasFactory =>
    \A k \in DOMAIN Discovered :
      LET key == Discovered[k]
      IN  /\ ToSet(key.assets) = key.address.tokens
          /\ key.assets[1] < key.assets[2]
          /\ key.fee = FeeBps(query.from, key.address.tier)

-----------------------------------------------------------------------------
(* A limit bounds a swap by the last square root at which the price of the *)
(* second asset per first is not above it, or by the end of the range, the *)
(* same in whichever orientation the caller gave it; a limit about other   *)
(* assets is refused.  And a pool's own spot price, either way round, is a *)
(* limit at which it stands already, so that no swap starts towards it.    *)
LimitMeansItsPrice ==
  LET pair == <<1, 2>>
      limit == priced.limit
      num == IF limit.base = 1 THEN limit.ratio.num ELSE limit.ratio.den
      den == IF limit.base = 1 THEN limit.ratio.den ELSE limit.ratio.num
      Below(sqrt) == sqrt * sqrt * den <= num * Q96 * Q96
      low == MinSqrt + 1
      high == MaxSqrt - 1
      bound == SqrtLimit(pair, limit)
      forth == SpotPrice(pair, 1, 2, priced.sqrt)
      back == SpotPrice(pair, 2, 1, priced.sqrt)
  IN  /\ IF {limit.base, limit.quote} # {1, 2} THEN bound = NotInPool
         ELSE /\ bound \in low..high
              /\ Below(bound) \/ bound = low
              /\ ~Below(bound + 1) \/ bound = high
              /\ bound = SqrtLimit(pair, InvertPrice(limit))
      /\ forth.ratio.num * back.ratio.num = forth.ratio.den * back.ratio.den
      /\ \A spot \in {forth, back}, zeroForOne \in BOOLEAN :
           AlreadyReached(priced.sqrt, zeroForOne, SqrtLimit(pair, spot))

-----------------------------------------------------------------------------
(* refresh() of a V4 pool reads what the pool manager keeps of this pool   *)
(* and of no other, sign and direction included; its fee in a direction is *)
(* the least that leaves no more than protocol and liquidity providers do, *)
(* one after the other; and no initialized tick near the price is missed.  *)
ReadsItsOwnStorage ==
  \A id \in DOMAIN stored.pools :
    LET pool == stored.pools[id]
        window == TickWindow(stored.window)
        read == BuildPool(stored.pools, id, stored.spacing, window)
        Compounds(fee, ofProtocol) ==
          LET left == (FEE_UNIT - ofProtocol) * (FEE_UNIT - pool.lpFee)
          IN  /\ (FEE_UNIT - fee) * FEE_UNIT <= left
              /\ left < (FEE_UNIT - fee + 1) * FEE_UNIT
        near == { tick \in DOMAIN pool.ticks :
                    /\ pool.ticks[tick].gross # 0 /\ tick % stored.spacing = 0
                    /\ tick \in pool.tick - (window - 1) * stored.spacing
                                ..pool.tick + (window - 1) * stored.spacing }
    IN  /\ read.price = pool.price /\ read.tick = pool.tick
        /\ read.liquidity = pool.liquidity
        /\ Compounds(read.zeroForOne, pool.fees[1])
        /\ Compounds(read.oneForZero, pool.fees[2])
        /\ near \subseteq DOMAIN read.ticks
        /\ \A tick \in DOMAIN read.ticks :
             /\ tick \in DOMAIN pool.ticks /\ pool.ticks[tick].gross # 0
             /\ read.ticks[tick] = pool.ticks[tick].net
=============================================================================
