------------------------------- MODULE MCParts ------------------------------
(***************************************************************************)
(* The pure parts, checked on every input up to the bounds: a few pools    *)
(* and assets, and a pool manager that stores a pool whose fields take     *)
(* every value, one word at a time, beside another that stays.             *)
(***************************************************************************)
EXTENDS Parts

CONSTANTS u2, u3, cv, ae, xx, a, b, c

MCKindOf == (u2 :> "UniswapV2") @@ (u3 :> "UniswapV3") @@ (cv :> "CurveStable")
              @@ (ae :> "AerodromeStable") @@ (xx :> "Unknown")
MCAssetsOf == (cv :> {a, b, c}) @@ [p \in Pool \ {cv} |-> {a, b}]

MCFeeTiers == <<500, 3000>>
MCTickSpacings == <<1, 200, 50>>

MCConfigured ==
  "Curve" :> << [address |-> cv, assets |-> <<2, 1, 3>>, tier |-> 0] >>
    @@ "UniswapV4" :> << [address |-> xx, assets |-> <<1, 2>>, tier |-> 500] >>

-----------------------------------------------------------------------------
TickOf(gross, net) == [gross |-> gross, net |-> net]

Neighbour ==
  [price |-> 2, tick |-> -3, lpFee |-> 5, fees |-> <<3, 0>>, liquidity |-> 6,
   ticks |-> (-4 :> TickOf(6, 2)) @@ (0 :> TickOf(2, -2))]
Some ==
  [price |-> 1, tick |-> 1, lpFee |-> 3, fees |-> <<1, 2>>, liquidity |-> 5,
   ticks |-> (0 :> TickOf(5, 3)) @@ (2 :> TickOf(3, -3))]

SomePools ==
  { [Some EXCEPT !.price = price, !.tick = tick, !.fees = <<down, up>>, !.lpFee = fee] :
      price \in {0, 3}, tick \in Signed(TickBits), fee \in 0..FEE_UNIT,
      down \in Unsigned(HalfFeeBits), up \in {0, 1, 2^HalfFeeBits - 1} }
  \cup { [Some EXCEPT !.tick = tick, !.liquidity = amount, !.ticks[2] = TickOf(gross, net)] :
           tick \in Signed(TickBits), amount \in {0, 2^LiquidityBits - 1},
           gross \in Unsigned(LiquidityBits), net \in Signed(LiquidityBits) }

MCManagers == { (u2 :> pool) @@ (u3 :> Neighbour) : pool \in SomePools }
=============================================================================
