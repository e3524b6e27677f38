------------------------------- MODULE MCPlan -------------------------------
(***************************************************************************)
(* A small chain for Plan: ten pools over four assets, each quoting a      *)
(* constant product of its own, and the requests worth planning on them.   *)
(***************************************************************************)
EXTENDS PlanClaims, TLC

CONSTANTS p2, p3, p4, pn, cs, cu, ae, sl, xx, zz,  \* pools
          W, E, a, b,                              \* assets, W wrapping E
          alice, bob

MCKindOf ==
  (p2 :> "UniswapV2") @@ (p3 :> "UniswapV3") @@ (p4 :> "UniswapV4")
    @@ (pn :> "UniswapV4") @@ (cs :> "CurveStable") @@ (cu :> "CurveCrypto")
    @@ (ae :> "AerodromeVolatile") @@ (sl :> "Slipstream")
    @@ (xx :> "UniswapV3") @@ (zz :> "Unknown")

MCAssetsOf ==
  (p2 :> {W, a}) @@ (p3 :> {a, b}) @@ (p4 :> {b, W}) @@ (pn :> {E, a})
    @@ (cs :> {a, b}) @@ (cu :> {W, b}) @@ (ae :> {a, b}) @@ (sl :> {b, W})
    @@ (xx :> {a, b}) @@ (zz :> {a, b})

MCInterfaceOf ==
  [pool \in Pool |-> CASE pool = cs -> "StableI128"
                       [] pool = cu -> "CryptoU256UseEth"
                       [] OTHER -> "None"]

(* The reserves of every pool, the same on both sides but for two pools.   *)
Reserve(pool, asset) ==
  IF pool = p2 /\ asset = a THEN 60 ELSE IF pool = sl /\ asset = b THEN 30 ELSE 40

MCQuote(pool, from, to, x) ==
  LET out == (Reserve(pool, to) * x) \div (Reserve(pool, from) + x)
  IN  IF x = 0 \/ out > MaxRaw THEN None ELSE out

(* The least input that quotes y or more. *)
MCQuoteExactOut(pool, from, to, y) ==
  LET least == IF y = 0 THEN 1
               ELSE CeilDiv(Reserve(pool, from) * y, Reserve(pool, to) - y)
  IN  IF least > MaxRaw THEN None ELSE least

(* These pools quote as a plan expects it of its pools.                    *)
ASSUME QuotesAreSound == QuotesGrow /\ InputsReach

-----------------------------------------------------------------------------
Path(pools, path) == [pools |-> pools, path |-> path]

SinglePool == { Path(<<p2>>, <<W, a>>), Path(<<p3>>, <<a, b>>),
                Path(<<p4>>, <<b, W>>), Path(<<pn>>, <<E, a>>),
                Path(<<cs>>, <<a, b>>), Path(<<cu>>, <<b, W>>),
                Path(<<ae>>, <<a, b>>), Path(<<sl>>, <<b, W>>) }
OneRouter ==  { Path(<<p2, p3>>, <<W, a, b>>), Path(<<p3, p3>>, <<a, b, a>>),
                Path(<<p3, p4>>, <<a, b, W>>), Path(<<p4, p4>>, <<b, W, b>>),
                Path(<<cs, cu>>, <<a, b, W>>), Path(<<ae, ae>>, <<a, b, a>>),
                Path(<<sl, sl>>, <<b, W, b>>) }
CrossRouter == { Path(<<p2, cs>>, <<W, a, b>>), Path(<<cs, p4>>, <<a, b, W>>),
                 Path(<<p2, ae, sl>>, <<W, a, b, W>>),
                 Path(<<p2, p3, cu>>, <<W, a, b, W>>),
                 Path(<<cs, sl>>, <<a, b, W>>) }
Odd == { Path(<<>>, <<a>>), Path(<<p2>>, <<W, b>>), Path(<<zz>>, <<a, b>>),
         Path(<<p2, xx>>, <<W, a, b>>), Path(<<p2>>, <<W, a, b>>) }

MakeRequest(route, exactOut, strict, amount, native, tol, recipient, ctx, limit, absolute) ==
  [ pools |-> route.pools, path |-> route.path, exactOut |-> exactOut,
    strict |-> strict, amount |-> amount, native |-> native, tol |-> tol,
    recipient |-> recipient, ctx |-> ctx, priceLimit |-> limit,
    absolute |-> absolute, deadline |-> 1 ]

(* Every trade type over every route, with and without slippage tolerance. *)
Trades(routes, amounts, natives, tols) ==
  { MakeRequest(route, kind # "ExactIn", kind = "Strict", amount, native, tol,
                recipient, RouterKey, {}, TRUE) :
      route \in routes, kind \in {"ExactIn", "Strict", "OrBetter"},
      amount \in amounts, native \in natives, tol \in tols,
      recipient \in {alice, bob} }

(* Requests that a builder or plan() refuses: a router left out of the     *)
(* configuration, a price limit, a deadline never resolved.                *)
Misconfigured(routes) ==
  { MakeRequest(route, FALSE, FALSE, 8, "None", 2, bob, ctx, limit, absolute) :
      route \in routes, ctx \in {RouterKey, RouterKey \ {"v2", "universal"},
                                 RouterKey \ {"curve", "slipstream", "permit2"}},
      limit \in {{}, {a, b}}, absolute \in BOOLEAN }

(* ETH at an end of a route that is wrapped there, or that one V4 pool     *)
(* trades natively.                                                        *)
NativeTrades ==
  Trades({Path(<<p2, cs>>, <<W, a, b>>), Path(<<p2>>, <<W, a>>),
          Path(<<p2, p3>>, <<W, a, b>>), Path(<<pn>>, <<E, a>>)},
         {6}, {"Input"}, {2})
    \cup Trades({Path(<<cs, p4>>, <<a, b, W>>), Path(<<cs, cu>>, <<a, b, W>>),
                 Path(<<p3, p4>>, <<a, b, W>>), Path(<<p4>>, <<b, W>>),
                 Path(<<p2, ae, sl>>, <<W, a, b, W>>)},
                {6}, {"Output"}, {2})

(* A price limit that the pools of single-pool spans take, that one of     *)
(* them does not, and with ETH at either end.                              *)
Limited ==
  { MakeRequest(trade.route, FALSE, FALSE, 8, trade.native, 2, recipient,
                RouterKey, trade.limit, TRUE) :
      recipient \in {alice, bob},
      trade \in { [route |-> Path(<<p3, sl>>, <<a, b, W>>), native |-> "None",
                   limit |-> {a, b}],
                  [route |-> Path(<<sl, p3>>, <<W, b, a>>), native |-> "Input",
                   limit |-> {b, W}],
                  [route |-> Path(<<sl>>, <<b, W>>), native |-> "Output",
                   limit |-> {b, W}] } }

MCRequests ==
  Trades(SinglePool \cup OneRouter \cup CrossRouter, {8}, {"None"}, {0, 2})
    \cup NativeTrades
    \cup Trades(Odd, {8}, {"None"}, {0})
    \cup Trades(CrossRouter, {0, 12}, {"None"}, {2, 11})
    \cup Limited
    \cup Misconfigured(SinglePool \cup OneRouter \cup CrossRouter)

(* Trades worth driving carelessly: several spans, one to a third party.   *)
MCCarelessRequests ==
  Trades(CrossRouter, {8}, {"None"}, {2})
    \cup Trades({Path(<<p2, p3>>, <<W, a, b>>)}, {8}, {"None"}, {2})
=============================================================================
