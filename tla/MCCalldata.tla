----------------------------- MODULE MCCalldata -----------------------------
(***************************************************************************)
(* Pools of every kind over ETH, its wrapped form and two tokens; spans of *)
(* one, two and three pools in both directions; and everything an encoder  *)
(* may be asked for over them.                                             *)
(***************************************************************************)
EXTENDS SettlementProperties, TLC
LOCAL INSTANCE Functions

CONSTANTS p2, q2, p3, q3, r3, p4, q4, pn, sl, sm, sn, ae, av, cs, cu, cr,  \* pools
          W, E, a, b,                                      \* assets
          alice, bob

MCKindOf ==
  (p2 :> "UniswapV2") @@ (q2 :> "UniswapV2") @@ (p3 :> "UniswapV3")
    @@ (q3 :> "UniswapV3") @@ (r3 :> "UniswapV3")
    @@ (p4 :> "UniswapV4") @@ (q4 :> "UniswapV4") @@ (pn :> "UniswapV4")
    @@ (sl :> "Slipstream") @@ (sm :> "Slipstream") @@ (sn :> "Slipstream")
    @@ (ae :> "AerodromeStable") @@ (av :> "AerodromeVolatile")
    @@ (cs :> "CurveStable") @@ (cu :> "CurveCrypto") @@ (cr :> "CurveCrypto")

(* In the pool's order.                                                    *)
MCCoins ==
  (p2 :> <<W, a>>) @@ (q2 :> <<a, b>>)
    @@ (p3 :> <<W, a>>) @@ (q3 :> <<a, b>>) @@ (r3 :> <<W, a>>)
    @@ (p4 :> <<a, W>>) @@ (q4 :> <<a, b>>) @@ (pn :> <<E, a>>)
    @@ (sl :> <<W, a>>) @@ (sm :> <<a, b>>) @@ (sn :> <<W, a>>)
    @@ (ae :> <<W, a>>) @@ (av :> <<W, a>>)
    @@ (cs :> <<b, W, a>>) @@ (cu :> <<W, a>>) @@ (cr :> <<a, W>>)
MCAssetsOf == [pool \in Pool |-> Range(MCCoins[pool])]

(* Where a pair has several pools of a kind the tier tells them apart.     *)
MCTierOf ==
  [pool \in Pool |-> CASE pool \in {p3, sl} -> 100
                       [] pool \in {q3, r3, sm, sn} -> 500
                       [] OTHER -> 0]

MCInterfaceOf ==
  [pool \in Pool |-> CASE pool = cs -> "StableI128"
                       [] pool = cu -> "CryptoU256UseEth"
                       [] pool = cr -> "CryptoU256Receiver"
                       [] OTHER -> "None"]

Routes(pools, path) ==
  LET n == Len(pools)
  IN  { [pools |-> pools, path |-> path],
        [pools |-> [i \in 1..n |-> pools[n + 1 - i]],
         path |-> [i \in 1..n + 1 |-> path[n + 2 - i]]] }

Single == UNION { Routes(<<pool>>, <<W, a>>) : pool \in {p2, p3, p4, sl, ae, cu, cr} }
            \cup Routes(<<cs>>, <<a, b>>) \cup Routes(<<pn>>, <<E, a>>)
            \cup Routes(<<q4>>, <<a, b>>)
Several == UNION { Routes(<<p2, q4>>, <<W, a, b>>), Routes(<<p4, q2>>, <<W, a, b>>),
                   Routes(<<p3, q2>>, <<W, a, b>>), Routes(<<p3, q3>>, <<W, a, b>>),
                   Routes(<<p4, q4>>, <<W, a, b>>),
                   Routes(<<p3, q2, q2>>, <<W, a, b, a>>), Routes(<<sl, sm>>, <<W, a, b>>),
                   Routes(<<ae, av>>, <<W, a, W>>), Routes(<<cu, cs>>, <<W, a, b>>) }

(* The options of a plan are resolved; a caller's may be anything.         *)
Resolvedly(payee) ==
  [recipient |-> payee, deadline |-> AtTimestamp(1), sender |-> alice]
Whatever ==
  { [NewOptions EXCEPT !.recipient = recipient, !.deadline = deadline] :
      recipient \in {TheSender, bob},
      deadline \in {FromNow(DEFAULT_TTL_SECS), AtTimestamp(2), AtBlock(1)} }

CallsOver(routes, entry, exactOuts, limits, amounts, floors, ctxs, options) ==
  { [ entry |-> entry, exactOut |-> exactOut, opts |-> chosen,
      call |-> [ pools |-> route.pools, path |-> route.path,
                 span |-> [start |-> 0, end |-> Len(route.pools),
                           kind |-> RouterKindOf(route.pools[1])],
                 ctx |-> ctx, priceLimit |-> limit, amountIn |-> amount,
                 minOut |-> floor, payee |-> Nobody, sender |-> alice,
                 nativeIn |-> native = "Input", nativeOut |-> native = "Output" ] ] :
      route \in routes, exactOut \in exactOuts, limit \in limits, amount \in amounts,
      floor \in floors, ctx \in ctxs, chosen \in options,
      native \in {"None", "Input", "Output"} }

Everything == {RouterKey}
Presets == {EthereumRouters, BaseRouters}
Plans == {Resolvedly(alice), Resolvedly(bob)}

(* Native ETH where the path has it or its wrapped form.                   *)
NativeAtAnEdge(one) ==
  /\ one.call.nativeIn => one.call.path[1] \in {W, E}
  /\ one.call.nativeOut => one.call.path[Len(one.call.path)] \in {W, E}
  /\ one.call.path[1] = E => one.call.nativeIn
  /\ one.call.path[Len(one.call.path)] = E => one.call.nativeOut

(* Spans of the Universal Router, the case of the first run below.         *)
MCUniversalCalls ==
  { one \in CallsOver(Several, "span", {FALSE}, {{}}, {2}, {1}, Everything, Plans) :
      NativeAtAnEdge(one) /\ one.call.span.kind = "UniswapUniversal" }

(* Single pools and exact outputs.                                         *)
MCExactOutputs ==
  { one \in CallsOver(Single, "pool", {TRUE}, {{}, {W, a}}, {2, 3}, {1, 2},
                      Everything, Plans) :
      NativeAtAnEdge(one) }

MCCalls ==
  { one \in CallsOver(Single, "pool", BOOLEAN, {{}, {W, a}}, {2, 3}, {1, 2},
                      Everything, Plans)
              \cup CallsOver(Single, "pool", BOOLEAN, {{}}, {2}, {1}, Presets, Whatever)
              \cup CallsOver(Single \cup Several, "span", BOOLEAN, {{}}, {2}, {1, 2},
                            Everything, Plans)
              \cup CallsOver(Single \cup Several, "span", {FALSE}, {{}}, {2}, {0},
                            Everything, Plans)
              \cup CallsOver(Single \cup Several, "span", {FALSE}, {{W, a}}, {2}, {1},
                            Everything, Plans) :
      NativeAtAnEdge(one) }
=============================================================================
