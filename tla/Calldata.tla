------------------------------ MODULE Calldata ------------------------------
(***************************************************************************)
(* The transactions the encoders pack, as the instructions their calldata  *)
(* makes a router execute: wrapping and unwrapping ETH, exchanging along a *)
(* path, the swap, settle and take actions of Uniswap V4, refunding ETH.   *)
(* Selectors, ABI layout and the deadline (see Plan) are left out; who     *)
(* pays, who receives, with which amounts and in which order is kept.      *)
(*                                                                         *)
(* A call is that of SpanBuilders.  For an exact output call.minOut is the *)
(* target and call.amountIn the ceiling on the input.                      *)
(***************************************************************************)
EXTENDS SpanBuilders, Integers, SequencesExt

Router == "Router"                    \* the contract the transaction calls
AddressThis == "AddressThis"          \* ADDRESS_THIS, address(2)
CONTRACT_BALANCE == -1                \* all the router has of the input
OPEN_DELTA == 0

NoApproval == [spender |-> "none", asset |-> WETH, amount |-> 0]

Wrap(amount) == [op |-> "Wrap", amount |-> amount]
Unwrap(least, to) == [op |-> "Unwrap", least |-> least, to |-> to]
Refund == [op |-> "Refund"]

(* What the encoders write for the assets at the edges: nativeAsset where  *)
(* the edge is native.                                                     *)
Sold(call, nativeAsset) == IF call.nativeIn THEN nativeAsset ELSE SpanIn(call)
Bought(call, nativeAsset) == IF call.nativeOut THEN nativeAsset ELSE SpanOut(call)

(* Who is named to pay and to receive, and whether the exchange may stop   *)
(* at a price limit.  The bound is a floor for an exact input, a ceiling   *)
(* for an exact output.                                                    *)
Exchange(exactOut, sells, buys, amount, bound, payer, to, stops) ==
  [op |-> "Exchange", exactOut |-> exactOut, sells |-> sells, buys |-> buys,
   amount |-> amount, bound |-> bound, payer |-> payer, to |-> to,
   stops |-> stops]

ExchangeIn(call, nativeAsset, to, stops) ==
  Exchange(FALSE, Sold(call, nativeAsset), Bought(call, nativeAsset),
           call.amountIn, call.minOut, "User", to, stops)
ExchangeOut(call, to, stops) ==
  Exchange(TRUE, Sold(call, WETH), Bought(call, WETH),
           call.minOut, call.amountIn, "User", to, stops)

(* Where the deadline travels: as an argument of the entrypoint or of the  *)
(* Universal Router's execute(), in the parameters of a call, in the       *)
(* multicall that wraps the calls, or nowhere.                             *)
InMulticall(deadlineInMulticall) ==
  IF deadlineInMulticall THEN "multicall" ELSE "params"

(* erc20_approval, and the value: native input is sent, anything else is   *)
(* pulled, by Permit2 for the Universal Router.                            *)
Approval(call, spender) ==
  IF call.nativeIn THEN NoApproval
  ELSE [spender |-> spender, asset |-> SpanIn(call), amount |-> call.amountIn]

\* Mutant of Transaction: the value is sent whatever the input is.
TransactionWithValue(to, spender, deadlineIn, call, code) ==
  [to |-> to, code |-> code, deadlineIn |-> deadlineIn,
   approval |-> Approval(call, spender),
   value |-> call.amountIn]

Transaction(to, spender, deadlineIn, call, code) ==
  [to |-> to, code |-> code, deadlineIn |-> deadlineIn,
   approval |-> Approval(call, spender),
   value |-> IF call.nativeIn THEN call.amountIn ELSE 0]

-----------------------------------------------------------------------------
(* Routers that trade WETH at native edges and unwrap it themselves.  At a *)
(* native output the exchange pays the custodian and an unwrapping follows.*)

PeripheryIn(call, custodian, stops) ==
  IF call.nativeOut
  THEN << ExchangeIn(call, WETH, custodian, stops), Unwrap(call.minOut, call.payee) >>
  ELSE << ExchangeIn(call, WETH, call.payee, stops) >>

PeripheryOut(call, custodian, stops) ==
  IF call.nativeOut
  THEN << ExchangeOut(call, custodian, stops), Unwrap(call.minOut, call.payee) >>
  ELSE IF call.nativeIn THEN << ExchangeOut(call, call.payee, stops), Refund >>
  ELSE << ExchangeOut(call, call.payee, stops) >>

(* Each entrypoint of Router02 does its own wrapping and refunding.        *)
UniswapV2Swap(call) ==
  Transaction("v2", "v2", "argument", call, PeripheryIn(call, Router, FALSE))
UniswapV2SwapExactOut(call) ==
  Transaction("v2", "v2", "argument", call, PeripheryOut(call, Router, FALSE))

Limited(call) == call.priceLimit # {}

\* Mutant of SwapRouter02SwapExactOut: nothing is refunded.
SwapRouter02SwapExactOutNoRefund(call, key, custodian, inMulticall) ==
  Transaction(key, key, InMulticall(inMulticall), call,
              << ExchangeOut(call, call.payee, Limited(call)) >>)

(* build_exact_in and build_exact_out of the SwapRouter02 family.          *)
SwapRouter02Swap(call, key, custodian, inMulticall) ==
  Transaction(key, key, InMulticall(inMulticall), call, PeripheryIn(call, custodian, Limited(call)))
SwapRouter02SwapExactOut(call, key, custodian, inMulticall) ==
  Transaction(key, key, InMulticall(inMulticall), call, PeripheryOut(call, custodian, Limited(call)))

UniswapV3Swap(call) == SwapRouter02Swap(call, "v3", AddressThis, TRUE)
UniswapV3SwapExactOut(call) == SwapRouter02SwapExactOut(call, "v3", AddressThis, TRUE)

(* Slipstream's router is told its own address (custody_recipient).        *)
SlipstreamSwap(call) == SwapRouter02Swap(call, "slipstream", Router, FALSE)
SlipstreamSwapExactOut(call) == SwapRouter02SwapExactOut(call, "slipstream", Router, FALSE)

AerodromeSwap(call) ==
  Transaction("aerodrome", "aerodrome", "argument", call, PeripheryIn(call, Router, FALSE))

(* exchange() is called on the pool, which takes and pays ETH itself under *)
(* use_eth, and pays msg.sender unless the ABI has a receiver.             *)
CurveSwap(call) ==
  LET to == IF InterfaceOf[FirstPool(call)] = "CryptoU256Receiver"
            THEN call.payee ELSE call.sender
  IN  Transaction("pool", "pool", "none", call, << ExchangeIn(call, NATIVE, to, FALSE) >>)

-----------------------------------------------------------------------------
(* Uniswap V4.  A V4_SWAP command runs its actions with the pool manager   *)
(* unlocked, and ends when every currency is settled.                      *)

SwapV4(exactOut, sells, buys, amount, bound) ==
  [op |-> "SwapV4", exactOut |-> exactOut, sells |-> sells, buys |-> buys,
   amount |-> amount, bound |-> bound]
SettleAll(asset, most) == [op |-> "SettleAll", asset |-> asset, most |-> most]
SettleFromRouter(asset) == [op |-> "SettleFromRouter", asset |-> asset]
Take(asset, to) == [op |-> "Take", asset |-> asset, to |-> to]
Close == [op |-> "Close"]

V4Command(swap, settle, take) == << swap, settle, take, Close >>

(* The Universal Router's execute() of the commands RoutePlanner gathered. *)
Execute(call, code) == Transaction("universal", "permit2", "argument", call, code)

(* The exchange, settlement and delivery of a single V4 pool.              *)
V4NativeAsset(call) == IF IsWrapCase(call) THEN WETH ELSE NATIVE
V4Sold(call) == Sold(call, V4NativeAsset(call))
V4Bought(call) == Bought(call, V4NativeAsset(call))

V4Exchange(call, exactOut) ==
  IF exactOut
  THEN SwapV4(TRUE, V4Sold(call), V4Bought(call), call.minOut, call.amountIn)
  ELSE SwapV4(FALSE, V4Sold(call), V4Bought(call), call.amountIn, call.minOut)

V4Wrapped(call, exactOut) ==
  << Wrap(call.amountIn) >>
    \o V4Command(V4Exchange(call, exactOut), SettleFromRouter(WETH),
                 Take(V4Bought(call), call.payee))
V4Unwrapped(call, exactOut) ==
  V4Command(V4Exchange(call, exactOut), SettleAll(V4Sold(call), call.amountIn),
            Take(WETH, AddressThis))
    \o << Unwrap(call.minOut, call.payee) >>
V4Direct(call, exactOut) ==
  V4Command(V4Exchange(call, exactOut), SettleAll(V4Sold(call), call.amountIn),
            Take(V4Bought(call), call.payee))

UniswapV4Swap(call) ==
  Execute(call,
    IF IsWrapCase(call) /\ call.nativeIn THEN V4Wrapped(call, FALSE)
    ELSE IF IsWrapCase(call) THEN V4Unwrapped(call, FALSE)
    ELSE V4Direct(call, FALSE))

(* What WRAP_ETH took and the swap did not is unwrapped for the recipient. *)
UniswapV4SwapExactOut(call) ==
  Execute(call,
    IF IsWrapCase(call) /\ call.nativeIn
    THEN V4Wrapped(call, TRUE) \o << Unwrap(0, call.payee) >>
    ELSE IF IsWrapCase(call) THEN V4Unwrapped(call, TRUE)
    ELSE V4Direct(call, TRUE))

-----------------------------------------------------------------------------
(* build_uniswap_span: one command per hop.                                *)

PaidByUser(call, i) == i = call.span.start + 1 /\ ~call.nativeIn

\* Mutant of HopFloor: no hop carries the floor.
HopFloorNone(call, i) == 0

HopFloor(call, i) == IF i = call.span.end THEN call.minOut ELSE 0
HopRecipient(call, i) ==
  IF i < call.span.end \/ call.nativeOut THEN AddressThis ELSE call.payee

V2V3Hop(call, i) ==
  << Exchange(FALSE, call.path[i], call.path[i + 1],
              IF PaidByUser(call, i) THEN call.amountIn ELSE CONTRACT_BALANCE,
              HopFloor(call, i), IF PaidByUser(call, i) THEN "User" ELSE "Router",
              HopRecipient(call, i), FALSE) >>

\* Mutant of V4Hop: a hop paid by the user settles from the router.
V4HopFromRouter(call, i) ==
  V4Command(SwapV4(FALSE, call.path[i], call.path[i + 1],
                   IF PaidByUser(call, i) THEN call.amountIn ELSE OPEN_DELTA,
                   HopFloor(call, i)),
            SettleFromRouter(call.path[i]),
            Take(call.path[i + 1], HopRecipient(call, i)))

V4Hop(call, i) ==
  V4Command(SwapV4(FALSE, call.path[i], call.path[i + 1],
                   IF PaidByUser(call, i) THEN call.amountIn ELSE OPEN_DELTA,
                   HopFloor(call, i)),
            IF PaidByUser(call, i) THEN SettleAll(call.path[i], call.amountIn)
            ELSE SettleFromRouter(call.path[i]),
            Take(call.path[i + 1], HopRecipient(call, i)))

UniswapHopCode(call, i) ==
  IF KindOf[call.pools[i]] = "UniswapV4" THEN V4Hop(call, i) ELSE V2V3Hop(call, i)

UniswapCode(call) ==
  (IF call.nativeIn THEN << Wrap(call.amountIn) >> ELSE << >>)
    \o FlattenSeq([ k \in 1..SpanLen(call.span) |->
                      UniswapHopCode(call, call.span.start + k) ])
    \o (IF call.nativeOut THEN << Unwrap(call.minOut, call.payee) >> ELSE << >>)
UniswapSpan(call) == Execute(call, UniswapCode(call))

(* build_uniswap_span_exact_out: one command for a span of one version.    *)
UniswapCodeExactOut(call) ==
  IF KindOf[FirstPool(call)] = "UniswapV4" THEN V4Direct(call, TRUE)
  ELSE << ExchangeOut(call, call.payee, FALSE) >>
UniswapSpanExactOut(call) == Execute(call, UniswapCodeExactOut(call))

(* The path-encoded calls of Slipstream, Aerodrome and CurveRouterNG.      *)
SlipstreamSpan(call) ==
  Transaction("slipstream", "slipstream", "params", call, PeripheryIn(call, AddressThis, FALSE))
SlipstreamSpanExactOut(call) ==
  Transaction("slipstream", "slipstream", "params", call, PeripheryOut(call, AddressThis, FALSE))
AerodromeSpan(call) ==
  Transaction("aerodrome", "aerodrome", "argument", call, PeripheryIn(call, Router, FALSE))

(* Native endpoints carry the ETH sentinel in _route.                      *)
CurveSpan(call) ==
  Transaction("curve", "curve", "none", call, << ExchangeIn(call, NATIVE, call.payee, FALSE) >>)

-----------------------------------------------------------------------------
(* as_executable and the dispatch of build_strict_exact_out_span.          *)

PoolSwap(call) ==
  LET kind == KindOf[FirstPool(call)]
  IN  CASE kind = "UniswapV2" -> UniswapV2Swap(call)
        [] kind = "UniswapV3" -> UniswapV3Swap(call)
        [] kind = "UniswapV4" -> UniswapV4Swap(call)
        [] kind = "Slipstream" -> SlipstreamSwap(call)
        [] kind \in {"AerodromeVolatile", "AerodromeStable"} -> AerodromeSwap(call)
        [] OTHER -> CurveSwap(call)

PoolSwapExactOut(call) ==
  LET kind == KindOf[FirstPool(call)]
  IN  CASE kind = "UniswapV2" -> UniswapV2SwapExactOut(call)
        [] kind = "UniswapV3" -> UniswapV3SwapExactOut(call)
        [] kind = "UniswapV4" -> UniswapV4SwapExactOut(call)
        [] OTHER -> SlipstreamSwapExactOut(call)

SpanSwap(call) ==
  IF SpanLen(call.span) = 1 THEN PoolSwap(call)
  ELSE CASE call.span.kind = "UniswapUniversal" -> UniswapSpan(call)
         [] call.span.kind = "Aerodrome" -> AerodromeSpan(call)
         [] call.span.kind = "Slipstream" -> SlipstreamSpan(call)
         [] OTHER -> CurveSpan(call)

SpanSwapExactOut(call) ==
  IF call.span.kind = "UniswapUniversal" THEN UniswapSpanExactOut(call)
  ELSE SlipstreamSpanExactOut(call)

(* What an encoder checks before it looks at recipient and deadline.       *)
BeforeResolve(call) ==
  LET kind == KindOf[FirstPool(call)]
      curve == RouterKindOf(FirstPool(call)) = "Curve"
  IN  << Reject(FirstPool(call) \notin BuiltIn \/ (curve /\ ~CurveEnabled),
                "UnsupportedProtocol"),
         IF kind \in {"UniswapV3", "UniswapV4", "Slipstream"} THEN "Ok"
         ELSE NoPriceLimit(call),
         Reject(curve /\ Native(call)
                /\ InterfaceOf[FirstPool(call)] # "CryptoU256UseEth",
                "UnsupportedProtocol"),
         Reject(call.nativeIn /\ call.nativeOut, "NativeMismatch"),
         IF kind = "UniswapV4" THEN ResolveSwapWith(call, V4NativeAsset(call))
         ELSE ResolveSwap(call) >>

(* build_swap of an encoder given optionsVerdict for its options.          *)
PoolVerdict(call, optionsVerdict) ==
  FirstError(BeforeResolve(call) \o << optionsVerdict, SinglePoolVerdict(call) >>)

(* build_swap_exact_out refuses what build_swap does; Aerodrome's and      *)
(* Curve's have no exact output.                                           *)
PoolExactOutVerdict(call, optionsVerdict) ==
  FirstError(<< Reject(KindOf[FirstPool(call)] \notin
                         {"UniswapV2", "UniswapV3", "UniswapV4", "Slipstream"},
                       "UnsupportedProtocol"),
                PoolVerdict(call, optionsVerdict) >>)

-----------------------------------------------------------------------------
(* chains.rs: the routers of the two presets.                              *)
EthereumRouters == {"v2", "v3", "universal", "permit2", "curve"}
BaseRouters == {"v3", "universal", "permit2", "aerodrome", "aerodrome_factory",
                "slipstream"}
=============================================================================
