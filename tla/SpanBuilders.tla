---------------------------- MODULE SpanBuilders ----------------------------
(***************************************************************************)
(* The encoders that turn one span of a route into one transaction: the    *)
(* single-pool encoders behind Executable::build_swap and the family       *)
(* builders for spans of several pools.  Calldata is abstracted to what    *)
(* decides whether a span can be built (the checks of each builder, in     *)
(* their order) and to who pays and receives what when it settles.         *)
(***************************************************************************)
EXTENDS Routing, FiniteSets

CONSTANTS
  WETH, NATIVE,   \* the wrapped asset and the chain's native asset id
  BuiltIn,        \* the pools the downcasts of the builders recognise
  InterfaceOf,    \* the CurveInterface of a Curve pool, "None" if it has no
                  \* interface or no address
  CurveEnabled,   \* the cargo feature "curve"
  MaxU128         \* the largest amount a Uniswap V4 struct can hold

RouterKey == {"v2", "v3", "universal", "permit2", "slipstream",
              "aerodrome", "aerodrome_factory", "curve"}
CurveInterface == {"StableI128", "StableI128Ng", "CryptoU256UseEth",
                   "CryptoU256Receiver"}
BuildError == {"EmptyRoute", "DisjointRoute", "UnsupportedProtocol",
               "UnsupportedExactOut", "ExactOutUnavailable", "AssetNotInPool",
               "MissingChainConfig", "MissingObservedAmount", "Overflow",
               "RecipientNotSupported", "UnresolvedDeadline"}
Verdict == BuildError \cup {"Ok"}

ASSUME BuildersAssumption ==
  /\ WETH \in Asset /\ NATIVE \in Asset
  /\ BuiltIn \subseteq Pool
  /\ InterfaceOf \in [Pool -> CurveInterface \cup {"None"}]
  /\ CurveEnabled \in BOOLEAN
  /\ MaxU128 \in Nat

-----------------------------------------------------------------------------
(* A builder runs its checks in order and returns the first error.         *)
Reject(condition, error) == IF condition THEN error ELSE "Ok"
FirstError(verdicts) ==
  LET failed == {i \in 1..Len(verdicts) : verdicts[i] # "Ok"}
  IN  IF failed = {} THEN "Ok"
      ELSE verdicts[CHOOSE i \in failed : \A j \in failed : i <= j]

Needs(call, key) == Reject(key \notin call.ctx, "MissingChainConfig")

SpanPools(call) == call.span.start + 1 .. call.span.end
FirstPool(call) == call.pools[call.span.start + 1]
LastPool(call) == call.pools[call.span.end]
SpanIn(call) == call.path[call.span.start + 1]
SpanOut(call) == call.path[call.span.end + 1]
Native(call) == call.nativeIn \/ call.nativeOut

(* resolve_swap_with: native edges become nativeAsset, and the pool must   *)
(* trade the two resolved, distinct assets.  Recipient and deadline are    *)
(* already absolute when a plan calls an encoder, and NativeEdge excludes  *)
(* native on both sides.                                                   *)
ResolveSwapWith(call, nativeAsset) ==
  LET input  == IF call.nativeIn THEN nativeAsset ELSE SpanIn(call)
      output == IF call.nativeOut THEN nativeAsset ELSE SpanOut(call)
  IN  Reject(~({input, output} \subseteq AssetsOf[FirstPool(call)]
               /\ input # output), "AssetNotInPool")

ResolveSwap(call) == ResolveSwapWith(call, WETH)

(* is_wrap_case: ETH is wrapped around a V4 pool that trades WETH and has  *)
(* no native currency of its own.                                          *)
IsWrapCase(call) ==
  /\ Native(call)
  /\ WETH \in AssetsOf[FirstPool(call)]
  /\ NATIVE \notin AssetsOf[FirstPool(call)]

(* call.priceLimit is the pair of assets the price limit is about, {} if   *)
(* there is none.                                                          *)
NoPriceLimit(call) == Reject(call.priceLimit # {}, "UnsupportedProtocol")

(* resolve_sqrt_limit, always called for two hops: the limit must be about *)
(* the pool's own pair.                                                    *)
LimitFits(call) ==
  Reject(call.priceLimit \notin {{}, AssetsOf[FirstPool(call)]}, "AssetNotInPool")

UniswapV2Checks(call) ==
  << NoPriceLimit(call), ResolveSwap(call), Needs(call, "v2") >>

(* build_exact_in of V3 and Slipstream: a price limit is honoured.         *)
SwapRouter02Checks(call, key) ==
  << ResolveSwap(call), LimitFits(call), Needs(call, key) >>

UniswapV4Checks(call) ==
  << ResolveSwapWith(call, IF IsWrapCase(call) THEN WETH ELSE NATIVE),
     NoPriceLimit(call),
     Reject(call.amountIn > MaxU128 \/ call.minOut > MaxU128, "Overflow"),
     IF call.nativeIn THEN "Ok" ELSE Needs(call, "permit2"),
     Needs(call, "universal") >>

AerodromeChecks(call) ==
  << NoPriceLimit(call), ResolveSwap(call),
     Needs(call, "aerodrome"), Needs(call, "aerodrome_factory") >>

(* ensure_delivers_to_sender: an ABI without a receiver pays msg.sender.   *)
DeliversToSender(call) ==
  Reject(call.payee # call.sender, "RecipientNotSupported")

CurveChecks(call) ==
  LET interface == InterfaceOf[FirstPool(call)]
  IN  << NoPriceLimit(call),
         Reject(Native(call) /\ interface # "CryptoU256UseEth",
                "UnsupportedProtocol"),
         ResolveSwap(call),
         Reject(interface = "None", "UnsupportedProtocol"),
         IF interface = "CryptoU256Receiver" THEN "Ok"
         ELSE DeliversToSender(call) >>

(* build_single_pool_span: the pool's own encoder.                         *)
SinglePoolVerdict(call) ==
  LET kind == KindOf[FirstPool(call)]
      checks ==
        CASE kind = "UniswapV2" -> UniswapV2Checks(call)
          [] kind = "UniswapV3" -> SwapRouter02Checks(call, "v3")
          [] kind = "UniswapV4" -> UniswapV4Checks(call)
          [] kind = "Slipstream" -> SwapRouter02Checks(call, "slipstream")
          [] kind \in {"AerodromeVolatile", "AerodromeStable"} ->
               AerodromeChecks(call)
          [] OTHER -> CurveChecks(call)
      executable == /\ FirstPool(call) \in BuiltIn
                    /\ RouterKindOf(FirstPool(call)) = "Curve" => CurveEnabled
  IN  FirstError(<< Reject(~executable, "UnsupportedProtocol") >> \o checks)

-----------------------------------------------------------------------------
(* One hop of build_uniswap_span.  Only a first hop paid by the user       *)
(* carries an amount, and only the last hop carries the floor.             *)
UniswapHop(call, i) ==
  LET pool == call.pools[i]
      paidByUser == i = call.span.start + 1 /\ ~call.nativeIn
  IN  FirstError(<<
        Reject(pool \notin BuiltIn, "UnsupportedProtocol"),
        Reject(/\ KindOf[pool] = "UniswapV4"
               /\ \/ paidByUser /\ call.amountIn > MaxU128
                  \/ i = call.span.end /\ call.minOut > MaxU128,
               "Overflow") >>)

UniswapSpanChecks(call) ==
  [ k \in 1..SpanLen(call.span) |-> UniswapHop(call, call.span.start + k) ]
    \o << Needs(call, "universal"),
          IF call.nativeIn THEN "Ok" ELSE Needs(call, "permit2") >>

AllBuiltIn(call) ==
  Reject(\E i \in SpanPools(call) : call.pools[i] \notin BuiltIn,
         "UnsupportedProtocol")

(* build_aerodrome_span reads only the kind and the tokens of its pools.   *)
AerodromeSpanChecks(call) ==
  << Needs(call, "aerodrome"), Needs(call, "aerodrome_factory") >>

SlipstreamSpanChecks(call) == << Needs(call, "slipstream"), AllBuiltIn(call) >>

UseEth(pool) == pool \in BuiltIn /\ InterfaceOf[pool] = "CryptoU256UseEth"

CurveSpanChecks(call) ==
  << Reject(~CurveEnabled, "UnsupportedProtocol"),
     Needs(call, "curve"),
     Reject(call.nativeIn /\ ~UseEth(FirstPool(call)), "UnsupportedProtocol"),
     Reject(call.nativeOut /\ ~UseEth(LastPool(call)), "UnsupportedProtocol"),
     AllBuiltIn(call),
     Reject(\E i \in SpanPools(call) : InterfaceOf[call.pools[i]] = "None",
            "UnsupportedProtocol") >>

(* The dispatch of next_tx on the router and the number of pools.          *)
ExactInVerdict(call) ==
  IF SpanLen(call.span) = 1 THEN SinglePoolVerdict(call)
  ELSE FirstError(
    CASE call.span.kind = "UniswapUniversal" -> UniswapSpanChecks(call)
      [] call.span.kind = "Aerodrome" -> AerodromeSpanChecks(call)
      [] call.span.kind = "Slipstream" -> SlipstreamSpanChecks(call)
      [] OTHER -> CurveSpanChecks(call))

(* build_uniswap_span_exact_out: no native edge, one version, one V4 pool. *)
UniswapExactOutChecks(call) ==
  LET kinds == {KindOf[call.pools[i]] : i \in SpanPools(call)}
      v4 == kinds = {"UniswapV4"}
  IN  << Reject(Native(call), "UnsupportedProtocol"),
         Reject(Cardinality(kinds) > 1, "UnsupportedExactOut"),
         Reject(v4 /\ SpanLen(call.span) > 1, "UnsupportedExactOut"),
         AllBuiltIn(call),
         Reject(v4 /\ (call.amountIn > MaxU128 \/ call.minOut > MaxU128),
                "Overflow"),
         Needs(call, "universal"), Needs(call, "permit2") >>

(* build_strict_exact_out_span; the Slipstream exact-out builder has the   *)
(* checks of its exact-in builder.                                         *)
ExactOutVerdict(call) ==
  FirstError(
    CASE call.span.kind = "UniswapUniversal" -> UniswapExactOutChecks(call)
      [] call.span.kind = "Slipstream" -> SlipstreamSpanChecks(call)
      [] OTHER -> << "UnsupportedProtocol" >>)

-----------------------------------------------------------------------------
(* The PreparedSwap of a span: what settling it takes from the sender,     *)
(* what it owes the payee, and how min_received labels it.                 *)

Prepared(call, exactOut, deadline) ==
  [ sells    |-> IF call.nativeIn THEN NATIVE ELSE SpanIn(call),
    buys     |-> IF call.nativeOut THEN NATIVE ELSE SpanOut(call),
    amountIn |-> call.amountIn,   \* the ceiling max_spent when exactOut
    minOut   |-> call.minOut,     \* the exact output when exactOut
    exactOut |-> exactOut,
    \* only the encoders of single pools accept a price limit, and native
    \* input is sent whole, wherever the swap stops
    mayStop  |-> /\ call.priceLimit # {} /\ SpanLen(call.span) = 1
                 /\ ~exactOut /\ ~call.nativeIn,
    payee    |-> call.payee,
    \* every router but Curve's pools and CurveRouterNG enforces a deadline
    expires  |-> call.span.kind # "Curve",
    deadline |-> deadline,
    \* the span builders report NATIVE, the encoders the quoted asset
    label    |-> IF call.nativeOut /\ (exactOut \/ SpanLen(call.span) > 1)
                 THEN NATIVE ELSE SpanOut(call),
    start    |-> call.span.start,
    end      |-> call.span.end ]
=============================================================================
