------------------------ MODULE SettlementProperties ------------------------
(***************************************************************************)
(* What the transactions of the encoders are for: they do to the accounts  *)
(* what PreparedSwap says and nothing else, they leave nothing in a router *)
(* and they fail only when the market is worse than the caller allows,     *)
(* each but for the cases named here.                                      *)
(***************************************************************************)
EXTENDS Settlement, Paths

Direct == ask.entry = "pool"

(* The encoders of single pools hand a price limit to exact outputs too.   *)
LimitedOutput == Direct /\ ask.exactOut /\ Limited(Call)

(* ETH wrapped beforehand for an exact output of a V4 pool.                *)
WrappedV4Output ==
  /\ Direct /\ ask.exactOut /\ Call.nativeIn
  /\ KindOf[FirstPool(Call)] = "UniswapV4" /\ IsWrapCase(Call)

(* The PreparedSwap of what was asked.  An output unwrapped at its target  *)
(* cannot stop short of it.                                                *)
Terms ==
  LET prepared == Prepared(Call, ask.exactOut, 0)
  IN  [ sender |-> ask.call.sender, payee |-> prepared.payee,
        sells |-> prepared.sells, buys |-> prepared.buys,
        expires |-> prepared.expires,
        deadline |-> IF ask.opts.deadline.kind = "AtTimestamp"
                     THEN ask.opts.deadline.at ELSE opts.deadline.at,
        amountIn |-> prepared.amountIn, minOut |-> prepared.minOut,
        exactOut |-> prepared.exactOut,
        mayStop |-> prepared.mayStop \/ (LimitedOutput /\ ~Call.nativeOut),
        changeTo |-> IF WrappedV4Output THEN prepared.payee ELSE ask.call.sender ]

AccountsHave(f) == [who \in Account |-> f[who]]

Promise == INSTANCE AtomicSwap WITH
  Amount <- 0..MaxPayout,
  terms <- Terms,
  wallet <- AccountsHave(IF status = "Settled" THEN funds ELSE Funded),
  state <- CASE status = "Settled" -> "Filled"
             [] status \in {"Reverted", "Refused"} -> "Failed"
             [] status = "Drafted" -> "Draft"
             [] OTHER -> "Open"

(* Refinement: every transaction is one sale, or none.  Whatever router,   *)
(* hops, wrappings and market, the sender pays what PreparedSwap says, the *)
(* payee gets what it says, and no other money of an account moves.        *)
OneSaleOrNone == Promise!Spec

(* ETH sent whole for a swap that took less of it: an exact input under a  *)
(* price limit (no refundETH; a plan hands the limit to the encoder of a   *)
(* single-pool span), an exact output of a native V4 pool.                 *)
UnusedValue ==
  /\ Call.nativeIn
  /\ \/ Limited(Call) /\ SpanLen(Call.span) = 1 /\ ~ask.exactOut
     \/ /\ Direct /\ ask.exactOut
        /\ KindOf[FirstPool(Call)] = "UniswapV4" /\ ~IsWrapCase(Call)

(* Slipstream's span builder names address(2), the router takes it for an  *)
(* account.                                                                *)
SentinelUnknown ==
  tx.to = "slipstream" /\ ~Direct /\ Call.nativeOut /\ ~resolves

(* Nothing is left in the router, but for unused ETH, and nothing is sent  *)
(* to address(2) unless a span asked for no output at all.                 *)
NothingStranded ==
  status = "Settled" =>
    \A asset \in Asset :
      /\ funds[Router][asset] > 0 => UnusedValue /\ asset = NATIVE
      /\ funds[AddressThis][asset] > 0 => SentinelUnknown /\ Call.minOut = 0

(* A V4 hop of a span that the user does not pay for opens with no delta.  *)
ChainedV4 ==
  /\ ~Direct /\ ~ask.exactOut /\ SpanLen(Call.span) > 1
  /\ \E i \in SpanPools(Call) :
       KindOf[Call.pools[i]] = "UniswapV4" /\ ~PaidByUser(Call, i)

MarketFailed == why \in {"TooLittle", "TooMuch"}

(* A transaction whose approval was granted and whose value was sent fails *)
(* for the market alone: no payment lacks funds or allowance, no debt      *)
(* stays open, no unwrapping finds too little.                             *)
RevertsForCause ==
  status = "Reverted" =>
    \/ MarketFailed
    \/ why = "Expired" /\ clock > opts.deadline.at
    \/ ChainedV4 /\ why = "ZeroSwap"
    \/ SentinelUnknown /\ why = "NothingToUnwrap"
    \/ LimitedOutput /\ Call.nativeOut /\ why = "NothingToUnwrap"

(* No account is ever, not even half way, below what it had besides the    *)
(* input: approval and value together are the input and no more.           *)
SavingsUntouched ==
  \A who \in Account, asset \in Asset : funds[who][asset] >= Savings

(* The pools a router finds by what the transaction tells it are those of  *)
(* the span, each traded from the asset that reaches it to the asset that  *)
(* leaves it: no other fee tier, spacing, curve or direction.              *)
RouterWalksTheSpan ==
  status = "Running" /\ pc = 1 =>
    (IF Direct THEN PoolLegs(Call) ELSE SpanLegs(Call, ask.exactOut))
      = [k \in 1..SpanLen(Call.span) |->
           LET i == Call.span.start + k
           IN  Leg({Call.pools[i]}, Call.path[i], Call.path[i + 1])]

-----------------------------------------------------------------------------
(* What the documents say of the same transactions. *)

(* README.md:134-135: every calldata builder is proven to settle on chain. *)
(* uniswap_ur.rs:13-16: a chained V4 swap consumes the full open delta.    *)
BuiltTransactionsCanSettle ==
  status = "Reverted" => MarketFailed \/ why = "Expired"
=============================================================================
