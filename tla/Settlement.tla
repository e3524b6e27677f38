----------------------------- MODULE Settlement -----------------------------
(***************************************************************************)
(* What happens when a transaction of Calldata is included: the contract   *)
(* it calls executes the instructions in order, moving money between the   *)
(* sender, the payee and itself; pools exchange at amounts of the market's *)
(* choosing; the first failed check undoes everything.                     *)
(*                                                                         *)
(* Routers, pools and tokens are not part of the repository.  They behave  *)
(* here as the encoders and the fork tests use them.                       *)
(***************************************************************************)
EXTENDS Calldata, Options

CONSTANTS
  Account,    \* those who send and are paid
  Calls,      \* [call, entry, exactOut, opts]: what an encoder may be asked
  MaxClock,   \* bound: how far the chain's clock runs
  MaxPayout,  \* bound: what a pool takes or pays in one exchange
  Savings     \* what every account holds of every asset besides the input

Holder == Account \cup {Router, AddressThis}
Market == 1..MaxPayout

(* What a route, a span of it and the caller's wishes make up.             *)
EncoderCall ==
  [ pools : Seq(Pool), path : Seq(Asset),
    span : [start : Nat, end : Nat, kind : RouterKind],
    ctx : SUBSET RouterKey, priceLimit : SUBSET Asset,
    amountIn : Nat, minOut : Nat, payee : Account \cup {Nobody}, sender : Account,
    nativeIn : BOOLEAN, nativeOut : BOOLEAN ]

EncoderOptions ==
  [ recipient : Account \cup {TheSender}, sender : Account \cup {Nobody},
    deadline : [kind : {"FromNow", "AtTimestamp", "AtBlock"}, at : Nat] ]

ASSUME SettlementAssumption ==
  /\ Router \notin Account /\ AddressThis \notin Account
  /\ MaxPayout \in Nat /\ MaxClock \in Nat /\ Savings \in Nat
  /\ \A one \in Calls :
       /\ one.exactOut \in BOOLEAN /\ one.entry \in {"pool", "span"}
       /\ one.call \in EncoderCall
       /\ one.call.span.start + 1 \in DOMAIN one.call.path
       /\ one.opts \in EncoderOptions
       /\ one.entry = "pool" => SpanLen(one.call.span) = 1

(* An amount is asked for, within the bound on amounts.                    *)
AsksAnAmount(one) ==
  /\ one.call.amountIn \in 1..MaxPayout
  /\ one.exactOut => one.call.minOut \in 1..MaxPayout

(* The span is one of a valid route: see Validate and IsPartition.  (The   *)
(* encoder of a pool asked for assets that the pool does not trade refuses.)*)
AsksForASpan(call) ==
  /\ call.span.start < call.span.end
  /\ call.span.kind = "Curve" => SpanLen(call.span) <= CURVE_MAX_HOPS
  /\ call.span.end \in DOMAIN call.pools /\ call.span.end + 1 \in DOMAIN call.path
  /\ \A i \in SpanPools(call) :
       HopJoined(call, i) /\ RouterKindOf(call.pools[i]) = call.span.kind

(* A native edge is one where the path has ETH or its wrapped form, and    *)
(* ETH is never passed off as a token.                                     *)
NativeIsETH(call) ==
  /\ call.nativeIn => SpanIn(call) \in {WETH, NATIVE}
  /\ call.nativeOut => SpanOut(call) \in {WETH, NATIVE}
  /\ SpanIn(call) = NATIVE => call.nativeIn

(* A plan hands over resolved options and at most one native edge.         *)
ASSUME CallsAssumption ==
  /\ WETH # NATIVE /\ TheSender \notin Account
  /\ \A pool \in Pool : NATIVE \in AssetsOf[pool] => KindOf[pool] = "UniswapV4"
  /\ \A one \in Calls :
       /\ AsksAnAmount(one) /\ AsksForASpan(one.call) /\ NativeIsETH(one.call)
       /\ one.entry = "span" =>
            Resolved(one.opts) = "Ok" /\ ~(one.call.nativeIn /\ one.call.nativeOut)

VARIABLES
  ask,        \* what the caller wants encoded
  opts,       \* the options as the encoder gets them
  answer,     \* the error it returned, or "Ok"
  tx,         \* the transaction it returned
  \* "Drafted", "Asked", then "Refused" or "Running", then "Settled" or
  \* "Reverted"
  status,
  why,        \* the check that failed
  pc,         \* the instruction to execute next
  funds,      \* what each holder has of each asset
  delta,      \* what the pool manager owes the router, negative for a debt
  allowance,  \* what the spender may still pull
  \* whether Slipstream's router takes address(2) for itself: the builder of
  \* single pools and that of spans disagree on it
  resolves,
  clock       \* the chain's time

vars == <<ask, opts, answer, tx, status, why, pc, funds, delta, allowance,
          resolves, clock>>

-----------------------------------------------------------------------------
(* The encoder. *)

Call == [ask.call EXCEPT !.payee = opts.recipient, !.sender = opts.sender]

EncoderVerdict ==
  IF ask.entry = "pool"
  THEN IF ask.exactOut THEN PoolExactOutVerdict(Call, Resolved(opts))
       ELSE PoolVerdict(Call, Resolved(opts))
  ELSE IF ask.exactOut THEN ExactOutVerdict(Call) ELSE ExactInVerdict(Call)

Encoded ==
  IF ask.entry = "pool"
  THEN IF ask.exactOut THEN PoolSwapExactOut(Call) ELSE PoolSwap(Call)
  ELSE IF ask.exactOut THEN SpanSwapExactOut(Call) ELSE SpanSwap(Call)

InputAsset == IF ask.call.nativeIn THEN NATIVE ELSE SpanIn(ask.call)
OutputAsset == IF ask.call.nativeOut THEN NATIVE ELSE SpanOut(ask.call)

(* The sender has what the transaction may take.                           *)
Funded ==
  [who \in Holder |-> [asset \in Asset |->
     IF who \notin Account THEN 0
     ELSE Savings + (IF who = ask.call.sender /\ asset = InputAsset
                     THEN ask.call.amountIn ELSE 0)]]

NoDelta == [asset \in Asset |-> 0]

(* The caller resolves the options at the edge, or forgets to.             *)
HandOver ==
  /\ status = "Drafted" /\ status' = "Asked"
  /\ opts' \in {ask.opts, Resolve(ask.opts, clock, ask.call.sender)}
  /\ UNCHANGED <<ask, answer, tx, why, pc, funds, delta, allowance, resolves, clock>>

(* Time passes until the transaction is included.                          *)
Tick ==
  /\ status \in {"Drafted", "Asked"} /\ clock < MaxClock
  /\ clock' = clock + 1
  /\ UNCHANGED <<ask, opts, answer, tx, status, why, pc, funds, delta, allowance,
                 resolves>>

Refuse ==
  /\ status = "Asked"
  /\ EncoderVerdict # "Ok"
  /\ status' = "Refused" /\ answer' = EncoderVerdict
  /\ UNCHANGED <<ask, opts, tx, why, pc, funds, delta, allowance, resolves, clock>>

(* The caller grants the approval, sends the transaction and its value.    *)
Send ==
  /\ status = "Asked"
  /\ EncoderVerdict = "Ok"
  /\ Encoded.value <= Funded[ask.call.sender][NATIVE]
  /\ status' = "Running" /\ tx' = Encoded /\ pc' = 1
  /\ allowance' = Encoded.approval.amount
  /\ funds' = [Funded EXCEPT ![ask.call.sender][NATIVE] = @ - Encoded.value,
                             ![Router][NATIVE] = @ + Encoded.value]
  /\ UNCHANGED <<ask, opts, answer, why, delta, resolves, clock>>

-----------------------------------------------------------------------------
(* The contract. *)

Exchanges(exactOut, amounts) ==
  [op : {"Exchange"}, exactOut : {exactOut}, sells : Asset, buys : Asset,
   amount : amounts, bound : Nat, payer : {"User", "Router"}, to : Holder,
   stops : BOOLEAN]

(* What a contract can decode: amounts are unsigned, assets and holders    *)
(* are addresses it has a ledger for.                                      *)
Decodable ==
  [op : {"Wrap"}, amount : Nat] \cup [op : {"Unwrap"}, least : Nat, to : Account]
    \cup [op : {"Refund"}] \cup [op : {"Close"}]
    \cup Exchanges(FALSE, Nat \cup {CONTRACT_BALANCE}) \cup Exchanges(TRUE, Nat)
    \cup [op : {"SwapV4"}, exactOut : BOOLEAN, sells : Asset, buys : Asset,
          amount : Nat, bound : Nat]
    \cup [op : {"SettleAll"}, asset : Asset, most : Nat]
    \cup [op : {"SettleFromRouter"}, asset : Asset]
    \cup [op : {"Take"}, asset : Asset, to : Holder]

(* A deadline that reached the contract is checked before anything else.   *)
Late == tx.deadlineIn # "none" /\ clock > opts.deadline.at
Running == status = "Running" /\ ~Late /\ pc <= Len(tx.code)
Instruction == tx.code[pc]
At(op) == Running /\ Instruction \in Decodable /\ Instruction.op = op

Held(asset) == funds[Router][asset]

Proceed(f) ==
  /\ funds' = f /\ pc' = pc + 1
  /\ UNCHANGED <<ask, opts, answer, tx, status, why, resolves, clock>>

Revert(reason) ==
  /\ status' = "Reverted" /\ why' = reason
  /\ funds' = Funded /\ delta' = NoDelta /\ allowance' = 0
  /\ UNCHANGED <<ask, opts, answer, tx, pc, resolves, clock>>

Receive(f, who, asset, raw) == [f EXCEPT ![who][asset] = @ + raw]
Lose(f, who, asset, raw) == [f EXCEPT ![who][asset] = @ - raw]
Move(f, from, to, asset, raw) == Receive(Lose(f, from, asset, raw), to, asset, raw)

(* ADDRESS_THIS as the contract called understands it.                     *)
Named(to) ==
  IF to = AddressThis /\ (tx.to # "slipstream" \/ resolves) THEN Router ELSE to

(* Where an input comes from: ETH always, and anything the router is named *)
(* to pay, from the router; WETH from the router's ETH while that is       *)
(* enough (pay() of the periphery); the rest from the sender.              *)
FromRouter(payer, asset) == payer = "Router" \/ asset = NATIVE
FromValue(payer, asset, raw) ==
  /\ payer = "User" /\ asset = WETH
  /\ tx.to # "universal" /\ tx.value > 0 /\ Held(NATIVE) >= raw

PayError(payer, asset, raw) ==
  IF FromRouter(payer, asset)
  THEN Reject(Held(asset) < raw, "NoFunds")
  ELSE IF FromValue(payer, asset, raw) THEN "Ok"
  ELSE FirstError(<< Reject(tx.approval.asset # asset \/ allowance < raw, "NoAllowance"),
                     Reject(funds[ask.call.sender][asset] < raw, "NoFunds") >>)

Paid(payer, asset, raw) ==
  IF FromRouter(payer, asset) THEN Lose(funds, Router, asset, raw)
  ELSE IF FromValue(payer, asset, raw) THEN Lose(funds, Router, NATIVE, raw)
  ELSE Lose(funds, ask.call.sender, asset, raw)

SpendAllowance(payer, asset, raw) ==
  allowance' = IF FromRouter(payer, asset) \/ FromValue(payer, asset, raw)
               THEN allowance ELSE allowance - raw

(* Pay for an exchange and hand its output over, or fail.                  *)
Trade(payer, sells, took, to, buys, gave) ==
  IF PayError(payer, sells, took) # "Ok" THEN Revert(PayError(payer, sells, took))
  ELSE /\ Proceed(Receive(Paid(payer, sells, took), to, buys, gave))
       /\ SpendAllowance(payer, sells, took)
       /\ UNCHANGED delta

(* Router and pools check the amount they are asked to trade before and    *)
(* the bound after the exchange.                                           *)
ExchangeExactIn ==
  /\ At("Exchange") /\ ~Instruction.exactOut
  /\ LET i == Instruction
         whole == IF i.amount = CONTRACT_BALANCE THEN Held(i.sells) ELSE i.amount
     IN  \E took \in (IF i.stops THEN 1..whole ELSE {whole}), gave \in Market :
           IF whole = 0 THEN Revert("ZeroSwap")
           ELSE IF gave < i.bound THEN Revert("TooLittle")
           ELSE Trade(i.payer, i.sells, took, Named(i.to), i.buys, gave)

ExchangeExactOut ==
  /\ At("Exchange") /\ Instruction.exactOut
  /\ LET i == Instruction
     IN  \E took \in Market, gave \in (IF i.stops THEN 1..i.amount ELSE {i.amount}) :
           IF i.amount = 0 THEN Revert("ZeroSwap")
           ELSE IF took > i.bound THEN Revert("TooMuch")
           ELSE Trade(i.payer, i.sells, took, Named(i.to), i.buys, gave)

WrapETH ==
  /\ At("Wrap")
  /\ IF Held(NATIVE) < Instruction.amount THEN Revert("NoFunds")
     ELSE /\ Proceed(Receive(Lose(funds, Router, NATIVE, Instruction.amount),
                             Router, WETH, Instruction.amount))
          /\ UNCHANGED <<delta, allowance>>

UnwrapWETH ==
  /\ At("Unwrap")
  /\ IF Held(WETH) < Instruction.least THEN Revert("NothingToUnwrap")
     ELSE /\ Proceed(Receive(Lose(funds, Router, WETH, Held(WETH)),
                             Instruction.to, NATIVE, Held(WETH)))
          /\ UNCHANGED <<delta, allowance>>

RefundETH ==
  /\ At("Refund")
  /\ Proceed(Move(funds, Router, ask.call.sender, NATIVE, Held(NATIVE)))
  /\ UNCHANGED <<delta, allowance>>

(* A V4 swap changes what is owed; OPEN_DELTA stands for all the pool      *)
(* manager owes the router of the input.                                   *)
SwapV4ExactIn ==
  /\ At("SwapV4") /\ ~Instruction.exactOut
  /\ LET i == Instruction
         amount == IF i.amount = OPEN_DELTA THEN delta[i.sells] ELSE i.amount
     IN  \E gave \in Market :
           IF amount < 0 THEN Revert("NoCredit")
           ELSE IF amount = 0 THEN Revert("ZeroSwap")
           ELSE IF gave < i.bound THEN Revert("TooLittle")
           ELSE /\ delta' = [delta EXCEPT ![i.sells] = @ - amount, ![i.buys] = @ + gave]
                /\ Proceed(funds) /\ UNCHANGED allowance

SwapV4ExactOut ==
  /\ At("SwapV4") /\ Instruction.exactOut
  /\ LET i == Instruction
     IN  \E took \in Market :
           IF i.amount = 0 THEN Revert("ZeroSwap")
           ELSE IF took > i.bound THEN Revert("TooMuch")
           ELSE /\ delta' = [delta EXCEPT ![i.sells] = @ - took, ![i.buys] = @ + i.amount]
                /\ Proceed(funds) /\ UNCHANGED allowance

Settle(payer, asset) ==
  IF delta[asset] > 0 THEN Revert("NoDebt")
  ELSE IF PayError(payer, asset, -delta[asset]) # "Ok"
  THEN Revert(PayError(payer, asset, -delta[asset]))
  ELSE /\ Proceed(Paid(payer, asset, -delta[asset]))
       /\ SpendAllowance(payer, asset, -delta[asset])
       /\ delta' = [delta EXCEPT ![asset] = 0]

SettleDebt ==
  \/ /\ At("SettleAll")
     /\ IF -delta[Instruction.asset] > Instruction.most THEN Revert("DebtTooLarge")
        ELSE Settle("User", Instruction.asset)
  \/ /\ At("SettleFromRouter")
     /\ Settle("Router", Instruction.asset)

TakeCredit ==
  /\ At("Take")
  /\ IF delta[Instruction.asset] < 0 THEN Revert("NoCredit")
     ELSE /\ Proceed(Receive(funds, Named(Instruction.to), Instruction.asset,
                             delta[Instruction.asset]))
          /\ delta' = [delta EXCEPT ![Instruction.asset] = 0]
          /\ UNCHANGED allowance

CloseManager ==
  /\ At("Close")
  /\ IF delta # NoDelta THEN Revert("Unsettled")
     ELSE Proceed(funds) /\ UNCHANGED <<delta, allowance>>

Expire ==
  /\ status = "Running" /\ Late
  /\ Revert("Expired")

(* The end of the code, or an instruction that cannot be decoded.          *)
Finish ==
  /\ status = "Running" /\ ~Late /\ (Running => Instruction \notin Decodable)
  /\ IF Running THEN Revert("Undecodable")
     ELSE /\ status' = "Settled"
          /\ UNCHANGED <<ask, opts, answer, tx, why, pc, funds, delta, allowance,
                         resolves, clock>>

Init ==
  /\ ask \in Calls /\ opts = ask.opts /\ clock = 0
  /\ answer = "Ok" /\ status = "Drafted" /\ why = "none" /\ pc = 0
  /\ tx = [to |-> "none", code |-> << >>, deadlineIn |-> "none",
            approval |-> NoApproval, value |-> 0]
  /\ funds = Funded /\ delta = NoDelta /\ allowance = 0
  /\ resolves \in BOOLEAN

Next ==
  \/ HandOver \/ Tick \/ Refuse \/ Send \/ Expire \/ Finish
  \/ ExchangeExactIn \/ ExchangeExactOut \/ WrapETH \/ UnwrapWETH \/ RefundETH
  \/ SwapV4ExactIn \/ SwapV4ExactOut \/ SettleDebt \/ TakeCredit \/ CloseManager

Spec == Init /\ [][Next]_vars
=============================================================================
