-------------------------- MODULE SettlementProofs --------------------------
(***************************************************************************)
(* What the transactions of the encoders do to the balances, for every     *)
(* route, option and market: none takes more from an account than its      *)
(* input, none leaves anything behind on the router but a value sent with  *)
(* the call that it never uses, none reverts without a cause, and each     *)
(* sells as the abstract swap promises.                                    *)
(*                                                                         *)
(* Savings depend on nothing but what a transaction takes.  The rest needs *)
(* to know where a transaction is: the invariant says that the part that   *)
(* is left to run is one of the encoder's stages, and what everybody holds *)
(* before each of them.                                                    *)
(*                                                                         *)
(* At last, the pools: what a transaction names them by is enough to find  *)
(* them again.                                                             *)
(***************************************************************************)
EXTENDS SettlementProperties, CommonLemmas

Ledger == [Holder -> [Asset -> Nat]]

(* What a transaction may take is fixed by the call, not by the encoder.   *)
TakesTheInput(t, call) ==
  /\ t.value = IF call.nativeIn THEN call.amountIn ELSE 0
  /\ t.approval.asset = IF call.nativeIn THEN WETH ELSE SpanIn(call)
  /\ t.approval.amount = IF call.nativeIn THEN 0 ELSE call.amountIn

LEMMA TransactionTakesTheInput ==
  ASSUME NEW to, NEW spender, NEW deadlineIn, NEW call, NEW code
  PROVE  TakesTheInput(Transaction(to, spender, deadlineIn, call, code), call)
BY DEF TakesTheInput, Transaction, Approval, NoApproval

LEMMA PoolsTakeTheInput ==
  ASSUME NEW call
  PROVE  /\ TakesTheInput(PoolSwap(call), call)
         /\ TakesTheInput(PoolSwapExactOut(call), call)
<1>1. /\ TakesTheInput(UniswapV2Swap(call), call)
      /\ TakesTheInput(UniswapV2SwapExactOut(call), call)
      /\ TakesTheInput(AerodromeSwap(call), call)
  BY TransactionTakesTheInput DEF UniswapV2Swap, UniswapV2SwapExactOut, AerodromeSwap
<1>2. /\ TakesTheInput(UniswapV3Swap(call), call)
      /\ TakesTheInput(UniswapV3SwapExactOut(call), call)
      /\ TakesTheInput(SlipstreamSwap(call), call)
      /\ TakesTheInput(SlipstreamSwapExactOut(call), call)
  BY TransactionTakesTheInput
  DEF UniswapV3Swap, UniswapV3SwapExactOut, SlipstreamSwap, SlipstreamSwapExactOut,
      SwapRouter02Swap, SwapRouter02SwapExactOut
<1>3. /\ TakesTheInput(UniswapV4Swap(call), call)
      /\ TakesTheInput(UniswapV4SwapExactOut(call), call)
  BY TransactionTakesTheInput DEF UniswapV4Swap, UniswapV4SwapExactOut, Execute
<1>4. TakesTheInput(CurveSwap(call), call)
  BY TransactionTakesTheInput DEF CurveSwap
<1>5. TakesTheInput(PoolSwap(call), call)
  BY <1>1, <1>2, <1>3, <1>4 DEF PoolSwap
<1>6. TakesTheInput(PoolSwapExactOut(call), call)
  BY <1>1, <1>2, <1>3 DEF PoolSwapExactOut
<1> QED  BY <1>5, <1>6

LEMMA SpansTakeTheInput ==
  ASSUME NEW call
  PROVE  /\ TakesTheInput(SpanSwap(call), call)
         /\ TakesTheInput(SpanSwapExactOut(call), call)
<1>1. /\ TakesTheInput(UniswapSpan(call), call)
      /\ TakesTheInput(UniswapSpanExactOut(call), call)
  BY TransactionTakesTheInput DEF UniswapSpan, UniswapSpanExactOut, Execute
<1>2. /\ TakesTheInput(SlipstreamSpan(call), call)
      /\ TakesTheInput(SlipstreamSpanExactOut(call), call)
      /\ TakesTheInput(AerodromeSpan(call), call)
      /\ TakesTheInput(CurveSpan(call), call)
  BY TransactionTakesTheInput
  DEF SlipstreamSpan, SlipstreamSpanExactOut, AerodromeSpan, CurveSpan
<1>3. TakesTheInput(SpanSwap(call), call)
  BY <1>1, <1>2, PoolsTakeTheInput DEF SpanSwap
<1>4. TakesTheInput(SpanSwapExactOut(call), call)
  BY <1>1, <1>2 DEF SpanSwapExactOut
<1> QED  BY <1>3, <1>4

LEMMA EncodedTakesTheInput == TakesTheInput(Encoded, Call)
BY PoolsTakeTheInput, SpansTakeTheInput DEF Encoded

-----------------------------------------------------------------------------
(* The ledger. *)

LEMMA ReceiveAdds ==
  ASSUME NEW f \in Ledger, NEW who \in Holder, NEW asset \in Asset, NEW raw \in Nat
  PROVE  /\ Receive(f, who, asset, raw) \in Ledger
         /\ \A h \in Holder, x \in Asset : Receive(f, who, asset, raw)[h][x] >= f[h][x]
BY DEF Receive, Ledger

LEMMA LoseTakes ==
  ASSUME NEW f \in Ledger, NEW who \in Holder, NEW asset \in Asset, NEW raw \in Nat,
         raw <= f[who][asset]
  PROVE  /\ Lose(f, who, asset, raw) \in Ledger
         /\ Lose(f, who, asset, raw)[who][asset] = f[who][asset] - raw
         /\ \A h \in Holder, x \in Asset :
              h # who \/ x # asset => Lose(f, who, asset, raw)[h][x] = f[h][x]
BY DEF Lose, Ledger

(* What the approval still lets a running transaction pull.                *)
Pullable(left, who, asset) ==
  IF who = ask.call.sender /\ asset = tx.approval.asset THEN left ELSE 0

Covered(f, left) ==
  /\ f \in Ledger
  /\ \A who \in Account, asset \in Asset :
       f[who][asset] >= Savings + Pullable(left, who, asset)

(* The invariant: savings are whole, with room for what can be pulled yet. *)
Custody ==
  /\ ask \in Calls
  /\ delta \in [Asset -> Int]
  /\ allowance \in Nat
  /\ Covered(funds, IF status = "Running" THEN allowance ELSE 0)

LEMMA Holders ==
  /\ Account \subseteq Holder /\ Router \in Holder /\ Router \notin Account
  /\ AddressThis \in Holder /\ WETH \in Asset /\ NATIVE \in Asset /\ Savings \in Nat
  /\ MaxPayout \in Nat
BY SettlementAssumption, BuildersAssumption DEF Holder

LEMMA Senders ==
  ASSUME ask \in Calls
  PROVE  /\ ask.call.sender \in Account /\ ask.call.amountIn \in Nat
         /\ ask.call.nativeIn \in BOOLEAN /\ SpanIn(ask.call) \in Asset
         /\ InputAsset \in Asset
         /\ Call.nativeIn = ask.call.nativeIn /\ Call.amountIn = ask.call.amountIn
         /\ SpanIn(Call) = SpanIn(ask.call)
<1>1. ask.call \in EncoderCall /\ ask.call.span.start + 1 \in DOMAIN ask.call.path
  BY SettlementAssumption
<1>2. /\ ask.call.sender \in Account /\ ask.call.amountIn \in Nat
      /\ ask.call.nativeIn \in BOOLEAN /\ ask.call.path \in Seq(Asset)
  BY <1>1 DEF EncoderCall
<1>3. SpanIn(ask.call) \in Asset
  BY <1>1, <1>2 DEF SpanIn
<1>4. InputAsset \in Asset
  BY <1>3, Holders DEF InputAsset
<1>5. /\ Call.nativeIn = ask.call.nativeIn /\ Call.amountIn = ask.call.amountIn
      /\ Call.path = ask.call.path /\ Call.span = ask.call.span
  BY <1>1 DEF Call, EncoderCall
<1>6. SpanIn(Call) = SpanIn(ask.call)
  BY <1>5 DEF SpanIn
<1> QED  BY <1>2, <1>3, <1>4, <1>5, <1>6

LEMMA FundedCovers ==
  ASSUME ask \in Calls
  PROVE  /\ Funded \in Ledger
         /\ \A who \in Account, asset \in Asset :
              Funded[who][asset] = Savings + (IF who = ask.call.sender /\ asset = InputAsset
                                              THEN ask.call.amountIn ELSE 0)
BY Holders, Senders DEF Funded, Ledger

LEMMA BothPass ==
  ASSUME NEW u, NEW v, FirstError(<<u, v>>) = "Ok"
  PROVE  u = "Ok" /\ v = "Ok"
<1> DEFINE verdicts == <<u, v>>
           failed == {i \in 1..Len(verdicts) : verdicts[i] # "Ok"}
           first == CHOOSE i \in failed : \A j \in failed : i <= j
<1>1. Len(verdicts) = 2 /\ verdicts[1] = u /\ verdicts[2] = v
  OBVIOUS
<1>2. failed \subseteq {1, 2}
  BY <1>1
<1>3. failed = {}
  <2> SUFFICES ASSUME failed # {} PROVE FALSE
    OBVIOUS
  <2>1. \E i \in failed : \A j \in failed : i <= j
    <3>1. CASE 1 \in failed
      BY <1>2, <3>1
    <3>2. CASE 1 \notin failed
      <4>1. failed = {2}
        BY <1>2, <3>2
      <4> QED  BY <4>1
    <3> QED  BY <3>1, <3>2
  <2>2. first \in failed
    BY <2>1
  <2>3. verdicts[first] # "Ok"
    BY <2>2
  <2>4. FirstError(verdicts) = verdicts[first]
    BY DEF FirstError
  <2> QED  BY <2>3, <2>4
<1> QED  BY <1>1, <1>3

(* Paying takes from the sender what the approval covers, or nothing.      *)
LEMMA PaidIsCovered ==
  ASSUME Custody, status = "Running",
         NEW payer, NEW asset \in Asset, NEW raw \in Nat,
         PayError(payer, asset, raw) = "Ok", SpendAllowance(payer, asset, raw)
  PROVE  Covered(Paid(payer, asset, raw), allowance') /\ allowance' \in Nat
<1> DEFINE sender == ask.call.sender
<1>1. /\ funds \in Ledger /\ allowance \in Nat /\ sender \in Account
      /\ \A who \in Account, x \in Asset :
           funds[who][x] >= Savings + Pullable(allowance, who, x)
  BY Senders DEF Custody, Covered
<1>2. CASE FromRouter(payer, asset)
  <2>1. raw <= funds[Router][asset]
    <3>1. Held(asset) \in Nat
      BY <1>1, Holders DEF Held, Ledger
    <3> QED  BY <1>2, <3>1 DEF PayError, Reject, Held
  <2>2. Paid(payer, asset, raw) = Lose(funds, Router, asset, raw) /\ allowance' = allowance
    BY <1>2 DEF Paid, SpendAllowance
  <2> QED  BY <1>1, <2>1, <2>2, LoseTakes, Holders DEF Covered, Pullable
<1>3. CASE ~FromRouter(payer, asset) /\ FromValue(payer, asset, raw)
  <2>1. raw <= funds[Router][NATIVE]
    BY <1>1, <1>3, Holders DEF FromValue, Held, Ledger
  <2>2. Paid(payer, asset, raw) = Lose(funds, Router, NATIVE, raw) /\ allowance' = allowance
    BY <1>3 DEF Paid, SpendAllowance
  <2> QED  BY <1>1, <2>1, <2>2, LoseTakes, Holders DEF Covered, Pullable
<1>4. CASE ~FromRouter(payer, asset) /\ ~FromValue(payer, asset, raw)
  <2>1. /\ Reject(tx.approval.asset # asset \/ allowance < raw, "NoAllowance") = "Ok"
        /\ Reject(funds[sender][asset] < raw, "NoFunds") = "Ok"
    BY <1>4, BothPass DEF PayError
  <2>2. tx.approval.asset = asset /\ raw <= allowance /\ raw <= funds[sender][asset]
    <3>1. funds[sender][asset] \in Nat
      BY <1>1, Holders DEF Ledger
    <3> QED  BY <1>1, <2>1, <3>1 DEF Reject
  <2>3. /\ Paid(payer, asset, raw) = Lose(funds, sender, asset, raw)
        /\ allowance' = allowance - raw
    BY <1>4 DEF Paid, SpendAllowance
  <2>4. sender \in Holder
    BY <1>1, Holders
  <2>5. allowance' \in Nat
    BY <1>1, <2>2, <2>3
  <2>6. /\ Lose(funds, sender, asset, raw) \in Ledger
        /\ Lose(funds, sender, asset, raw)[sender][asset] = funds[sender][asset] - raw
        /\ \A h \in Holder, x \in Asset :
             h # sender \/ x # asset => Lose(funds, sender, asset, raw)[h][x] = funds[h][x]
    BY <1>1, <2>2, <2>4, LoseTakes
  <2>7. ASSUME NEW who \in Account, NEW x \in Asset
        PROVE  Paid(payer, asset, raw)[who][x] >= Savings + Pullable(allowance', who, x)
    <3>1. /\ who \in Holder /\ Savings \in Nat /\ funds[who][x] \in Nat
          /\ funds[who][x] >= Savings + Pullable(allowance, who, x)
      BY <1>1, Holders DEF Ledger
    <3>2. CASE who = sender /\ x = asset
      <4>1. Pullable(allowance, who, x) = allowance /\ Pullable(allowance', who, x) = allowance - raw
        BY <2>2, <2>3, <3>2 DEF Pullable
      <4>2. Paid(payer, asset, raw)[who][x] = funds[who][x] - raw
        BY <2>3, <2>6, <3>2
      <4> QED  BY <1>1, <3>1, <4>1, <4>2
    <3>3. CASE ~(who = sender /\ x = asset)
      <4>1. Pullable(allowance, who, x) = 0 /\ Pullable(allowance', who, x) = 0
        BY <2>2, <3>3 DEF Pullable
      <4>2. Paid(payer, asset, raw)[who][x] = funds[who][x]
        BY <2>3, <2>6, <3>1, <3>3
      <4> QED  BY <3>1, <4>1, <4>2
    <3> QED  BY <3>2, <3>3
  <2> QED  BY <2>3, <2>5, <2>6, <2>7 DEF Covered
<1> QED  BY <1>2, <1>3, <1>4

(* What is received on top takes nothing from anyone.                      *)
LEMMA ReceivingCovers ==
  ASSUME NEW f, NEW left \in Nat, Covered(f, left),
         NEW who \in Holder, NEW asset \in Asset, NEW raw \in Nat
  PROVE  Covered(Receive(f, who, asset, raw), left)
<1>1. /\ Receive(f, who, asset, raw) \in Ledger
      /\ \A h \in Holder, x \in Asset : Receive(f, who, asset, raw)[h][x] >= f[h][x]
  BY ReceiveAdds DEF Covered
<1>2. ASSUME NEW h \in Account, NEW x \in Asset
      PROVE  Receive(f, who, asset, raw)[h][x] >= Savings + Pullable(left, h, x)
  <2>1. f[h][x] >= Savings + Pullable(left, h, x) /\ Receive(f, who, asset, raw)[h][x] >= f[h][x]
    BY <1>1, Holders DEF Covered
  <2>2. /\ f[h][x] \in Nat /\ Receive(f, who, asset, raw)[h][x] \in Nat
        /\ Savings \in Nat /\ Pullable(left, h, x) \in Nat
    BY <1>1, Holders DEF Covered, Ledger, Pullable
  <2> QED  BY <2>1, <2>2
<1> QED  BY <1>1, <1>2 DEF Covered

(* The router's own funds are nobody's savings.                            *)
LEMMA RouterLosing ==
  ASSUME NEW f, NEW left \in Nat, Covered(f, left),
         NEW asset \in Asset, NEW raw \in Nat, raw <= f[Router][asset]
  PROVE  Covered(Lose(f, Router, asset, raw), left)
<1>1. /\ Lose(f, Router, asset, raw) \in Ledger
      /\ \A h \in Holder, x \in Asset :
           h # Router => Lose(f, Router, asset, raw)[h][x] = f[h][x]
  BY LoseTakes, Holders DEF Covered
<1> QED  BY <1>1, Holders DEF Covered

-----------------------------------------------------------------------------
(* The steps. *)

LEMMA Instructions ==
  ASSUME NEW i \in Decodable
  PROVE  /\ i.op = "Wrap" => i.amount \in Nat
         /\ i.op = "Unwrap" => i.least \in Nat /\ i.to \in Account
         /\ i.op = "Exchange" =>
              /\ i.sells \in Asset /\ i.buys \in Asset /\ i.to \in Holder
              /\ i.amount \in Nat \/ (i.amount = CONTRACT_BALANCE /\ ~i.exactOut)
         /\ i.op = "SwapV4" =>
              /\ i.sells \in Asset /\ i.buys \in Asset /\ i.amount \in Nat
         /\ i.op \in {"SettleAll", "SettleFromRouter"} => i.asset \in Asset
         /\ i.op = "Take" => i.asset \in Asset /\ i.to \in Holder
BY DEF Decodable, Exchanges

(* Whoever an instruction names has a ledger.                              *)
LEMMA NamedHolder ==
  ASSUME NEW to \in Holder PROVE Named(to) \in Holder
BY Holders DEF Named

LEMMA RevertKeeps ==
  ASSUME Custody, NEW reason, Revert(reason)
  PROVE  Custody'
<1>1. /\ ask' = ask /\ tx' = tx /\ status' = "Reverted"
      /\ funds' = Funded /\ delta' = NoDelta /\ allowance' = 0 /\ ask \in Calls
  BY DEF Custody, Revert
<1>2. funds' \in Ledger
  BY <1>1, FundedCovers
<1>3. ASSUME NEW who \in Account, NEW asset \in Asset
      PROVE  funds'[who][asset] >= Savings
  BY <1>1, FundedCovers, Senders, Holders
<1>4. delta' \in [Asset -> Int]
  BY <1>1 DEF NoDelta
<1> QED  BY <1>1, <1>2, <1>3, <1>4, Holders DEF Custody, Covered, Pullable

(* A step of the contract that leaves the accounts covered.                *)
LEMMA ProceedKeeps ==
  ASSUME Custody, status = "Running", NEW f, Proceed(f),
         Covered(f, allowance'), allowance' \in Nat, delta' \in [Asset -> Int]
  PROVE  Custody'
<1>1. ask' = ask /\ tx' = tx /\ status' = "Running" /\ funds' = f
  BY DEF Proceed
<1>2. ask' \in Calls
  BY <1>1 DEF Custody
<1> QED  BY <1>1, <1>2 DEF Custody, Covered, Pullable

LEMMA TradeKeeps ==
  ASSUME Custody, status = "Running",
         NEW payer, NEW sells \in Asset, NEW took \in Nat, NEW to \in Holder,
         NEW buys \in Asset, NEW gave \in Nat, Trade(payer, sells, took, to, buys, gave)
  PROVE  Custody'
<1>1. CASE PayError(payer, sells, took) # "Ok"
  BY <1>1, RevertKeeps DEF Trade
<1>2. CASE PayError(payer, sells, took) = "Ok"
  <2> DEFINE f == Receive(Paid(payer, sells, took), to, buys, gave)
  <2>1. Proceed(f) /\ SpendAllowance(payer, sells, took) /\ delta' = delta
    BY <1>2 DEF Trade
  <2>2. Covered(Paid(payer, sells, took), allowance') /\ allowance' \in Nat
    BY <1>2, <2>1, PaidIsCovered
  <2>3. Covered(f, allowance')
    BY <2>2, ReceivingCovers
  <2>4. delta' \in [Asset -> Int]
    BY <2>1 DEF Custody
  <2> HIDE DEF f
  <2> QED  BY <2>1, <2>2, <2>3, <2>4, ProceedKeeps
<1> QED  BY <1>1, <1>2

LEMMA SettleKeeps ==
  ASSUME Custody, status = "Running", NEW payer, NEW asset \in Asset,
         Settle(payer, asset)
  PROVE  Custody'
<1>1. delta \in [Asset -> Int] /\ delta[asset] \in Int
  BY DEF Custody
<1>2. CASE delta[asset] > 0 \/ PayError(payer, asset, -delta[asset]) # "Ok"
  BY <1>2, RevertKeeps DEF Settle
<1>3. CASE ~(delta[asset] > 0) /\ PayError(payer, asset, -delta[asset]) = "Ok"
  <2>1. /\ Proceed(Paid(payer, asset, -delta[asset]))
        /\ SpendAllowance(payer, asset, -delta[asset])
        /\ delta' = [delta EXCEPT ![asset] = 0]
    BY <1>3 DEF Settle
  <2>2. -delta[asset] \in Nat
    BY <1>1, <1>3
  <2>3. Covered(Paid(payer, asset, -delta[asset]), allowance') /\ allowance' \in Nat
    BY <1>3, <2>1, <2>2, PaidIsCovered
  <2>4. delta' \in [Asset -> Int]
    BY <1>1, <2>1
  <2> QED  BY <2>1, <2>3, <2>4, ProceedKeeps
<1> QED  BY <1>2, <1>3

LEMMA SendKeeps ==
  ASSUME Custody, Send
  PROVE  Custody'
<1> DEFINE sender == ask.call.sender
<1>1. /\ ask \in Calls /\ ask' = ask /\ status' = "Running" /\ tx' = Encoded
      /\ delta' = delta /\ allowance' = Encoded.approval.amount
      /\ Encoded.value <= Funded[sender][NATIVE]
      /\ funds' = [Funded EXCEPT ![sender][NATIVE] = @ - Encoded.value,
                                 ![Router][NATIVE] = @ + Encoded.value]
  BY DEF Custody, Send
<1>2. /\ sender \in Account /\ ask.call.amountIn \in Nat /\ ask.call.nativeIn \in BOOLEAN
      /\ sender \in Holder /\ sender # Router /\ Savings \in Nat
  BY <1>1, Senders, Holders
<1>3. /\ Encoded.value = IF ask.call.nativeIn THEN ask.call.amountIn ELSE 0
      /\ Encoded.approval.asset = IF ask.call.nativeIn THEN WETH ELSE SpanIn(ask.call)
      /\ Encoded.approval.amount = IF ask.call.nativeIn THEN 0 ELSE ask.call.amountIn
  BY <1>1, EncodedTakesTheInput, Senders DEF TakesTheInput
<1>4. Encoded.value \in Nat /\ allowance' \in Nat
  BY <1>1, <1>2, <1>3
<1>5. /\ Funded \in Ledger
      /\ \A who \in Account, asset \in Asset :
           Funded[who][asset] = Savings + (IF who = sender /\ asset = InputAsset
                                           THEN ask.call.amountIn ELSE 0)
  BY <1>1, FundedCovers
<1>6. funds' \in Ledger
  BY <1>1, <1>2, <1>4, <1>5, Holders DEF Ledger
<1>7. \A who \in Account, asset \in Asset :
        funds'[who][asset] = Funded[who][asset]
                               - (IF who = sender /\ asset = NATIVE THEN Encoded.value ELSE 0)
  BY <1>1, <1>2, <1>4, <1>5, Holders DEF Ledger
<1>8. ASSUME NEW who \in Account, NEW asset \in Asset
      PROVE  funds'[who][asset]
               >= Savings + (IF who = sender /\ asset = Encoded.approval.asset
                             THEN allowance' ELSE 0)
  <2>1. CASE ask.call.nativeIn
    <3>1. InputAsset = NATIVE /\ allowance' = 0 /\ Encoded.value = ask.call.amountIn
      BY <1>1, <1>3, <2>1 DEF InputAsset
    <3> QED  BY <1>2, <1>5, <1>7, <3>1
  <2>2. CASE ~ask.call.nativeIn
    <3>1. /\ InputAsset = Encoded.approval.asset /\ allowance' = ask.call.amountIn
          /\ Encoded.value = 0
      BY <1>1, <1>3, <2>2 DEF InputAsset
    <3> QED  BY <1>2, <1>5, <1>7, <3>1
  <2> QED  BY <2>1, <2>2
<1>9. delta' \in [Asset -> Int]
  BY <1>1 DEF Custody
<1>10. Covered(funds, IF status = "Running" THEN allowance ELSE 0)'
  BY <1>1, <1>6, <1>8 DEF Covered, Pullable
<1> QED  BY <1>1, <1>4, <1>9, <1>10 DEF Custody

(* What holds whenever an instruction is executed.                         *)
LEMMA Executing ==
  ASSUME Custody, NEW op, At(op)
  PROVE  /\ status = "Running" /\ Instruction \in Decodable /\ Instruction.op = op
         /\ Covered(funds, allowance) /\ allowance \in Nat /\ delta \in [Asset -> Int]
         /\ \A asset \in Asset : Held(asset) \in Nat
<1>1. status = "Running" /\ Instruction \in Decodable /\ Instruction.op = op
  BY DEF At, Running
<1>2. Covered(funds, allowance) /\ allowance \in Nat /\ delta \in [Asset -> Int]
  BY <1>1 DEF Custody
<1>3. \A asset \in Asset : Held(asset) \in Nat
  BY <1>2, Holders DEF Covered, Ledger, Held
<1> QED  BY <1>1, <1>2, <1>3

LEMMA ExchangeInKeeps ==
  ASSUME Custody, ExchangeExactIn
  PROVE  Custody'
<1> DEFINE i == Instruction
           whole == IF i.amount = CONTRACT_BALANCE THEN Held(i.sells) ELSE i.amount
<1>1. At("Exchange")
  BY DEF ExchangeExactIn
<1>2. /\ status = "Running" /\ i \in Decodable /\ i.op = "Exchange"
      /\ \A asset \in Asset : Held(asset) \in Nat
  BY <1>1, Executing
<1>3. /\ i.sells \in Asset /\ i.buys \in Asset /\ i.to \in Holder
      /\ i.amount \in Nat \/ i.amount = CONTRACT_BALANCE
  BY <1>2, Instructions
<1>4. whole \in Nat
  BY <1>2, <1>3
<1>5. PICK took \in (IF i.stops THEN 1..whole ELSE {whole}), gave \in Market :
        IF whole = 0 THEN Revert("ZeroSwap")
        ELSE IF gave < i.bound THEN Revert("TooLittle")
        ELSE Trade(i.payer, i.sells, took, Named(i.to), i.buys, gave)
  BY DEF ExchangeExactIn
<1>6. took \in Nat /\ gave \in Nat
  BY <1>4, <1>5, Holders DEF Market
<1>7. Named(i.to) \in Holder
  BY <1>3, NamedHolder
<1> HIDE DEF i, whole
<1> QED  BY <1>2, <1>3, <1>5, <1>6, <1>7, RevertKeeps, TradeKeeps

LEMMA ExchangeOutKeeps ==
  ASSUME Custody, ExchangeExactOut
  PROVE  Custody'
<1> DEFINE i == Instruction
<1>1. At("Exchange") /\ i.exactOut
  BY DEF ExchangeExactOut
<1>2. status = "Running" /\ i \in Decodable /\ i.op = "Exchange"
  BY <1>1, Executing
<1>3. /\ i.sells \in Asset /\ i.buys \in Asset /\ i.to \in Holder
      /\ i.amount \in Nat
  BY <1>1, <1>2, Instructions
<1>4. PICK took \in Market, gave \in (IF i.stops THEN 1..i.amount ELSE {i.amount}) :
        IF i.amount = 0 THEN Revert("ZeroSwap")
        ELSE IF took > i.bound THEN Revert("TooMuch")
        ELSE Trade(i.payer, i.sells, took, Named(i.to), i.buys, gave)
  BY DEF ExchangeExactOut
<1>5. took \in Nat
  BY <1>4, Holders DEF Market
<1>6. Named(i.to) \in Holder
  BY <1>3, NamedHolder
<1> HIDE DEF i
<1>7. gave \in Nat
  BY <1>3, <1>4
<1> QED  BY <1>2, <1>3, <1>4, <1>5, <1>6, <1>7, RevertKeeps, TradeKeeps

LEMMA WrapKeeps ==
  ASSUME Custody, WrapETH
  PROVE  Custody'
<1> DEFINE amount == Instruction.amount
           f == Receive(Lose(funds, Router, NATIVE, amount), Router, WETH, amount)
<1>1. At("Wrap")
  BY DEF WrapETH
<1>2. /\ status = "Running" /\ amount \in Nat /\ Held(NATIVE) \in Nat
      /\ Covered(funds, allowance) /\ allowance \in Nat /\ delta \in [Asset -> Int]
  BY <1>1, Executing, Instructions, Holders
<1>3. CASE Held(NATIVE) < amount
  BY <1>3, RevertKeeps DEF WrapETH
<1>4. CASE ~(Held(NATIVE) < amount)
  <2>1. Proceed(f) /\ delta' = delta /\ allowance' = allowance
    BY <1>4 DEF WrapETH
  <2>2. amount <= funds[Router][NATIVE]
    BY <1>2, <1>4 DEF Held
  <2>3. Covered(Lose(funds, Router, NATIVE, amount), allowance)
    BY <1>2, <2>2, RouterLosing, Holders
  <2>4. Covered(f, allowance)
    BY <1>2, <2>3, ReceivingCovers, Holders
  <2> HIDE DEF f
  <2> QED  BY <1>2, <2>1, <2>4, ProceedKeeps
<1> QED  BY <1>3, <1>4

LEMMA UnwrapKeeps ==
  ASSUME Custody, UnwrapWETH
  PROVE  Custody'
<1> DEFINE f == Receive(Lose(funds, Router, WETH, Held(WETH)),
                        Instruction.to, NATIVE, Held(WETH))
<1>1. At("Unwrap")
  BY DEF UnwrapWETH
<1>2. /\ status = "Running" /\ Instruction.to \in Holder /\ Held(WETH) \in Nat
      /\ Covered(funds, allowance) /\ allowance \in Nat /\ delta \in [Asset -> Int]
  BY <1>1, Executing, Instructions, Holders
<1>3. CASE Held(WETH) < Instruction.least
  BY <1>3, RevertKeeps DEF UnwrapWETH
<1>4. CASE ~(Held(WETH) < Instruction.least)
  <2>1. Proceed(f) /\ delta' = delta /\ allowance' = allowance
    BY <1>4 DEF UnwrapWETH
  <2>2. Held(WETH) <= funds[Router][WETH]
    BY <1>2 DEF Held
  <2>3. Covered(Lose(funds, Router, WETH, Held(WETH)), allowance)
    BY <1>2, <2>2, RouterLosing, Holders
  <2>4. Covered(f, allowance)
    BY <1>2, <2>3, ReceivingCovers, Holders
  <2> HIDE DEF f
  <2> QED  BY <1>2, <2>1, <2>4, ProceedKeeps
<1> QED  BY <1>3, <1>4

LEMMA RefundKeeps ==
  ASSUME Custody, RefundETH
  PROVE  Custody'
<1> DEFINE sender == ask.call.sender
           f == Move(funds, Router, sender, NATIVE, Held(NATIVE))
<1>1. At("Refund") /\ Proceed(f) /\ delta' = delta /\ allowance' = allowance
  BY DEF RefundETH
<1>2. /\ status = "Running" /\ Held(NATIVE) \in Nat
      /\ Covered(funds, allowance) /\ allowance \in Nat /\ delta \in [Asset -> Int]
  BY <1>1, Executing, Holders
<1>3. sender \in Holder /\ sender # Router
  BY Senders, Holders DEF Custody
<1>4. f = Receive(Lose(funds, Router, NATIVE, Held(NATIVE)), sender, NATIVE, Held(NATIVE))
  BY DEF Move
<1>5. Covered(Lose(funds, Router, NATIVE, Held(NATIVE)), allowance)
  <2>1. Held(NATIVE) <= funds[Router][NATIVE]
    BY <1>2 DEF Held
  <2> QED  BY <1>2, <2>1, RouterLosing, Holders
<1>6. Covered(f, allowance)
  BY <1>2, <1>3, <1>4, <1>5, ReceivingCovers, Holders
<1> HIDE DEF f
<1> QED  BY <1>1, <1>2, <1>6, ProceedKeeps

LEMMA SwapV4Keeps ==
  ASSUME Custody, SwapV4ExactIn \/ SwapV4ExactOut
  PROVE  Custody'
<1> DEFINE i == Instruction
           amount == IF i.amount = OPEN_DELTA THEN delta[i.sells] ELSE i.amount
<1>1. At("SwapV4")
  BY DEF SwapV4ExactIn, SwapV4ExactOut
<1>2. /\ status = "Running" /\ i.sells \in Asset /\ i.buys \in Asset /\ i.amount \in Nat
      /\ Covered(funds, allowance) /\ allowance \in Nat /\ delta \in [Asset -> Int]
  BY <1>1, Executing, Instructions
<1>3. amount \in Int /\ Market \subseteq Int
  BY <1>2, Holders DEF Market
<1>4. \/ \E reason : Revert(reason)
      \/ Proceed(funds) /\ allowance' = allowance /\ delta' \in [Asset -> Int]
  <2>1. CASE SwapV4ExactIn
    <3>1. PICK gave \in Market :
            IF amount < 0 THEN Revert("NoCredit")
            ELSE IF amount = 0 THEN Revert("ZeroSwap")
            ELSE IF gave < i.bound THEN Revert("TooLittle")
            ELSE /\ delta' = [delta EXCEPT ![i.sells] = @ - amount, ![i.buys] = @ + gave]
                 /\ Proceed(funds) /\ UNCHANGED allowance
      BY <2>1 DEF SwapV4ExactIn
    <3> HIDE DEF i, amount
    <3> QED  BY <1>2, <1>3, <3>1
  <2>2. CASE SwapV4ExactOut
    <3>1. PICK took \in Market :
            IF i.amount = 0 THEN Revert("ZeroSwap")
            ELSE IF took > i.bound THEN Revert("TooMuch")
            ELSE /\ delta' = [delta EXCEPT ![i.sells] = @ - took, ![i.buys] = @ + i.amount]
                 /\ Proceed(funds) /\ UNCHANGED allowance
      BY <2>2 DEF SwapV4ExactOut
    <3> HIDE DEF i
    <3> QED  BY <1>2, <1>3, <3>1
  <2> QED  BY <2>1, <2>2
<1> QED  BY <1>2, <1>4, RevertKeeps, ProceedKeeps

LEMMA SettleDebtKeeps ==
  ASSUME Custody, SettleDebt
  PROVE  Custody'
<1>1. CASE At("SettleAll") /\ (IF -delta[Instruction.asset] > Instruction.most
                               THEN Revert("DebtTooLarge")
                               ELSE Settle("User", Instruction.asset))
  <2>1. status = "Running" /\ Instruction.asset \in Asset
    BY <1>1, Executing, Instructions
  <2> QED  BY <1>1, <2>1, RevertKeeps, SettleKeeps
<1>2. CASE At("SettleFromRouter") /\ Settle("Router", Instruction.asset)
  <2>1. status = "Running" /\ Instruction.asset \in Asset
    BY <1>2, Executing, Instructions
  <2> QED  BY <1>2, <2>1, SettleKeeps
<1> QED  BY <1>1, <1>2 DEF SettleDebt

LEMMA TakeKeeps ==
  ASSUME Custody, TakeCredit
  PROVE  Custody'
<1> DEFINE asset == Instruction.asset
           f == Receive(funds, Named(Instruction.to), asset, delta[asset])
<1>1. At("Take")
  BY DEF TakeCredit
<1>2. /\ status = "Running" /\ asset \in Asset /\ Named(Instruction.to) \in Holder
      /\ Covered(funds, allowance) /\ allowance \in Nat /\ delta \in [Asset -> Int]
  BY <1>1, Executing, Instructions, NamedHolder
<1>3. CASE delta[asset] < 0
  BY <1>3, RevertKeeps DEF TakeCredit
<1>4. CASE ~(delta[asset] < 0)
  <2>1. Proceed(f) /\ delta' = [delta EXCEPT ![asset] = 0] /\ allowance' = allowance
    BY <1>4 DEF TakeCredit
  <2>2. delta[asset] \in Nat
    BY <1>2, <1>4
  <2>3. Covered(f, allowance)
    BY <1>2, <2>2, ReceivingCovers
  <2>4. delta' \in [Asset -> Int]
    BY <1>2, <2>1
  <2> HIDE DEF f
  <2> QED  BY <1>2, <2>1, <2>3, <2>4, ProceedKeeps
<1> QED  BY <1>3, <1>4

LEMMA CloseKeeps ==
  ASSUME Custody, CloseManager
  PROVE  Custody'
<1>1. At("Close")
  BY DEF CloseManager
<1>2. /\ status = "Running" /\ Covered(funds, allowance) /\ allowance \in Nat
      /\ delta \in [Asset -> Int]
  BY <1>1, Executing
<1>3. \/ \E reason : Revert(reason)
      \/ Proceed(funds) /\ delta' = delta /\ allowance' = allowance
  BY DEF CloseManager
<1> QED  BY <1>2, <1>3, RevertKeeps, ProceedKeeps

(* Outside of the contract no funds move.                                  *)
LEMMA OutsideKeeps ==
  ASSUME Custody, HandOver \/ Tick \/ Refuse \/ UNCHANGED vars
  PROVE  Custody'
<1>1. /\ ask' = ask /\ tx' = tx /\ funds' = funds /\ delta' = delta
      /\ allowance' = allowance /\ (status' = "Running" <=> status = "Running")
  BY DEF HandOver, Tick, Refuse, vars
<1> QED  BY <1>1 DEF Custody, Covered, Pullable

LEMMA FinishKeeps ==
  ASSUME Custody, Finish
  PROVE  Custody'
<1>1. CASE Running
  BY <1>1, RevertKeeps DEF Finish
<1>2. CASE ~Running
  <2>1. /\ ask' = ask /\ funds' = funds /\ delta' = delta /\ tx' = tx
        /\ allowance' = allowance /\ status' = "Settled" /\ status = "Running"
    BY <1>2 DEF Finish
  <2>2. ask' \in Calls /\ delta' \in [Asset -> Int] /\ allowance' \in Nat /\ funds' \in Ledger
    BY <2>1 DEF Custody, Covered
  <2>3. ASSUME NEW who \in Account, NEW asset \in Asset
        PROVE  funds'[who][asset] >= Savings
    <3>1. funds[who][asset] \in Nat /\ Savings \in Nat /\ Pullable(allowance, who, asset) \in Nat
      BY Holders DEF Custody, Covered, Ledger, Pullable
    <3>2. funds[who][asset] >= Savings + Pullable(allowance, who, asset)
      BY <2>1 DEF Custody, Covered
    <3> QED  BY <2>1, <3>1, <3>2
  <2> QED  BY <2>1, <2>2, <2>3, Holders DEF Custody, Covered, Pullable
<1> QED  BY <1>1, <1>2

-----------------------------------------------------------------------------
(* SavingsUntouched, whatever the encoders were asked for and whatever the *)
(* instructions and the market do: the approval and the value together are *)
(* the input, and the rest of what an account holds is never reached.      *)
THEOREM SavingsUntouchedAlways == Spec => []SavingsUntouched
<1>1. Init => Custody
  <2> SUFFICES ASSUME Init PROVE Custody
    OBVIOUS
  <2>1. /\ ask \in Calls /\ status # "Running" /\ funds = Funded /\ delta = NoDelta
        /\ allowance = 0
    BY DEF Init
  <2>2. ASSUME NEW who \in Account, NEW asset \in Asset
        PROVE  funds[who][asset] >= Savings
    BY <2>1, FundedCovers, Senders, Holders
  <2>3. funds \in Ledger /\ delta \in [Asset -> Int]
    BY <2>1, FundedCovers DEF NoDelta
  <2> QED  BY <2>1, <2>2, <2>3, Holders DEF Custody, Covered, Pullable
<1>2. Custody /\ [Next]_vars => Custody'
  <2> SUFFICES ASSUME Custody, [Next]_vars PROVE Custody'
    OBVIOUS
  <2>1. CASE HandOver \/ Tick \/ Refuse \/ UNCHANGED vars
    BY <2>1, OutsideKeeps
  <2>2. CASE Send
    BY <2>2, SendKeeps
  <2>3. CASE Expire
    BY <2>3, RevertKeeps DEF Expire
  <2>4. CASE Finish
    BY <2>4, FinishKeeps
  <2>5. CASE ExchangeExactIn \/ ExchangeExactOut
    BY <2>5, ExchangeInKeeps, ExchangeOutKeeps
  <2>6. CASE WrapETH \/ UnwrapWETH \/ RefundETH
    BY <2>6, WrapKeeps, UnwrapKeeps, RefundKeeps
  <2>7. CASE SwapV4ExactIn \/ SwapV4ExactOut \/ SettleDebt \/ TakeCredit \/ CloseManager
    BY <2>7, SwapV4Keeps, SettleDebtKeeps, TakeKeeps, CloseKeeps
  <2> QED  BY <2>1, <2>2, <2>3, <2>4, <2>5, <2>6, <2>7 DEF Next
<1>3. Custody => SavingsUntouched
  <2> SUFFICES ASSUME Custody, NEW who \in Account, NEW asset \in Asset
               PROVE  funds[who][asset] >= Savings
    BY DEF SavingsUntouched
  <2> DEFINE left == Pullable(IF status = "Running" THEN allowance ELSE 0, who, asset)
  <2>1. funds[who][asset] \in Nat /\ Savings \in Nat /\ left \in Nat
    BY Holders DEF Custody, Covered, Ledger, Pullable
  <2>2. funds[who][asset] >= Savings + left
    BY DEF Custody, Covered
  <2> QED  BY <2>1, <2>2
<1> QED  BY <1>1, <1>2, <1>3, PTL DEF Spec

(* Where the money of a transaction is while it runs. *)
Sender == ask.call.sender
Value == IF Call.nativeIn THEN Call.amountIn ELSE 0

(* The accounts: what the sender paid, what the payee got, and what of the *)
(* input came back to the payee.                                           *)
Accounts(f, paid, got, back) ==
  \A who \in Account, asset \in Asset :
    f[who][asset] = Funded[who][asset]
      + (IF who = Call.payee /\ asset = OutputAsset THEN got ELSE 0)
      + (IF who = Call.payee /\ asset = InputAsset THEN back ELSE 0)
      - (IF who = Sender /\ asset = InputAsset THEN paid ELSE 0)

(* The router holds ETH and an amount of one other asset.                  *)
Holds(f, value, asset, raw) ==
  \A any \in Asset :
    f[Router][any] = (IF any = NATIVE THEN value ELSE 0) + (IF any = asset THEN raw ELSE 0)

(* What went to address(2), in WETH.                                       *)
Strayed(f, raw) ==
  \A any \in Asset : f[AddressThis][any] = IF any = WETH THEN raw ELSE 0

Books(f, paid, got, back, value, asset, raw, stray) ==
  /\ f \in Ledger
  /\ Accounts(f, paid, got, back) /\ Holds(f, value, asset, raw) /\ Strayed(f, stray)

LEMMA Distinct ==
  /\ Router \in Holder /\ AddressThis \in Holder /\ Router # AddressThis
  /\ Router \notin Account /\ AddressThis \notin Account /\ Account \subseteq Holder
  /\ WETH \in Asset /\ NATIVE \in Asset /\ WETH # NATIVE
  /\ MaxPayout \in Nat /\ Savings \in Nat
BY Holders, SettlementAssumption, CallsAssumption DEF Router, AddressThis

LEMMA EdgeTypes ==
  ASSUME ask \in Calls
  PROVE  /\ InputAsset \in Asset /\ OutputAsset \in Asset /\ Sender \in Account
         /\ Call.amountIn \in 1..MaxPayout /\ Call.minOut \in Nat
         /\ ask.exactOut => Call.minOut \in 1..MaxPayout
         /\ Call.nativeIn \in BOOLEAN /\ Call.nativeOut \in BOOLEAN /\ ask.exactOut \in BOOLEAN
         /\ SpanIn(Call) \in Asset /\ SpanOut(Call) \in Asset
         /\ InputAsset = (IF Call.nativeIn THEN NATIVE ELSE SpanIn(Call))
         /\ OutputAsset = (IF Call.nativeOut THEN NATIVE ELSE SpanOut(Call))
         /\ SpanIn(Call) = NATIVE => Call.nativeIn
         /\ Value \in Nat
         /\ Call.pools = ask.call.pools /\ Call.path = ask.call.path
         /\ Call.span = ask.call.span /\ Call.payee = opts.recipient
         /\ Call.sender = opts.sender /\ Call.priceLimit = ask.call.priceLimit
         /\ Call.amountIn = ask.call.amountIn /\ Call.minOut = ask.call.minOut
<1>1. /\ ask.call \in EncoderCall /\ ask.exactOut \in BOOLEAN
      /\ AsksAnAmount(ask) /\ AsksForASpan(ask.call) /\ NativeIsETH(ask.call)
  BY SettlementAssumption, CallsAssumption
<1>2. /\ Call.pools = ask.call.pools /\ Call.path = ask.call.path
      /\ Call.span = ask.call.span /\ Call.payee = opts.recipient
      /\ Call.sender = opts.sender /\ Call.priceLimit = ask.call.priceLimit
      /\ Call.amountIn = ask.call.amountIn /\ Call.minOut = ask.call.minOut
      /\ Call.nativeIn = ask.call.nativeIn /\ Call.nativeOut = ask.call.nativeOut
  BY <1>1 DEF Call, EncoderCall
<1>3. /\ ask.call.path \in Seq(Asset) /\ ask.call.sender \in Account
      /\ ask.call.nativeIn \in BOOLEAN /\ ask.call.nativeOut \in BOOLEAN
      /\ ask.call.minOut \in Nat /\ ask.call.amountIn \in Nat
  BY <1>1 DEF EncoderCall
<1>4. /\ ask.call.span.start + 1 \in DOMAIN ask.call.path
      /\ ask.call.span.end + 1 \in DOMAIN ask.call.path
  BY <1>1, SettlementAssumption DEF AsksForASpan
<1>5. SpanIn(ask.call) \in Asset /\ SpanOut(ask.call) \in Asset
  BY <1>3, <1>4 DEF SpanIn, SpanOut
<1>6. SpanIn(Call) = SpanIn(ask.call) /\ SpanOut(Call) = SpanOut(ask.call)
  BY <1>2 DEF SpanIn, SpanOut
<1> QED
  BY <1>1, <1>2, <1>3, <1>5, <1>6, Distinct
     DEF InputAsset, OutputAsset, Sender, Value, AsksAnAmount, NativeIsETH

-----------------------------------------------------------------------------
(* How the books change. *)

LEMMA OpenBooks ==
  ASSUME ask \in Calls
  PROVE  Books(Funded, 0, 0, 0, 0, WETH, 0, 0)
<1>1. Funded \in Ledger
  BY FundedCovers
<1>2. Accounts(Funded, 0, 0, 0)
  BY <1>1, Distinct DEF Accounts, Ledger
<1>3. \A asset \in Asset : Funded[Router][asset] = 0 /\ Funded[AddressThis][asset] = 0
  BY Distinct DEF Funded
<1> QED  BY <1>1, <1>2, <1>3 DEF Books, Holds, Strayed

LEMMA SenderPays ==
  ASSUME ask \in Calls, NEW f, NEW paid \in Nat, NEW got \in Nat, NEW back \in Nat,
         NEW value \in Nat, NEW asset \in Asset, NEW raw \in Nat, NEW stray \in Nat,
         Books(f, paid, got, back, value, asset, raw, stray),
         NEW took \in Nat, took <= f[Sender][InputAsset]
  PROVE  Books(Lose(f, Sender, InputAsset, took), paid + took, got, back, value, asset, raw, stray)
<1>1. f \in Ledger /\ Sender \in Holder /\ InputAsset \in Asset /\ Sender \in Account
  BY Distinct, EdgeTypes DEF Books
<1>2. /\ Lose(f, Sender, InputAsset, took) \in Ledger
      /\ Lose(f, Sender, InputAsset, took)[Sender][InputAsset] = f[Sender][InputAsset] - took
      /\ \A h \in Holder, x \in Asset :
           h # Sender \/ x # InputAsset => Lose(f, Sender, InputAsset, took)[h][x] = f[h][x]
  BY <1>1, LoseTakes
<1> DEFINE g == Lose(f, Sender, InputAsset, took)
<1> HIDE DEF g
<1>3. Holds(g, value, asset, raw) /\ Strayed(g, stray)
  BY <1>1, <1>2, Distinct DEF Books, Holds, Strayed, g
<1>4. ASSUME NEW who \in Account, NEW x \in Asset
      PROVE  g[who][x] = Funded[who][x]
               + (IF who = Call.payee /\ x = OutputAsset THEN got ELSE 0)
               + (IF who = Call.payee /\ x = InputAsset THEN back ELSE 0)
               - (IF who = Sender /\ x = InputAsset THEN paid + took ELSE 0)
  <2>1. /\ f[who][x] \in Nat /\ Funded[who][x] \in Nat /\ who \in Holder
    BY <1>1, Distinct, FundedCovers DEF Ledger
  <2>2. f[who][x] = Funded[who][x]
               + (IF who = Call.payee /\ x = OutputAsset THEN got ELSE 0)
               + (IF who = Call.payee /\ x = InputAsset THEN back ELSE 0)
               - (IF who = Sender /\ x = InputAsset THEN paid ELSE 0)
    BY DEF Books, Accounts
  <2>3. g[who][x] = f[who][x] - (IF who = Sender /\ x = InputAsset THEN took ELSE 0)
    BY <1>2, <2>1 DEF g
  <2> QED  BY <2>1, <2>2, <2>3
<1> QED  BY <1>2, <1>3, <1>4 DEF Books, Accounts, g

LEMMA PayeeGets ==
  ASSUME ask \in Calls, NEW f, NEW paid \in Nat, NEW got \in Nat, NEW back \in Nat,
         NEW value \in Nat, NEW asset \in Asset, NEW raw \in Nat, NEW stray \in Nat,
         Books(f, paid, got, back, value, asset, raw, stray),
         Call.payee \in Account, NEW gave \in Nat
  PROVE  Books(Receive(f, Call.payee, OutputAsset, gave), paid, got + gave, back,
               value, asset, raw, stray)
<1>1. f \in Ledger /\ Call.payee \in Holder /\ OutputAsset \in Asset
  BY Distinct, EdgeTypes DEF Books
<1> DEFINE g == Receive(f, Call.payee, OutputAsset, gave)
<1>2. g \in Ledger
  BY <1>1, ReceiveAdds
<1>3. \A h \in Holder, x \in Asset :
        g[h][x] = f[h][x] + (IF h = Call.payee /\ x = OutputAsset THEN gave ELSE 0)
  BY <1>1 DEF Receive, Ledger
<1> HIDE DEF g
<1>4. Holds(g, value, asset, raw) /\ Strayed(g, stray)
  <2>1. \A x \in Asset : g[Router][x] = f[Router][x] /\ g[AddressThis][x] = f[AddressThis][x]
    BY <1>1, <1>3, Distinct DEF Ledger
  <2> QED  BY <2>1 DEF Books, Holds, Strayed
<1>5. ASSUME NEW who \in Account, NEW x \in Asset
      PROVE  g[who][x] = Funded[who][x]
               + (IF who = Call.payee /\ x = OutputAsset THEN got + gave ELSE 0)
               + (IF who = Call.payee /\ x = InputAsset THEN back ELSE 0)
               - (IF who = Sender /\ x = InputAsset THEN paid ELSE 0)
  <2>1. /\ f[who][x] \in Nat /\ Funded[who][x] \in Nat /\ who \in Holder
    BY <1>1, Distinct, FundedCovers DEF Ledger
  <2>2. f[who][x] = Funded[who][x]
               + (IF who = Call.payee /\ x = OutputAsset THEN got ELSE 0)
               + (IF who = Call.payee /\ x = InputAsset THEN back ELSE 0)
               - (IF who = Sender /\ x = InputAsset THEN paid ELSE 0)
    BY DEF Books, Accounts
  <2>3. g[who][x] = f[who][x] + (IF who = Call.payee /\ x = OutputAsset THEN gave ELSE 0)
    BY <1>3, <2>1
  <2> QED  BY <2>1, <2>2, <2>3
<1> QED  BY <1>2, <1>4, <1>5 DEF Books, Accounts, g

LEMMA PayeeGetsBack ==
  ASSUME ask \in Calls, NEW f, NEW paid \in Nat, NEW got \in Nat, NEW back \in Nat,
         NEW value \in Nat, NEW asset \in Asset, NEW raw \in Nat, NEW stray \in Nat,
         Books(f, paid, got, back, value, asset, raw, stray),
         Call.payee \in Account, NEW more \in Nat
  PROVE  Books(Receive(f, Call.payee, InputAsset, more), paid, got, back + more,
               value, asset, raw, stray)
<1>1. f \in Ledger /\ Call.payee \in Holder /\ InputAsset \in Asset
  BY Distinct, EdgeTypes DEF Books
<1> DEFINE g == Receive(f, Call.payee, InputAsset, more)
<1>2. g \in Ledger
  BY <1>1, ReceiveAdds
<1>3. \A h \in Holder, x \in Asset :
        g[h][x] = f[h][x] + (IF h = Call.payee /\ x = InputAsset THEN more ELSE 0)
  BY <1>1 DEF Receive, Ledger
<1> HIDE DEF g
<1>4. Holds(g, value, asset, raw) /\ Strayed(g, stray)
  <2>1. \A x \in Asset : g[Router][x] = f[Router][x] /\ g[AddressThis][x] = f[AddressThis][x]
    BY <1>1, <1>3, Distinct DEF Ledger
  <2> QED  BY <2>1 DEF Books, Holds, Strayed
<1>5. ASSUME NEW who \in Account, NEW x \in Asset
      PROVE  g[who][x] = Funded[who][x]
               + (IF who = Call.payee /\ x = OutputAsset THEN got ELSE 0)
               + (IF who = Call.payee /\ x = InputAsset THEN back + more ELSE 0)
               - (IF who = Sender /\ x = InputAsset THEN paid ELSE 0)
  <2>1. /\ f[who][x] \in Nat /\ Funded[who][x] \in Nat /\ who \in Holder
    BY <1>1, Distinct, FundedCovers DEF Ledger
  <2>2. f[who][x] = Funded[who][x]
               + (IF who = Call.payee /\ x = OutputAsset THEN got ELSE 0)
               + (IF who = Call.payee /\ x = InputAsset THEN back ELSE 0)
               - (IF who = Sender /\ x = InputAsset THEN paid ELSE 0)
    BY DEF Books, Accounts
  <2>3. g[who][x] = f[who][x] + (IF who = Call.payee /\ x = InputAsset THEN more ELSE 0)
    BY <1>3, <2>1
  <2> QED  BY <2>1, <2>2, <2>3
<1> QED  BY <1>2, <1>4, <1>5 DEF Books, Accounts, g

(* What the router and address(2) hold is nothing to the accounts.         *)
LEMMA OutsideGains ==
  ASSUME NEW f \in Ledger, NEW paid, NEW got, NEW back, Accounts(f, paid, got, back),
         NEW who \in Holder, who \notin Account, NEW one \in Asset, NEW moved \in Nat
  PROVE  /\ Receive(f, who, one, moved) \in Ledger
         /\ Accounts(Receive(f, who, one, moved), paid, got, back)
         /\ \A h \in Holder, x \in Asset :
              Receive(f, who, one, moved)[h][x]
                = f[h][x] + (IF h = who /\ x = one THEN moved ELSE 0)
<1> DEFINE g == Receive(f, who, one, moved)
<1>1. g \in Ledger
  BY ReceiveAdds
<1>2. \A h \in Holder, x \in Asset :
        g[h][x] = f[h][x] + (IF h = who /\ x = one THEN moved ELSE 0)
  BY DEF Receive, Ledger
<1>3. \A h \in Account, x \in Asset : g[h][x] = f[h][x]
  BY <1>2, Distinct DEF Ledger
<1> HIDE DEF g
<1>4. Accounts(g, paid, got, back)
  BY <1>3 DEF Accounts
<1> QED  BY <1>1, <1>2, <1>4 DEF g

LEMMA OutsideLoses ==
  ASSUME NEW f \in Ledger, NEW paid, NEW got, NEW back, Accounts(f, paid, got, back),
         NEW who \in Holder, who \notin Account, NEW one \in Asset, NEW moved \in Nat,
         moved <= f[who][one]
  PROVE  /\ Lose(f, who, one, moved) \in Ledger
         /\ Accounts(Lose(f, who, one, moved), paid, got, back)
         /\ \A h \in Holder, x \in Asset :
              Lose(f, who, one, moved)[h][x]
                = f[h][x] - (IF h = who /\ x = one THEN moved ELSE 0)
<1> DEFINE g == Lose(f, who, one, moved)
<1>1. /\ g \in Ledger /\ g[who][one] = f[who][one] - moved
      /\ \A h \in Holder, x \in Asset : h # who \/ x # one => g[h][x] = f[h][x]
  BY LoseTakes
<1> HIDE DEF g
<1>2. \A h \in Holder, x \in Asset :
        g[h][x] = f[h][x] - (IF h = who /\ x = one THEN moved ELSE 0)
  BY <1>1 DEF Ledger
<1>3. \A h \in Account, x \in Asset : g[h][x] = f[h][x]
  BY <1>1, Distinct
<1>4. Accounts(g, paid, got, back)
  BY <1>3 DEF Accounts
<1> QED  BY <1>1, <1>2, <1>4 DEF g

LEMMA RouterLosesValue ==
  ASSUME NEW f, NEW paid \in Nat, NEW got \in Nat, NEW back \in Nat,
         NEW value \in Nat, NEW asset \in Asset, NEW raw \in Nat, NEW stray \in Nat,
         Books(f, paid, got, back, value, asset, raw, stray),
         asset # NATIVE, NEW moved \in Nat, moved <= value
  PROVE  /\ f[Router][NATIVE] = value
         /\ Books(Lose(f, Router, NATIVE, moved), paid, got, back,
                  value - moved, asset, raw, stray)
<1>1. /\ NATIVE \in Asset /\ Router \in Holder /\ AddressThis \in Holder /\ f \in Ledger
      /\ Router \notin Account /\ Router # AddressThis /\ Accounts(f, paid, got, back)
  BY Distinct DEF Books
<1>2. f[Router][NATIVE] = value
  BY <1>1 DEF Books, Holds
<1> DEFINE l == Lose(f, Router, NATIVE, moved)
<1>3. /\ l \in Ledger /\ Accounts(l, paid, got, back)
      /\ \A h \in Holder, x \in Asset :
           l[h][x] = f[h][x] - (IF h = Router /\ x = NATIVE THEN moved ELSE 0)
  BY <1>1, <1>2, OutsideLoses
<1> HIDE DEF l
<1>4. ASSUME NEW x \in Asset
      PROVE  l[Router][x] = (IF x = NATIVE THEN value - moved ELSE 0)
                              + (IF x = asset THEN raw ELSE 0)
  <2>1. f[Router][x] = (IF x = NATIVE THEN value ELSE 0) + (IF x = asset THEN raw ELSE 0)
    BY DEF Books, Holds
  <2>2. l[Router][x] = f[Router][x] - (IF x = NATIVE THEN moved ELSE 0)
    BY <1>1, <1>3
  <2> QED  BY <2>1, <2>2
<1>5. ASSUME NEW x \in Asset
      PROVE  l[AddressThis][x] = IF x = WETH THEN stray ELSE 0
  <2>1. f[AddressThis][x] \in Nat /\ f[AddressThis][x] = IF x = WETH THEN stray ELSE 0
    BY <1>1 DEF Books, Strayed, Ledger
  <2>2. l[AddressThis][x] = f[AddressThis][x] - 0
    BY <1>1, <1>3
  <2> QED  BY <2>1, <2>2
<1> QED  BY <1>2, <1>3, <1>4, <1>5 DEF Books, Holds, Strayed, l

LEMMA RouterLosesAsset ==
  ASSUME NEW f, NEW paid \in Nat, NEW got \in Nat, NEW back \in Nat,
         NEW value \in Nat, NEW asset \in Asset, NEW raw \in Nat, NEW stray \in Nat,
         Books(f, paid, got, back, value, asset, raw, stray),
         asset # NATIVE, NEW moved \in Nat, moved <= raw
  PROVE  /\ f[Router][asset] = raw
         /\ Books(Lose(f, Router, asset, moved), paid, got, back,
                  value, asset, raw - moved, stray)
<1>1. /\ Router \in Holder /\ AddressThis \in Holder /\ f \in Ledger
      /\ Router \notin Account /\ Router # AddressThis /\ Accounts(f, paid, got, back)
  BY Distinct DEF Books
<1>2. f[Router][asset] = raw
  BY <1>1 DEF Books, Holds
<1> DEFINE l == Lose(f, Router, asset, moved)
<1>3. /\ l \in Ledger /\ Accounts(l, paid, got, back)
      /\ \A h \in Holder, x \in Asset :
           l[h][x] = f[h][x] - (IF h = Router /\ x = asset THEN moved ELSE 0)
  BY <1>1, <1>2, OutsideLoses
<1> HIDE DEF l
<1>4. ASSUME NEW x \in Asset
      PROVE  l[Router][x] = (IF x = NATIVE THEN value ELSE 0)
                              + (IF x = asset THEN raw - moved ELSE 0)
  <2>1. f[Router][x] = (IF x = NATIVE THEN value ELSE 0) + (IF x = asset THEN raw ELSE 0)
    BY DEF Books, Holds
  <2>2. l[Router][x] = f[Router][x] - (IF x = asset THEN moved ELSE 0)
    BY <1>1, <1>3
  <2> QED  BY <2>1, <2>2
<1>5. ASSUME NEW x \in Asset
      PROVE  l[AddressThis][x] = IF x = WETH THEN stray ELSE 0
  <2>1. f[AddressThis][x] \in Nat /\ f[AddressThis][x] = IF x = WETH THEN stray ELSE 0
    BY <1>1 DEF Books, Strayed, Ledger
  <2>2. l[AddressThis][x] = f[AddressThis][x] - 0
    BY <1>1, <1>3
  <2> QED  BY <2>1, <2>2
<1> QED  BY <1>2, <1>3, <1>4, <1>5 DEF Books, Holds, Strayed, l

(* An empty router takes an amount of any asset.                           *)
LEMMA RouterGains ==
  ASSUME NEW f, NEW paid \in Nat, NEW got \in Nat, NEW back \in Nat,
         NEW value \in Nat, NEW asset \in Asset, NEW raw \in Nat, NEW stray \in Nat,
         Books(f, paid, got, back, value, asset, raw, stray),
         raw = 0, NEW one \in Asset, NEW moved \in Nat
  PROVE  Books(Receive(f, Router, one, moved), paid, got, back, value, one, moved, stray)
<1>1. /\ Router \in Holder /\ AddressThis \in Holder /\ f \in Ledger
      /\ Router \notin Account /\ Router # AddressThis /\ Accounts(f, paid, got, back)
  BY Distinct DEF Books
<1> DEFINE g == Receive(f, Router, one, moved)
<1>3. /\ g \in Ledger /\ Accounts(g, paid, got, back)
      /\ \A h \in Holder, x \in Asset :
           g[h][x] = f[h][x] + (IF h = Router /\ x = one THEN moved ELSE 0)
  BY <1>1, OutsideGains
<1> HIDE DEF g
<1>4. ASSUME NEW x \in Asset
      PROVE  g[Router][x] = (IF x = NATIVE THEN value ELSE 0) + (IF x = one THEN moved ELSE 0)
  <2>1. f[Router][x] = (IF x = NATIVE THEN value ELSE 0) + (IF x = asset THEN raw ELSE 0)
    BY DEF Books, Holds
  <2>2. g[Router][x] = f[Router][x] + (IF x = one THEN moved ELSE 0)
    BY <1>1, <1>3
  <2> QED  BY <2>1, <2>2
<1>5. ASSUME NEW x \in Asset
      PROVE  g[AddressThis][x] = IF x = WETH THEN stray ELSE 0
  <2>1. f[AddressThis][x] \in Nat /\ f[AddressThis][x] = IF x = WETH THEN stray ELSE 0
    BY <1>1 DEF Books, Strayed, Ledger
  <2>2. g[AddressThis][x] = f[AddressThis][x] + 0
    BY <1>1, <1>3
  <2> QED  BY <2>1, <2>2
<1> QED  BY <1>3, <1>4, <1>5 DEF Books, Holds, Strayed, g

(* What is sent to address(2) stays there.                                 *)
LEMMA SentinelGains ==
  ASSUME NEW f, NEW paid \in Nat, NEW got \in Nat, NEW back \in Nat,
         NEW value \in Nat, NEW asset \in Asset, NEW raw \in Nat, NEW stray \in Nat,
         Books(f, paid, got, back, value, asset, raw, stray),
         stray = 0, NEW moved \in Nat
  PROVE  Books(Receive(f, AddressThis, WETH, moved), paid, got, back, value, asset, raw, moved)
<1>1. /\ Router \in Holder /\ AddressThis \in Holder /\ f \in Ledger /\ WETH \in Asset
      /\ AddressThis \notin Account /\ Router # AddressThis /\ Accounts(f, paid, got, back)
  BY Distinct DEF Books
<1> DEFINE g == Receive(f, AddressThis, WETH, moved)
<1>3. /\ g \in Ledger /\ Accounts(g, paid, got, back)
      /\ \A h \in Holder, x \in Asset :
           g[h][x] = f[h][x] + (IF h = AddressThis /\ x = WETH THEN moved ELSE 0)
  BY <1>1, OutsideGains
<1> HIDE DEF g
<1>4. ASSUME NEW x \in Asset
      PROVE  g[AddressThis][x] = IF x = WETH THEN moved ELSE 0
  <2>1. f[AddressThis][x] = IF x = WETH THEN stray ELSE 0
    BY DEF Books, Strayed
  <2>2. g[AddressThis][x] = f[AddressThis][x] + (IF x = WETH THEN moved ELSE 0)
    BY <1>1, <1>3
  <2> QED  BY <2>1, <2>2
<1>5. \A x \in Asset : g[Router][x] = f[Router][x]
  <2>1. \A x \in Asset : f[Router][x] \in Nat /\ g[Router][x] = f[Router][x] + 0
    BY <1>1, <1>3 DEF Ledger
  <2> QED  BY <2>1
<1>6. Holds(g, value, asset, raw)
  BY <1>5 DEF Books, Holds
<1> QED  BY <1>3, <1>4, <1>6 DEF Books, Strayed, g

(* With nothing in it, it does not matter which asset is named.            *)
LEMMA EmptyRouter ==
  ASSUME NEW f, NEW paid \in Nat, NEW got \in Nat, NEW back \in Nat,
         NEW value \in Nat, NEW asset \in Asset, NEW raw \in Nat, NEW stray \in Nat,
         Books(f, paid, got, back, value, asset, raw, stray),
         raw = 0, NEW one \in Asset
  PROVE  Books(f, paid, got, back, value, one, 0, stray)
<1>1. ASSUME NEW x \in Asset
      PROVE  f[Router][x] = (IF x = NATIVE THEN value ELSE 0) + (IF x = one THEN 0 ELSE 0)
  BY DEF Books, Holds
<1> QED  BY <1>1 DEF Books, Holds

(* The sender gets back what was paid too much.                            *)
LEMMA SenderRefunded ==
  ASSUME ask \in Calls, NEW f, NEW paid \in Nat, NEW got \in Nat, NEW back \in Nat,
         NEW value \in Nat, NEW asset \in Asset, NEW raw \in Nat, NEW stray \in Nat,
         Books(f, paid, got, back, value, asset, raw, stray),
         NEW more \in Nat, more <= paid
  PROVE  Books(Receive(f, Sender, InputAsset, more), paid - more, got, back,
               value, asset, raw, stray)
<1>1. f \in Ledger /\ Sender \in Holder /\ Sender \in Account /\ InputAsset \in Asset
  BY Distinct, EdgeTypes DEF Books
<1> DEFINE g == Receive(f, Sender, InputAsset, more)
<1>2. g \in Ledger
  BY <1>1, ReceiveAdds
<1>3. \A h \in Holder, x \in Asset :
        g[h][x] = f[h][x] + (IF h = Sender /\ x = InputAsset THEN more ELSE 0)
  BY <1>1 DEF Receive, Ledger
<1> HIDE DEF g
<1>4. Holds(g, value, asset, raw) /\ Strayed(g, stray)
  <2>1. \A x \in Asset : g[Router][x] = f[Router][x] /\ g[AddressThis][x] = f[AddressThis][x]
    BY <1>1, <1>3, Distinct DEF Ledger
  <2> QED  BY <2>1 DEF Books, Holds, Strayed
<1>5. ASSUME NEW who \in Account, NEW x \in Asset
      PROVE  g[who][x] = Funded[who][x]
               + (IF who = Call.payee /\ x = OutputAsset THEN got ELSE 0)
               + (IF who = Call.payee /\ x = InputAsset THEN back ELSE 0)
               - (IF who = Sender /\ x = InputAsset THEN paid - more ELSE 0)
  <2>1. /\ f[who][x] \in Nat /\ Funded[who][x] \in Nat /\ who \in Holder
    BY <1>1, Distinct, FundedCovers DEF Ledger
  <2>2. f[who][x] = Funded[who][x]
               + (IF who = Call.payee /\ x = OutputAsset THEN got ELSE 0)
               + (IF who = Call.payee /\ x = InputAsset THEN back ELSE 0)
               - (IF who = Sender /\ x = InputAsset THEN paid ELSE 0)
    BY DEF Books, Accounts
  <2>3. g[who][x] = f[who][x] + (IF who = Sender /\ x = InputAsset THEN more ELSE 0)
    BY <1>3, <2>1
  <2> QED  BY <2>1, <2>2, <2>3
<1> QED  BY <1>2, <1>4, <1>5 DEF Books, Accounts, g

-----------------------------------------------------------------------------
(* The code of a transaction, by what its instructions are for. *)

(* The amount an exchange is asked for, and its bound.                     *)
Asked == IF ask.exactOut THEN Call.minOut ELSE Call.amountIn
BoundOf(floor) == IF ask.exactOut THEN Call.amountIn ELSE floor

(* The sender can pay with this: what was approved, or ETH that was sent.  *)
Payable(t, sells) ==
  IF Call.nativeIn THEN sells = NATIVE \/ (sells = WETH /\ t.to # "universal")
  ELSE sells = SpanIn(Call)

(* t.code starts with the exchange of a router.                            *)
Exchanges1(t, sells, buys, floor, to, stops) ==
  /\ Len(t.code) >= 1
  /\ t.code[1] = Exchange(ask.exactOut, sells, buys, Asked, BoundOf(floor), "User", to, stops)
  /\ sells \in Asset /\ buys \in Asset /\ floor \in Nat /\ stops \in BOOLEAN
  /\ Payable(t, sells)

(* t.code has a V4 command at that place, paid with what was wrapped or by *)
(* the sender.                                                             *)
Commands(t, at, sells, buys, floor, wrapped, to) ==
  /\ at \in {1, 2} /\ Len(t.code) >= at + 3
  /\ t.code[at] = SwapV4(ask.exactOut, sells, buys, Asked, BoundOf(floor))
  /\ t.code[at + 1] = IF wrapped THEN SettleFromRouter(sells)
                      ELSE SettleAll(sells, Call.amountIn)
  /\ t.code[at + 2] = Take(buys, to) /\ t.code[at + 3] = Close
  /\ sells \in Asset /\ buys \in Asset /\ sells # buys /\ floor \in Nat
  /\ wrapped \in BOOLEAN
  /\ IF wrapped THEN sells = WETH /\ Call.nativeIn ELSE Payable(t, sells)

Hops == SpanLen(Call.span)
Hop(k) == Call.span.start + k

(* The hops of a Universal Router's span, each at its place.               *)
Chains(t, place) ==
  /\ ~Direct /\ ~ask.exactOut /\ Hops > 1 /\ Hops \in Nat
  /\ t.to = "universal" /\ Call.span.kind = "UniswapUniversal"
  /\ place[1] = IF Call.nativeIn THEN 2 ELSE 1
  /\ Len(t.code) \in Nat
  /\ \A k \in 1..Hops :
       LET code == UniswapHopCode(Call, Hop(k))
       IN  /\ place[k] \in Nat \ {0} /\ place[k + 1] = place[k] + Len(code)
           /\ place[k + 1] <= Len(t.code) + 1
           /\ \A j \in 1..Len(code) : t.code[place[k] + j - 1] = code[j]
  /\ IF Call.nativeOut
     THEN Len(t.code) = place[Hops + 1]
          /\ t.code[place[Hops + 1]] = Unwrap(Call.minOut, Call.payee)
     ELSE Len(t.code) + 1 = place[Hops + 1]

(* What follows the trade whose output goes to that holder.                *)
NothingFollows(t, next, wrapped, to, buys, floor, stops) ==
  /\ Len(t.code) + 1 = next /\ to = Call.payee /\ buys = OutputAsset /\ floor = Call.minOut
  /\ stops => IF ask.exactOut THEN LimitedOutput /\ ~Call.nativeOut
              ELSE Limited(Call) /\ Hops = 1
  /\ ask.exactOut /\ Call.nativeIn => ~wrapped /\ UnusedValue

RefundFollows(t, next, wrapped, to, buys, floor, stops) ==
  /\ Len(t.code) = next /\ t.code[next] = Refund
  /\ to = Call.payee /\ buys = OutputAsset /\ floor = Call.minOut
  /\ ask.exactOut /\ Call.nativeIn /\ ~wrapped
  /\ stops => LimitedOutput /\ ~Call.nativeOut

ChangeFollows(t, next, wrapped, to, buys, floor, stops) ==
  /\ Len(t.code) = next /\ t.code[next] = Unwrap(0, Call.payee)
  /\ to = Call.payee /\ buys = OutputAsset /\ floor = Call.minOut
  /\ ask.exactOut /\ WrappedV4Output /\ wrapped /\ ~stops

UnwrapFollows(t, next, wrapped, to, buys, floor, stops) ==
  /\ Len(t.code) = next /\ t.code[next] = Unwrap(Call.minOut, Call.payee)
  /\ to \in {Router, AddressThis} /\ buys = WETH /\ floor = Call.minOut
  /\ Call.nativeOut /\ ~Call.nativeIn /\ ~wrapped
  /\ stops => IF ask.exactOut THEN LimitedOutput ELSE Limited(Call) /\ Hops = 1
  /\ to = AddressThis /\ t.to = "slipstream" => ~Direct

HopFollows(t, next, wrapped, to, buys, floor, stops) ==
  /\ \E place : Chains(t, place) /\ next = place[2]
  /\ to = AddressThis /\ buys = Call.path[Hop(2)]
  /\ ~Call.nativeIn /\ ~wrapped /\ ~stops

Follows(t, next, wrapped, to, buys, floor, stops) ==
  \/ NothingFollows(t, next, wrapped, to, buys, floor, stops)
  \/ RefundFollows(t, next, wrapped, to, buys, floor, stops)
  \/ ChangeFollows(t, next, wrapped, to, buys, floor, stops)
  \/ UnwrapFollows(t, next, wrapped, to, buys, floor, stops)
  \/ HopFollows(t, next, wrapped, to, buys, floor, stops)

(* What a transaction of an encoder starts with.                           *)
StartsWithExchange(t) ==
  \E sells, buys, floor, to, stops :
    /\ Exchanges1(t, sells, buys, floor, to, stops)
    /\ Follows(t, 2, FALSE, to, buys, floor, stops)

StartsWithCommand(t) ==
  \E sells, buys, floor, to :
    /\ Commands(t, 1, sells, buys, floor, FALSE, to)
    /\ Follows(t, 5, FALSE, to, buys, floor, FALSE)

WrapsFirst(t) == Len(t.code) >= 1 /\ t.code[1] = Wrap(Call.amountIn) /\ Call.nativeIn

WrapsForCommand(t) ==
  \E sells, buys, floor, to :
    /\ Commands(t, 2, sells, buys, floor, TRUE, to)
    /\ Follows(t, 6, TRUE, to, buys, floor, FALSE)

WrapsForHops(t) == \E place : Chains(t, place)

Starts(t) ==
  \/ StartsWithExchange(t) \/ StartsWithCommand(t)
  \/ WrapsFirst(t) /\ (WrapsForCommand(t) \/ WrapsForHops(t))

(* Who is paid, and whether a deadline is checked.                         *)
Addressed(t) ==
  /\ Call.payee \in Account /\ ~(Call.nativeIn /\ Call.nativeOut)
  /\ Call.span.kind # "Curve" => t.deadlineIn # "none"

-----------------------------------------------------------------------------
(* An encoder that returns a transaction has found nothing wrong.          *)
LEMMA AllOk ==
  ASSUME NEW verdicts, Len(verdicts) \in Nat, FirstError(verdicts) = "Ok"
  PROVE  \A i \in 1..Len(verdicts) : verdicts[i] = "Ok"
<1> DEFINE failed == {i \in 1..Len(verdicts) : verdicts[i] # "Ok"}
<1> SUFFICES ASSUME failed # {} PROVE FALSE
  OBVIOUS
<1>1. failed \in SUBSET Nat  OBVIOUS
<1>2. \E i \in failed : \A j \in failed : i <= j
  BY <1>1, LeastElement
<1> DEFINE first == CHOOSE i \in failed : \A j \in failed : i <= j
<1>3. first \in failed  BY <1>2
<1>4. FirstError(verdicts) = verdicts[first]  BY DEF FirstError
<1> QED  BY <1>3, <1>4

LEMMA RejectOk ==
  ASSUME NEW condition, NEW error, error # "Ok", Reject(condition, error) = "Ok"
  PROVE  ~condition
BY DEF Reject

(* What the encoder of a single pool has checked.                          *)
PoolAccepted ==
  /\ SinglePoolVerdict(Call) = "Ok" /\ Hops = 1
  /\ Call.payee \in Account /\ ~(Call.nativeIn /\ Call.nativeOut)

LEMMA OneHop ==
  ASSUME ask \in Calls
  PROVE  /\ Call.span.start \in Nat /\ Call.span.end \in Nat /\ Hops \in Nat \ {0}
         /\ Hops = Call.span.end - Call.span.start
         /\ \A k \in 1..Hops :
              /\ Hop(k) \in DOMAIN Call.pools /\ Call.pools[Hop(k)] \in Pool
              /\ HopJoined(Call, Hop(k))
              /\ Call.path[Hop(k)] \in Asset /\ Call.path[Hop(k) + 1] \in Asset
              /\ RouterKindOf(Call.pools[Hop(k)]) = Call.span.kind
         /\ Call.span.kind \in RouterKind
         /\ opts \in EncoderOptions => Call.sender \in Account \cup {Nobody}
<1>1. /\ Call.pools = ask.call.pools /\ Call.path = ask.call.path
      /\ Call.span = ask.call.span /\ Call.sender = opts.sender
  BY EdgeTypes
<1>2. /\ ask.call \in EncoderCall /\ AsksForASpan(ask.call)
  BY SettlementAssumption, CallsAssumption
<1>3. /\ Call.pools \in Seq(Pool) /\ Call.path \in Seq(Asset)
      /\ Call.span.start \in Nat /\ Call.span.end \in Nat /\ Call.span.kind \in RouterKind
  BY <1>1, <1>2 DEF EncoderCall
<1>4. /\ Call.span.start < Call.span.end /\ Call.span.end \in DOMAIN Call.pools
      /\ Call.span.end + 1 \in DOMAIN Call.path
      /\ \A i \in Call.span.start + 1 .. Call.span.end :
           HopJoined(ask.call, i) /\ RouterKindOf(Call.pools[i]) = Call.span.kind
  BY <1>1, <1>2 DEF AsksForASpan, SpanPools
<1>5. Hops = Call.span.end - Call.span.start /\ Hops \in Nat \ {0}
  BY <1>3, <1>4 DEF Hops, SpanLen
<1>6. ASSUME NEW k \in 1..Hops
      PROVE  /\ Hop(k) \in DOMAIN Call.pools /\ Call.pools[Hop(k)] \in Pool
             /\ HopJoined(Call, Hop(k))
             /\ Call.path[Hop(k)] \in Asset /\ Call.path[Hop(k) + 1] \in Asset
             /\ RouterKindOf(Call.pools[Hop(k)]) = Call.span.kind
  <2>1. Hop(k) \in Call.span.start + 1 .. Call.span.end
    BY <1>3, <1>5 DEF Hop
  <2>2. /\ Hop(k) \in DOMAIN Call.pools /\ Hop(k) \in DOMAIN Call.path
        /\ Hop(k) + 1 \in DOMAIN Call.path
    BY <1>3, <1>4, <2>1
  <2>3. HopJoined(Call, Hop(k)) /\ RouterKindOf(Call.pools[Hop(k)]) = Call.span.kind
    BY <1>1, <1>4, <2>1 DEF HopJoined
  <2> QED  BY <1>3, <2>2, <2>3
<1>7. opts \in EncoderOptions => Call.sender \in Account \cup {Nobody}
  BY <1>1 DEF EncoderOptions
<1> QED  BY <1>3, <1>5, <1>6, <1>7

(* The edges of a periphery trade in WETH what is native.                  *)
LEMMA PeripheryEdges ==
  ASSUME ask \in Calls
  PROVE  /\ Sold(Call, WETH) \in Asset /\ Bought(Call, WETH) \in Asset
         /\ Sold(Call, WETH) = IF Call.nativeIn THEN WETH ELSE SpanIn(Call)
         /\ ~Call.nativeOut => Bought(Call, WETH) = OutputAsset
         /\ Call.nativeOut => Bought(Call, WETH) = WETH
         /\ Call.minOut \in Nat
BY EdgeTypes, Distinct DEF Sold, Bought

LEMMA PeripheryInStarts ==
  ASSUME ask \in Calls, ~ask.exactOut, ~(Call.nativeIn /\ Call.nativeOut),
         NEW t, NEW custodian \in {Router, AddressThis}, NEW stops \in BOOLEAN,
         t.code = PeripheryIn(Call, custodian, stops), t.to # "universal",
         custodian = AddressThis /\ t.to = "slipstream" => ~Direct,
         stops => Limited(Call) /\ Hops = 1
  PROVE  StartsWithExchange(t)
<1> DEFINE sells == Sold(Call, WETH)
           buys == Bought(Call, WETH)
           to == IF Call.nativeOut THEN custodian ELSE Call.payee
<1>1. /\ sells \in Asset /\ buys \in Asset /\ Call.minOut \in Nat
      /\ sells = IF Call.nativeIn THEN WETH ELSE SpanIn(Call)
      /\ ~Call.nativeOut => buys = OutputAsset
      /\ Call.nativeOut => buys = WETH
  BY PeripheryEdges
<1>2. /\ ExchangeIn(Call, WETH, to, stops)
           = Exchange(ask.exactOut, sells, buys, Asked, BoundOf(Call.minOut), "User", to, stops)
  BY EdgeTypes DEF ExchangeIn, Asked, BoundOf
<1> DEFINE first == ExchangeIn(Call, WETH, to, stops)
           last == Unwrap(Call.minOut, Call.payee)
<1>3. t.code = IF Call.nativeOut THEN << first, last >> ELSE << first >>
  BY DEF PeripheryIn
<1> HIDE DEF sells, buys, first, last
<1>4. /\ Len(t.code) >= 1 /\ t.code[1] = first
      /\ Call.nativeOut => Len(t.code) = 2 /\ t.code[2] = last
      /\ ~Call.nativeOut => Len(t.code) + 1 = 2
  BY <1>3, EdgeTypes
<1>5. Exchanges1(t, sells, buys, Call.minOut, to, stops)
  BY <1>1, <1>2, <1>4 DEF Exchanges1, Payable, first
<1>6. CASE Call.nativeOut
  <2>1. UnwrapFollows(t, 2, FALSE, to, buys, Call.minOut, stops)
    BY <1>1, <1>4, <1>6 DEF UnwrapFollows, last
  <2> QED  BY <1>5, <2>1 DEF StartsWithExchange, Follows
<1>7. CASE ~Call.nativeOut
  <2>1. NothingFollows(t, 2, FALSE, to, buys, Call.minOut, stops)
    BY <1>1, <1>4, <1>7 DEF NothingFollows
  <2> QED  BY <1>5, <2>1 DEF StartsWithExchange, Follows
<1> QED  BY <1>6, <1>7

LEMMA PeripheryOutStarts ==
  ASSUME ask \in Calls, ask.exactOut, ~(Call.nativeIn /\ Call.nativeOut),
         NEW t, NEW custodian \in {Router, AddressThis}, NEW stops \in BOOLEAN,
         t.code = PeripheryOut(Call, custodian, stops), t.to # "universal",
         custodian = AddressThis /\ t.to = "slipstream" => ~Direct,
         stops => LimitedOutput
  PROVE  StartsWithExchange(t)
<1> DEFINE sells == Sold(Call, WETH)
           buys == Bought(Call, WETH)
           to == IF Call.nativeOut THEN custodian ELSE Call.payee
<1>1. /\ sells \in Asset /\ buys \in Asset /\ Call.minOut \in Nat
      /\ sells = IF Call.nativeIn THEN WETH ELSE SpanIn(Call)
      /\ ~Call.nativeOut => buys = OutputAsset
      /\ Call.nativeOut => buys = WETH
  BY PeripheryEdges
<1>2. /\ ExchangeOut(Call, to, stops)
           = Exchange(ask.exactOut, sells, buys, Asked, BoundOf(Call.minOut), "User", to, stops)
  BY EdgeTypes DEF ExchangeOut, Asked, BoundOf
<1> DEFINE first == ExchangeOut(Call, to, stops)
           last == Unwrap(Call.minOut, Call.payee)
<1>3. t.code = IF Call.nativeOut THEN << first, last >>
               ELSE IF Call.nativeIn THEN << first, Refund >> ELSE << first >>
  BY DEF PeripheryOut
<1> HIDE DEF sells, buys, first, last
<1>4. /\ Len(t.code) >= 1 /\ t.code[1] = first
      /\ Call.nativeOut => Len(t.code) = 2 /\ t.code[2] = last
      /\ ~Call.nativeOut /\ Call.nativeIn => Len(t.code) = 2 /\ t.code[2] = Refund
      /\ ~Call.nativeOut /\ ~Call.nativeIn => Len(t.code) + 1 = 2
  BY <1>3, EdgeTypes
<1>5. Exchanges1(t, sells, buys, Call.minOut, to, stops)
  BY <1>1, <1>2, <1>4 DEF Exchanges1, Payable, first
<1>6. CASE Call.nativeOut
  <2>1. UnwrapFollows(t, 2, FALSE, to, buys, Call.minOut, stops)
    BY <1>1, <1>4, <1>6 DEF UnwrapFollows, last
  <2> QED  BY <1>5, <2>1 DEF StartsWithExchange, Follows
<1>7. CASE ~Call.nativeOut /\ Call.nativeIn
  <2>1. RefundFollows(t, 2, FALSE, to, buys, Call.minOut, stops)
    BY <1>1, <1>4, <1>7 DEF RefundFollows
  <2> QED  BY <1>5, <2>1 DEF StartsWithExchange, Follows
<1>8. CASE ~Call.nativeOut /\ ~Call.nativeIn
  <2>1. NothingFollows(t, 2, FALSE, to, buys, Call.minOut, stops)
    BY <1>1, <1>4, <1>8 DEF NothingFollows
  <2> QED  BY <1>5, <2>1 DEF StartsWithExchange, Follows
<1> QED  BY <1>6, <1>7, <1>8

(* exchange() and CurveRouterNG trade ETH at native edges.                 *)
LEMMA CurveStarts ==
  ASSUME ask \in Calls, ~ask.exactOut,
         NEW t, t.code = << ExchangeIn(Call, NATIVE, Call.payee, FALSE) >>
  PROVE  StartsWithExchange(t)
<1> DEFINE sells == Sold(Call, NATIVE)
           buys == Bought(Call, NATIVE)
           first == ExchangeIn(Call, NATIVE, Call.payee, FALSE)
<1>1. /\ sells \in Asset /\ buys \in Asset /\ Call.minOut \in Nat
      /\ sells = IF Call.nativeIn THEN NATIVE ELSE SpanIn(Call)
      /\ buys = OutputAsset
  BY EdgeTypes, Distinct DEF Sold, Bought
<1>2. first = Exchange(ask.exactOut, sells, buys, Asked, BoundOf(Call.minOut), "User",
                       Call.payee, FALSE)
  BY EdgeTypes DEF ExchangeIn, Asked, BoundOf
<1> HIDE DEF sells, buys, first
<1>3. Len(t.code) + 1 = 2 /\ Len(t.code) >= 1 /\ t.code[1] = first /\ FALSE \in BOOLEAN
  BY DEF first
<1>4. Exchanges1(t, sells, buys, Call.minOut, Call.payee, FALSE)
  <2>1. Payable(t, sells)
    BY <1>1 DEF Payable
  <2> QED  BY <1>1, <1>2, <1>3, <2>1 DEF Exchanges1
<1>5. NothingFollows(t, 2, FALSE, Call.payee, buys, Call.minOut, FALSE)
  BY <1>1, <1>3 DEF NothingFollows
<1> QED  BY <1>4, <1>5 DEF StartsWithExchange, Follows

LEMMA OneFour ==
  ASSUME NEW a, NEW b, NEW c, NEW d, NEW e
  PROVE  /\ Len(<<a>> \o <<b, c, d, e>>) = 5
         /\ (<<a>> \o <<b, c, d, e>>)[1] = a /\ (<<a>> \o <<b, c, d, e>>)[2] = b
         /\ (<<a>> \o <<b, c, d, e>>)[3] = c /\ (<<a>> \o <<b, c, d, e>>)[4] = d
         /\ (<<a>> \o <<b, c, d, e>>)[5] = e
OBVIOUS

LEMMA FourOne ==
  ASSUME NEW a, NEW b, NEW c, NEW d, NEW e
  PROVE  /\ Len(<<b, c, d, e>> \o <<a>>) = 5
         /\ (<<b, c, d, e>> \o <<a>>)[5] = a /\ (<<b, c, d, e>> \o <<a>>)[1] = b
         /\ (<<b, c, d, e>> \o <<a>>)[2] = c /\ (<<b, c, d, e>> \o <<a>>)[3] = d
         /\ (<<b, c, d, e>> \o <<a>>)[4] = e
OBVIOUS

LEMMA OneFourOne ==
  ASSUME NEW a, NEW b, NEW c, NEW d, NEW e, NEW f
  PROVE  /\ Len((<<a>> \o <<b, c, d, e>>) \o <<f>>) = 6
         /\ ((<<a>> \o <<b, c, d, e>>) \o <<f>>)[6] = f
         /\ ((<<a>> \o <<b, c, d, e>>) \o <<f>>)[1] = a
         /\ ((<<a>> \o <<b, c, d, e>>) \o <<f>>)[2] = b
         /\ ((<<a>> \o <<b, c, d, e>>) \o <<f>>)[3] = c
         /\ ((<<a>> \o <<b, c, d, e>>) \o <<f>>)[4] = d
         /\ ((<<a>> \o <<b, c, d, e>>) \o <<f>>)[5] = e
OBVIOUS

(* A V4 pool trades ETH at a native edge, or its wrapped form around it.   *)
LEMMA V4Edges ==
  ASSUME ask \in Calls, ~(Call.nativeIn /\ Call.nativeOut)
  PROVE  /\ V4Sold(Call) \in Asset /\ V4Bought(Call) \in Asset /\ Call.minOut \in Nat
         /\ ~Call.nativeIn => V4Sold(Call) = SpanIn(Call)
         /\ ~Call.nativeOut => V4Bought(Call) = OutputAsset
         /\ IsWrapCase(Call) /\ Call.nativeIn => V4Sold(Call) = WETH /\ ~Call.nativeOut
         /\ IsWrapCase(Call) /\ ~Call.nativeIn => V4Bought(Call) = WETH /\ Call.nativeOut
         /\ ~IsWrapCase(Call) => /\ Call.nativeIn => V4Sold(Call) = NATIVE
                                 /\ Call.nativeOut => V4Bought(Call) = OutputAsset
BY EdgeTypes, Distinct DEF V4Sold, V4Bought, Sold, Bought, V4NativeAsset, IsWrapCase, Native

LEMMA V4ExchangeIs ==
  ASSUME ask \in Calls
  PROVE  V4Exchange(Call, ask.exactOut)
           = SwapV4(ask.exactOut, V4Sold(Call), V4Bought(Call), Asked, BoundOf(Call.minOut))
BY EdgeTypes DEF V4Exchange, Asked, BoundOf

LEMMA V4DirectStarts ==
  ASSUME ask \in Calls, ~(Call.nativeIn /\ Call.nativeOut), ~IsWrapCase(Call),
         V4Sold(Call) # V4Bought(Call),
         ask.exactOut /\ Call.nativeIn => UnusedValue,
         NEW t, t.code = V4Direct(Call, ask.exactOut)
  PROVE  StartsWithCommand(t)
<1> DEFINE sells == V4Sold(Call)
           buys == V4Bought(Call)
           swap == V4Exchange(Call, ask.exactOut)
           settle == SettleAll(sells, Call.amountIn)
           take == Take(buys, Call.payee)
<1>1. t.code = << swap, settle, take, Close >>
  BY DEF V4Direct, V4Command
<1>2. swap = SwapV4(ask.exactOut, sells, buys, Asked, BoundOf(Call.minOut))
  BY V4ExchangeIs
<1>3. /\ sells \in Asset /\ buys \in Asset /\ Call.minOut \in Nat /\ buys = OutputAsset
      /\ Call.nativeIn => sells = NATIVE
      /\ ~Call.nativeIn => sells = SpanIn(Call)
  BY V4Edges
<1> HIDE DEF sells, buys, swap, settle, take
<1>4. /\ Len(t.code) + 1 = 5 /\ Len(t.code) >= 1 + 3
      /\ t.code[1] = swap /\ t.code[1 + 1] = settle /\ t.code[1 + 2] = take
      /\ t.code[1 + 3] = Close /\ 1 \in {1, 2} /\ FALSE \in BOOLEAN
  BY <1>1
<1>5. Commands(t, 1, sells, buys, Call.minOut, FALSE, Call.payee)
  <2>1. Payable(t, sells)
    BY <1>3 DEF Payable
  <2>2. sells # buys
    BY DEF sells, buys
  <2> QED  BY <1>2, <1>3, <1>4, <2>1, <2>2 DEF Commands, settle, take
<1>6. NothingFollows(t, 5, FALSE, Call.payee, buys, Call.minOut, FALSE)
  BY <1>3, <1>4 DEF NothingFollows
<1> QED  BY <1>5, <1>6 DEF StartsWithCommand, Follows

LEMMA V4UnwrappedStarts ==
  ASSUME ask \in Calls, ~(Call.nativeIn /\ Call.nativeOut), IsWrapCase(Call), ~Call.nativeIn,
         V4Sold(Call) # V4Bought(Call),
         NEW t, t.code = V4Unwrapped(Call, ask.exactOut), t.to # "slipstream"
  PROVE  StartsWithCommand(t)
<1> DEFINE sells == V4Sold(Call)
           buys == V4Bought(Call)
           swap == V4Exchange(Call, ask.exactOut)
           settle == SettleAll(sells, Call.amountIn)
           take == Take(WETH, AddressThis)
           last == Unwrap(Call.minOut, Call.payee)
<1>1. t.code = << swap, settle, take, Close >> \o << last >>
  BY DEF V4Unwrapped, V4Command
<1>2. swap = SwapV4(ask.exactOut, sells, buys, Asked, BoundOf(Call.minOut))
  BY V4ExchangeIs
<1>3. /\ sells \in Asset /\ buys \in Asset /\ Call.minOut \in Nat /\ buys = WETH
      /\ Call.nativeOut /\ sells = SpanIn(Call)
  BY V4Edges
<1> HIDE DEF sells, buys, swap, settle, take, last
<1>4. /\ Len(t.code) = 5 /\ Len(t.code) >= 1 + 3
      /\ t.code[1] = swap /\ t.code[1 + 1] = settle /\ t.code[1 + 2] = take
      /\ t.code[1 + 3] = Close /\ t.code[5] = last /\ 1 \in {1, 2} /\ FALSE \in BOOLEAN
  BY <1>1, FourOne
<1>5. Commands(t, 1, sells, buys, Call.minOut, FALSE, AddressThis)
  <2>1. Payable(t, sells)
    BY <1>3 DEF Payable
  <2>2. sells # buys
    BY DEF sells, buys
  <2> QED  BY <1>2, <1>3, <1>4, <2>1, <2>2 DEF Commands, settle, take
<1>6. UnwrapFollows(t, 5, FALSE, AddressThis, buys, Call.minOut, FALSE)
  BY <1>3, <1>4 DEF UnwrapFollows, last
<1> QED  BY <1>5, <1>6 DEF StartsWithCommand, Follows

LEMMA V4WrappedStarts ==
  ASSUME ask \in Calls, ~(Call.nativeIn /\ Call.nativeOut), IsWrapCase(Call), Call.nativeIn,
         V4Sold(Call) # V4Bought(Call), ask.exactOut => WrappedV4Output,
         NEW t,
         ask.exactOut => t.code = V4Wrapped(Call, TRUE) \o << Unwrap(0, Call.payee) >>,
         ~ask.exactOut => t.code = V4Wrapped(Call, FALSE)
  PROVE  WrapsFirst(t) /\ WrapsForCommand(t)
<1> DEFINE sells == V4Sold(Call)
           buys == V4Bought(Call)
           first == Wrap(Call.amountIn)
           swap == V4Exchange(Call, ask.exactOut)
           settle == SettleFromRouter(WETH)
           take == Take(buys, Call.payee)
           last == Unwrap(0, Call.payee)
<1>1. /\ ask.exactOut =>
           t.code = (<< first >> \o << swap, settle, take, Close >>) \o << last >>
      /\ ~ask.exactOut => t.code = << first >> \o << swap, settle, take, Close >>
  <2>1. ask.exactOut = TRUE \/ ask.exactOut = FALSE
    BY EdgeTypes
  <2> QED  BY <2>1 DEF V4Wrapped, V4Command
<1>2. swap = SwapV4(ask.exactOut, sells, buys, Asked, BoundOf(Call.minOut))
  BY V4ExchangeIs
<1>3. /\ sells \in Asset /\ buys \in Asset /\ Call.minOut \in Nat /\ sells = WETH
      /\ ~Call.nativeOut /\ buys = OutputAsset
  BY V4Edges
<1>e. ask.exactOut \in BOOLEAN
  BY EdgeTypes
<1> HIDE DEF sells, buys, first, swap, settle, take, last
<1>4. /\ t.code[1] = first /\ t.code[2] = swap /\ t.code[2 + 1] = settle
      /\ t.code[2 + 2] = take /\ t.code[2 + 3] = Close
      /\ 2 \in {1, 2} /\ TRUE \in BOOLEAN
      /\ Len(t.code) >= 1 /\ Len(t.code) >= 2 + 3
      /\ ~ask.exactOut => Len(t.code) + 1 = 6
      /\ ask.exactOut => Len(t.code) = 6 /\ t.code[6] = last
  <2>1. CASE ask.exactOut
    <3>1. t.code = (<< first >> \o << swap, settle, take, Close >>) \o << last >>
      BY <1>1, <2>1
    <3>2. /\ Len(t.code) = 6 /\ t.code[1] = first /\ t.code[2] = swap /\ t.code[3] = settle
          /\ t.code[4] = take /\ t.code[5] = Close /\ t.code[6] = last
      BY <3>1
    <3> QED  BY <2>1, <3>2
  <2>2. CASE ~ask.exactOut
    <3>1. t.code = << first >> \o << swap, settle, take, Close >>
      BY <1>1, <2>2
    <3>2. /\ Len(t.code) = 5 /\ t.code[1] = first /\ t.code[2] = swap /\ t.code[3] = settle
          /\ t.code[4] = take /\ t.code[5] = Close
      BY <3>1
    <3> QED  BY <2>2, <3>2
  <2> QED  BY <2>1, <2>2
<1>5. Commands(t, 2, sells, buys, Call.minOut, TRUE, Call.payee)
  <2>2. sells # buys
    BY DEF sells, buys
  <2> QED  BY <1>2, <1>3, <1>4, <2>2 DEF Commands, settle, take
<1>6. CASE ~ask.exactOut
  <2>1. NothingFollows(t, 6, TRUE, Call.payee, buys, Call.minOut, FALSE)
    BY <1>3, <1>4, <1>6 DEF NothingFollows
  <2> QED  BY <1>4, <1>5, <2>1 DEF WrapsForCommand, Follows, WrapsFirst, first
<1>7. CASE ask.exactOut
  <2>1. ChangeFollows(t, 6, TRUE, Call.payee, buys, Call.minOut, FALSE)
    BY <1>3, <1>4, <1>7 DEF ChangeFollows, last
  <2> QED  BY <1>4, <1>5, <2>1 DEF WrapsForCommand, Follows, WrapsFirst, first
<1> QED  BY <1>6, <1>7, <1>e

-----------------------------------------------------------------------------
(* The hops of a span, one after the other. *)

HopCode(k) == UniswapHopCode(Call, Hop(k))

LEMMA HopCodeIs ==
  ASSUME NEW k
  PROVE  /\ Len(HopCode(k)) \in {1, 4}
         /\ HopCode(k) = IF KindOf[Call.pools[Hop(k)]] = "UniswapV4"
                         THEN V4Hop(Call, Hop(k)) ELSE V2V3Hop(Call, Hop(k))
         /\ \A D : (\A j \in 1..Len(HopCode(k)) : HopCode(k)[j] \in D) => HopCode(k) \in Seq(D)
<1>1. HopCode(k) = IF KindOf[Call.pools[Hop(k)]] = "UniswapV4"
                   THEN V4Hop(Call, Hop(k)) ELSE V2V3Hop(Call, Hop(k))
  BY DEF HopCode, UniswapHopCode
<1>2. CASE KindOf[Call.pools[Hop(k)]] = "UniswapV4"
  <2>1. PICK a, b, c : HopCode(k) = << a, b, c, Close >>
    BY <1>1, <1>2, Zenon DEF V4Hop, V4Command
  <2>2. Len(HopCode(k)) = 4
    BY <2>1
  <2>3. ASSUME NEW D, \A j \in 1..4 : HopCode(k)[j] \in D PROVE HopCode(k) \in Seq(D)
    <3>1. a \in D /\ b \in D /\ c \in D /\ Close \in D
      BY <2>1, <2>3
    <3> QED  BY <2>1, <3>1
  <2> QED  BY <1>1, <2>2, <2>3
<1>3. CASE KindOf[Call.pools[Hop(k)]] # "UniswapV4"
  <2>1. PICK a : HopCode(k) = << a >>
    BY <1>1, <1>3, Zenon DEF V2V3Hop
  <2>2. Len(HopCode(k)) = 1
    BY <2>1
  <2>3. ASSUME NEW D, \A j \in 1..1 : HopCode(k)[j] \in D PROVE HopCode(k) \in Seq(D)
    <3>1. a \in D
      BY <2>1, <2>3
    <3> QED  BY <2>1, <3>1
  <2> QED  BY <1>1, <2>2, <2>3
<1> QED  BY <1>2, <1>3

LEMMA UniversalChains ==
  ASSUME ask \in Calls, ~Direct, ~ask.exactOut, Hops > 1,
         Call.span.kind = "UniswapUniversal",
         NEW t, t.code = UniswapCode(Call), t.to = "universal"
  PROVE  /\ \E place : Chains(t, place)
         /\ Call.nativeIn => WrapsFirst(t)
<1> DEFINE seqs == [k \in 1..Hops |-> HopCode(k)]
           first == Wrap(Call.amountIn)
           last == Unwrap(Call.minOut, Call.payee)
           D == (UNION {{HopCode(k)[j] : j \in 1..Len(HopCode(k))} : k \in 1..Hops})
                  \cup {first, last}
           pre == IF Call.nativeIn THEN << first >> ELSE << >>
           post == IF Call.nativeOut THEN << last >> ELSE << >>
           F == FlattenSeq(seqs)
<1>1. Hops \in Nat \ {0} /\ 1 \in 1..Hops /\ Hops \in 1..Hops
  BY OneHop
<1>2. \A k \in 1..Hops : HopCode(k) \in Seq(D) /\ Len(HopCode(k)) \in Nat
  <2> SUFFICES ASSUME NEW k \in 1..Hops PROVE HopCode(k) \in Seq(D) /\ Len(HopCode(k)) \in Nat
    OBVIOUS
  <2>1. \A j \in 1..Len(HopCode(k)) : HopCode(k)[j] \in D
    OBVIOUS
  <2> HIDE DEF D
  <2> QED  BY <2>1, HopCodeIs
<1>3. t.code = (pre \o F) \o post
  <2>1. seqs = [ k \in 1..SpanLen(Call.span) |-> UniswapHopCode(Call, Call.span.start + k) ]
    BY DEF Hops, Hop, HopCode
  <2> HIDE DEF seqs
  <2> QED  BY <2>1 DEF UniswapCode
<1>4. pre \in Seq(D) /\ post \in Seq(D)
  <2>1. first \in D /\ last \in D
    OBVIOUS
  <2> HIDE DEF first, last, D
  <2> QED  BY <2>1
<1>5. seqs \in Seq(Seq(D)) /\ Len(seqs) = Hops /\ \A k \in 1..Hops : seqs[k] = HopCode(k)
  <2> HIDE DEF D
  <2> QED  BY <1>1, <1>2
<1>p. /\ Len(pre) = IF Call.nativeIn THEN 1 ELSE 0
      /\ Call.nativeIn => pre[1] = first
      /\ Len(post) = IF Call.nativeOut THEN 1 ELSE 0
      /\ Call.nativeOut => post[1] = last
  <2> HIDE DEF first, last
  <2> QED  OBVIOUS
<1> HIDE DEF seqs, D, F, pre, post
<1>6. PICK start : Offsets(start, seqs)
  <2> DEFINE step == [i \in 1..Hops |-> [x \in Nat |-> x + Len(HopCode(i))]]
  <2>1. step \in [1..Hops -> [Nat -> Nat]]
    BY <1>2
  <2>2. PICK g : Climbs(g, Hops, Nat, 0, step)
    <3> HIDE DEF step
    <3> QED  BY <1>1, <2>1, RecursionUp
  <2>3. /\ g[0] = 0 /\ \A i \in 0..Hops : g[i] \in Nat
        /\ \A i \in 1..Hops : g[i] = g[i - 1] + Len(HopCode(i))
    <3>1. /\ g[0] = 0 /\ g \in [0..Hops -> Nat]
          /\ \A i \in 1..Hops : g[i] = step[i][g[i - 1]]
      <4> HIDE DEF step
      <4> QED  BY <1>1, <2>2 DEF Climbs
    <3>2. \A i \in 1..Hops : g[i - 1] \in Nat
      BY <1>1, <3>1
    <3>3. \A i \in 1..Hops : step[i][g[i - 1]] = g[i - 1] + Len(HopCode(i))
      BY <3>2
    <3> HIDE DEF step
    <3> QED  BY <3>1, <3>3
  <2> DEFINE start == [i \in 1..Hops |-> g[i - 1]]
  <2>4. start[1] = 0
    BY <1>1, <2>3
  <2>5. \A i \in 1..Hops - 1 : start[i + 1] = start[i] + Len(seqs[i])
    BY <1>1, <1>5, <2>3
  <2>6. Offsets(start, seqs)
    <3> HIDE DEF start
    <3> QED  BY <1>5, <2>4, <2>5 DEF Offsets
  <2> QED  BY <2>6
<1>7. Puts(F, seqs, start, Hops)
  BY <1>1, <1>5, <1>6, FlattenAt DEF F
<1>8. /\ start[1] = 0
      /\ \A k \in 1..Hops - 1 : start[k + 1] = start[k] + Len(HopCode(k))
      /\ Len(F) = start[Hops] + Len(HopCode(Hops))
      /\ \A k \in 1..Hops :
           /\ start[k] \in Nat /\ start[k] + Len(HopCode(k)) <= Len(F)
           /\ \A j \in 1..Len(HopCode(k)) : F[start[k] + j] = HopCode(k)[j]
  <2>1. /\ start[1] = 0 /\ Len(seqs) = Hops
        /\ \A k \in 1..Hops - 1 : start[k + 1] = start[k] + Len(seqs[k])
    BY <1>1, <1>5, <1>6 DEF Offsets
  <2>2. /\ Len(F) = start[Hops] + Len(seqs[Hops])
        /\ \A k \in 1..Hops :
             /\ start[k] \in Nat /\ start[k] + Len(seqs[k]) <= Len(F)
             /\ \A j \in 1..Len(seqs[k]) : F[start[k] + j] = seqs[k][j]
    BY <1>7 DEF Puts
  <2>3. \A k \in 1..Hops - 1 : k \in 1..Hops
    BY <1>1
  <2>4. \A k \in 1..Hops : seqs[k] = HopCode(k)
    BY <1>5
  <2>5. \A k \in 1..Hops - 1 : start[k + 1] = start[k] + Len(HopCode(k))
    BY <2>1, <2>3, <2>4
  <2>6. Len(F) = start[Hops] + Len(HopCode(Hops))
    BY <1>1, <2>2, <2>4
  <2>7. ASSUME NEW k \in 1..Hops
        PROVE  /\ start[k] \in Nat /\ start[k] + Len(HopCode(k)) <= Len(F)
               /\ \A j \in 1..Len(HopCode(k)) : F[start[k] + j] = HopCode(k)[j]
    <3>1. seqs[k] = HopCode(k)
      BY <2>4
    <3> QED  BY <2>2, <3>1
  <2> QED  BY <2>1, <2>5, <2>6, <2>7
<1>9. F \in Seq(D)
  BY <1>5, FlattenLists DEF F
<1>10. Len(F) \in Nat /\ Len(pre) \in Nat /\ Len(post) \in Nat
  BY <1>4, <1>9
<1>11. /\ pre \o F \in Seq(D) /\ Len(pre \o F) = Len(pre) + Len(F)
       /\ \A j \in 1..Len(F) : (pre \o F)[Len(pre) + j] = F[j]
       /\ \A j \in 1..Len(pre) : (pre \o F)[j] = pre[j]
  BY <1>4, <1>9
<1>12. /\ Len(t.code) = Len(pre) + Len(F) + Len(post)
       /\ \A j \in 1..Len(pre) + Len(F) : t.code[j] = (pre \o F)[j]
       /\ \A j \in 1..Len(post) : t.code[Len(pre) + Len(F) + j] = post[j]
  <2> DEFINE G == pre \o F
  <2>0. G \in Seq(D)
    BY <1>11
  <2>1. Len(G) = Len(pre) + Len(F) /\ t.code = G \o post
    BY <1>3, <1>11
  <2> HIDE DEF G
  <2>2. /\ Len(G \o post) = Len(G) + Len(post)
        /\ \A j \in 1..Len(G) : (G \o post)[j] = G[j]
        /\ \A j \in 1..Len(post) : (G \o post)[Len(G) + j] = post[j]
    BY <1>4, <2>0
  <2> QED  BY <2>1, <2>2 DEF G
<1> DEFINE place == [k \in 1..Hops + 1 |->
                       Len(pre) + 1 + IF k <= Hops THEN start[k] ELSE Len(F)]
<1>13. /\ \A k \in 1..Hops : place[k] = Len(pre) + 1 + start[k]
       /\ place[Hops + 1] = Len(pre) + 1 + Len(F)
       /\ place[1] = Len(pre) + 1
  BY <1>1, <1>8
<1> HIDE DEF place
<1>14. ASSUME NEW k \in 1..Hops
       PROVE  /\ place[k] \in Nat \ {0} /\ place[k + 1] = place[k] + Len(HopCode(k))
              /\ place[k + 1] <= Len(t.code) + 1
              /\ \A j \in 1..Len(HopCode(k)) : t.code[place[k] + j - 1] = HopCode(k)[j]
  <2>1. /\ start[k] \in Nat /\ start[k] + Len(HopCode(k)) <= Len(F)
        /\ \A j \in 1..Len(HopCode(k)) : F[start[k] + j] = HopCode(k)[j]
        /\ Len(HopCode(k)) \in Nat /\ place[k] = Len(pre) + 1 + start[k]
    BY <1>2, <1>8, <1>13
  <2>2. place[k] \in Nat \ {0}
    BY <1>10, <2>1
  <2>3. place[k + 1] = place[k] + Len(HopCode(k))
    <3>1. CASE k = Hops
      BY <1>1, <1>8, <1>10, <1>13, <2>1, <3>1
    <3>2. CASE k # Hops
      <4>1. k \in 1..Hops - 1 /\ k + 1 \in 1..Hops
        BY <1>1, <3>2
      <4>2. start[k + 1] = start[k] + Len(HopCode(k)) /\ place[k + 1] = Len(pre) + 1 + start[k + 1]
        BY <1>8, <1>13, <4>1
      <4> QED  BY <1>10, <2>1, <4>2
    <3> QED  BY <3>1, <3>2
  <2>4. place[k + 1] <= Len(t.code) + 1
    BY <1>10, <1>12, <2>1, <2>3
  <2>5. ASSUME NEW j \in 1..Len(HopCode(k))
        PROVE  t.code[place[k] + j - 1] = HopCode(k)[j]
    <3>1. /\ place[k] + j - 1 = Len(pre) + (start[k] + j)
          /\ start[k] + j \in 1..Len(F) /\ Len(pre) + (start[k] + j) \in 1..Len(pre) + Len(F)
      BY <1>10, <2>1
    <3>2. t.code[Len(pre) + (start[k] + j)] = (pre \o F)[Len(pre) + (start[k] + j)]
      BY <1>12, <3>1
    <3>3. (pre \o F)[Len(pre) + (start[k] + j)] = F[start[k] + j]
      BY <1>11, <3>1
    <3>4. F[start[k] + j] = HopCode(k)[j]
      BY <2>1
    <3> QED  BY <3>1, <3>2, <3>3, <3>4
  <2> QED  BY <2>2, <2>3, <2>4, <2>5
<1>15. IF Call.nativeOut
       THEN Len(t.code) = place[Hops + 1] /\ t.code[place[Hops + 1]] = last
       ELSE Len(t.code) + 1 = place[Hops + 1]
  <2>1. CASE Call.nativeOut
    <3>1. Len(post) = 1 /\ post[1] = last /\ 1 \in 1..Len(post)
      BY <1>p, <2>1
    <3>2. t.code[Len(pre) + Len(F) + 1] = last
      BY <1>12, <3>1
    <3>3. place[Hops + 1] = Len(pre) + Len(F) + 1 /\ Len(t.code) = Len(pre) + Len(F) + 1
      BY <1>10, <1>12, <1>13, <3>1
    <3> QED  BY <2>1, <3>2, <3>3
  <2>2. CASE ~Call.nativeOut
    BY <1>10, <1>12, <1>13, <1>p, <2>2
  <2> QED  BY <2>1, <2>2
<1>16. place[1] = IF Call.nativeIn THEN 2 ELSE 1
  BY <1>13, <1>p
<1>17. Len(t.code) \in Nat
  BY <1>10, <1>12
<1>18. Chains(t, place)
  BY <1>1, <1>14, <1>15, <1>16, <1>17 DEF Chains, HopCode, last
<1>19. ASSUME Call.nativeIn PROVE WrapsFirst(t)
  <2>1. Len(pre) = 1 /\ pre[1] = first /\ 1 \in 1..Len(pre) /\ 1 \in 1..Len(pre) + Len(F)
    BY <1>10, <1>19, <1>p
  <2>2. t.code[1] = first
    BY <1>11, <1>12, <2>1
  <2>3. Len(t.code) >= 1
    BY <1>10, <1>12, <2>1
  <2> QED  BY <1>19, <2>2, <2>3 DEF WrapsFirst, first
<1> QED  BY <1>18, <1>19

-----------------------------------------------------------------------------
(* Every transaction an encoder returns starts in one of these ways. *)

LEMMA OneFive ==
  ASSUME NEW a, NEW b, NEW c, NEW d, NEW e, NEW f
  PROVE  /\ Len(<<a>> \o <<b, c, d, e, f>>) = 6
         /\ (<<a>> \o <<b, c, d, e, f>>)[2] = b
         /\ (<<a>> \o <<b, c, d, e, f>>)[6] = f
OBVIOUS

LEMMA FiveTwo ==
  ASSUME NEW a, NEW b, NEW c, NEW d, NEW e, NEW f, NEW g
  PROVE  /\ Len(<<a, b, c, d, e>> \o <<f, g>>) = 7
         /\ (<<a, b, c, d, e>> \o <<f, g>>)[4] = d
         /\ (<<a, b, c, d, e>> \o <<f, g>>)[6] = f
         /\ (<<a, b, c, d, e>> \o <<f, g>>)[7] = g
OBVIOUS

(* What the encoder of a V4 pool and that of a Curve pool have checked.    *)
LEMMA V4Trades ==
  ASSUME ask \in Calls, PoolAccepted, KindOf[FirstPool(Call)] = "UniswapV4"
  PROVE  V4Sold(Call) # V4Bought(Call)
<1> DEFINE known == Reject(~(/\ FirstPool(Call) \in BuiltIn
                             /\ RouterKindOf(FirstPool(Call)) = "Curve" => CurveEnabled),
                           "UnsupportedProtocol")
           trades == ResolveSwapWith(Call, IF IsWrapCase(Call) THEN WETH ELSE NATIVE)
           c == NoPriceLimit(Call)
           d == Reject(Call.amountIn > MaxU128 \/ Call.minOut > MaxU128, "Overflow")
           e == IF Call.nativeIn THEN "Ok" ELSE Needs(Call, "permit2")
           f == Needs(Call, "universal")
           verdicts == << known >> \o << trades, c, d, e, f >>
<1>1. FirstError(verdicts) = "Ok"
  BY DEF PoolAccepted, SinglePoolVerdict, UniswapV4Checks
<1>2. Len(verdicts) = 6 /\ verdicts[2] = trades
  BY OneFive
<1> HIDE DEF verdicts
<1>n. Len(verdicts) \in Nat
  BY <1>2
<1>3. \A i \in 1..Len(verdicts) : verdicts[i] = "Ok"
  BY <1>1, <1>n, AllOk
<1>4. trades = "Ok"
  <2> HIDE DEF trades
  <2> QED  BY <1>2, <1>3
<1>5. trades = Reject(~({V4Sold(Call), V4Bought(Call)} \subseteq AssetsOf[FirstPool(Call)]
                        /\ V4Sold(Call) # V4Bought(Call)), "AssetNotInPool")
  BY DEF ResolveSwapWith, V4Sold, V4Bought, Sold, Bought, V4NativeAsset
<1> QED  BY <1>4, <1>5 DEF Reject

LEMMA CurveDelivers ==
  ASSUME ask \in Calls, PoolAccepted,
         KindOf[FirstPool(Call)] \notin {"UniswapV2", "UniswapV3", "UniswapV4", "Slipstream",
                                         "AerodromeVolatile", "AerodromeStable"},
         InterfaceOf[FirstPool(Call)] # "CryptoU256Receiver"
  PROVE  Call.payee = Call.sender
<1> DEFINE interface == InterfaceOf[FirstPool(Call)]
           known == Reject(~(/\ FirstPool(Call) \in BuiltIn
                             /\ RouterKindOf(FirstPool(Call)) = "Curve" => CurveEnabled),
                           "UnsupportedProtocol")
           b == NoPriceLimit(Call)
           c == Reject(Native(Call) /\ interface # "CryptoU256UseEth", "UnsupportedProtocol")
           d == ResolveSwap(Call)
           e == Reject(interface = "None", "UnsupportedProtocol")
           delivers == IF interface = "CryptoU256Receiver" THEN "Ok" ELSE DeliversToSender(Call)
           verdicts == << known >> \o << b, c, d, e, delivers >>
<1>1. FirstError(verdicts) = "Ok"
  BY DEF PoolAccepted, SinglePoolVerdict, CurveChecks
<1>2. Len(verdicts) = 6 /\ verdicts[6] = delivers
  BY OneFive
<1> HIDE DEF verdicts
<1>n. Len(verdicts) \in Nat
  BY <1>2
<1>3. \A i \in 1..Len(verdicts) : verdicts[i] = "Ok"
  BY <1>1, <1>n, AllOk
<1>4. delivers = "Ok"
  <2> HIDE DEF delivers
  <2> QED  BY <1>2, <1>3
<1> QED  BY <1>4 DEF DeliversToSender, Reject

(* How the encoder of a pool is reached.                                   *)
LEMMA DirectAccepted ==
  ASSUME ask \in Calls, opts \in EncoderOptions, Direct, EncoderVerdict = "Ok"
  PROVE  /\ PoolAccepted
         /\ ask.exactOut => KindOf[FirstPool(Call)]
                              \in {"UniswapV2", "UniswapV3", "UniswapV4", "Slipstream"}
<1> DEFINE kindly == Reject(KindOf[FirstPool(Call)] \notin
                              {"UniswapV2", "UniswapV3", "UniswapV4", "Slipstream"},
                            "UnsupportedProtocol")
           verdict == PoolVerdict(Call, Resolved(opts))
           both == << kindly, verdict >>
<1>1. /\ verdict = "Ok"
      /\ ask.exactOut => KindOf[FirstPool(Call)]
                           \in {"UniswapV2", "UniswapV3", "UniswapV4", "Slipstream"}
  <2>1. CASE ~ask.exactOut
    BY <2>1 DEF EncoderVerdict, Direct
  <2>2. CASE ask.exactOut
    <3>1. FirstError(both) = "Ok"
      BY <2>2 DEF EncoderVerdict, Direct, PoolExactOutVerdict
    <3> HIDE DEF kindly, verdict
    <3>2. kindly = "Ok" /\ verdict = "Ok"
      BY <3>1, BothPass
    <3> QED  BY <3>2 DEF kindly, Reject
  <2> QED  BY <2>1, <2>2
<1>2. PICK a, b, c, e :
        BeforeResolve(Call) = << a, b, c, Reject(Call.nativeIn /\ Call.nativeOut,
                                                 "NativeMismatch"), e >>
  BY Zenon DEF BeforeResolve
<1> DEFINE d == Reject(Call.nativeIn /\ Call.nativeOut, "NativeMismatch")
           f == Resolved(opts)
           g == SinglePoolVerdict(Call)
           verdicts == << a, b, c, d, e >> \o << f, g >>
<1>3. FirstError(verdicts) = "Ok"
  BY <1>1, <1>2 DEF PoolVerdict
<1>4. Len(verdicts) = 7 /\ verdicts[4] = d /\ verdicts[6] = f /\ verdicts[7] = g
  BY FiveTwo
<1> HIDE DEF verdicts
<1>n. Len(verdicts) \in Nat
  BY <1>4
<1>5. \A i \in 1..Len(verdicts) : verdicts[i] = "Ok"
  BY <1>3, <1>n, AllOk
<1>6. d = "Ok" /\ f = "Ok" /\ g = "Ok"
  <2> HIDE DEF d, f, g
  <2> QED  BY <1>4, <1>5
<1>7. ~(Call.nativeIn /\ Call.nativeOut)
  BY <1>6 DEF Reject
<1>8. Call.payee \in Account
  <2>1. opts.recipient # TheSender
    BY <1>6 DEF Resolved
  <2> QED  BY <2>1, EdgeTypes DEF EncoderOptions
<1>9. Hops = 1
  BY SettlementAssumption, EdgeTypes DEF Direct, Hops
<1> QED  BY <1>1, <1>6, <1>7, <1>8, <1>9 DEF PoolAccepted

LEMMA FieldsOf ==
  ASSUME NEW to, NEW spender, NEW deadlineIn, NEW call, NEW code
  PROVE  /\ Transaction(to, spender, deadlineIn, call, code).to = to
         /\ Transaction(to, spender, deadlineIn, call, code).code = code
         /\ Transaction(to, spender, deadlineIn, call, code).deadlineIn = deadlineIn
BY DEF Transaction

LEMMA FirstPoolIs ==
  ASSUME ask \in Calls
  PROVE  /\ FirstPool(Call) = Call.pools[Hop(1)]
         /\ RouterKindOf(FirstPool(Call)) = Call.span.kind /\ Call.span.kind \in RouterKind
         /\ Hop(1) = Call.span.start + 1
BY OneHop DEF FirstPool, Hop

LEMMA PoolSwapStarts ==
  ASSUME ask \in Calls, ~ask.exactOut, PoolAccepted
  PROVE  /\ Starts(PoolSwap(Call))
         /\ Call.span.kind # "Curve" => PoolSwap(Call).deadlineIn # "none"
<1> DEFINE kind == KindOf[FirstPool(Call)]
           t == PoolSwap(Call)
<1>0. /\ ~(Call.nativeIn /\ Call.nativeOut) /\ Hops = 1
      /\ Router \in {Router, AddressThis} /\ AddressThis \in {Router, AddressThis}
      /\ FALSE \in BOOLEAN /\ Limited(Call) \in BOOLEAN
  BY DEF PoolAccepted, Limited
<1>1. CASE kind = "UniswapV2"
  <2>1. t = UniswapV2Swap(Call)
    BY <1>1 DEF PoolSwap
  <2>2. t.code = PeripheryIn(Call, Router, FALSE) /\ t.to = "v2" /\ t.deadlineIn = "argument"
    BY <2>1 DEF UniswapV2Swap, Transaction
  <2> HIDE DEF t
  <2>3. StartsWithExchange(t)
    BY <1>0, <2>2, PeripheryInStarts, Distinct
  <2> QED  BY <2>2, <2>3 DEF Starts, t
<1>2. CASE kind = "UniswapV3"
  <2>1. t = UniswapV3Swap(Call)
    BY <1>2 DEF PoolSwap
  <2>2. /\ t.code = PeripheryIn(Call, AddressThis, Limited(Call)) /\ t.to = "v3"
        /\ t.deadlineIn = "multicall"
    BY <2>1, FieldsOf DEF UniswapV3Swap, SwapRouter02Swap, InMulticall
  <2> HIDE DEF t
  <2>3. StartsWithExchange(t)
    BY <1>0, <2>2, PeripheryInStarts
  <2> QED  BY <2>2, <2>3 DEF Starts, t
<1>3. CASE kind = "UniswapV4"
  <2>0. V4Sold(Call) # V4Bought(Call) /\ ask.exactOut = FALSE
    BY <1>3, V4Trades, EdgeTypes
  <2>1. t = UniswapV4Swap(Call)
    BY <1>3 DEF PoolSwap
  <2> DEFINE code == IF IsWrapCase(Call) /\ Call.nativeIn THEN V4Wrapped(Call, FALSE)
                    ELSE IF IsWrapCase(Call) THEN V4Unwrapped(Call, FALSE)
                    ELSE V4Direct(Call, FALSE)
  <2>c. t = Transaction("universal", "permit2", "argument", Call, code)
    BY <2>1, Zenon DEF UniswapV4Swap, Execute
  <2>2. t.to = "universal" /\ t.deadlineIn = "argument" /\ t.code = code
    <3> HIDE DEF code
    <3> QED  BY <2>c, FieldsOf
  <2> HIDE DEF t
  <2>3. CASE IsWrapCase(Call) /\ Call.nativeIn
    <3>1. t.code = V4Wrapped(Call, FALSE)
      BY <2>2, <2>3
    <3>2. WrapsFirst(t) /\ WrapsForCommand(t)
      BY <1>0, <2>0, <2>3, <3>1, V4WrappedStarts
    <3> QED  BY <2>2, <3>2 DEF Starts, t
  <2>4. CASE IsWrapCase(Call) /\ ~Call.nativeIn
    <3>1. t.code = V4Unwrapped(Call, ask.exactOut) /\ t.to # "slipstream"
      BY <2>0, <2>2, <2>4
    <3>2. StartsWithCommand(t)
      BY <1>0, <2>0, <2>4, <3>1, V4UnwrappedStarts
    <3> QED  BY <2>2, <3>2 DEF Starts, t
  <2>5. CASE ~IsWrapCase(Call)
    <3>1. t.code = V4Direct(Call, ask.exactOut)
      BY <2>0, <2>2, <2>5
    <3>2. StartsWithCommand(t)
      BY <1>0, <2>0, <2>5, <3>1, V4DirectStarts
    <3> QED  BY <2>2, <3>2 DEF Starts, t
  <2> QED  BY <2>3, <2>4, <2>5
<1>4. CASE kind = "Slipstream"
  <2>1. t = SlipstreamSwap(Call)
    BY <1>4 DEF PoolSwap
  <2>2. /\ t.code = PeripheryIn(Call, Router, Limited(Call)) /\ t.to = "slipstream"
        /\ t.deadlineIn = "params"
    BY <2>1, FieldsOf DEF SlipstreamSwap, SwapRouter02Swap, InMulticall
  <2> HIDE DEF t
  <2>3. StartsWithExchange(t)
    BY <1>0, <2>2, PeripheryInStarts, Distinct
  <2> QED  BY <2>2, <2>3 DEF Starts, t
<1>5. CASE kind \in {"AerodromeVolatile", "AerodromeStable"}
  <2>1. t = AerodromeSwap(Call)
    BY <1>5 DEF PoolSwap
  <2>2. /\ t.code = PeripheryIn(Call, Router, FALSE) /\ t.to = "aerodrome"
        /\ t.deadlineIn = "argument"
    BY <2>1 DEF AerodromeSwap, Transaction
  <2> HIDE DEF t
  <2>3. StartsWithExchange(t)
    BY <1>0, <2>2, PeripheryInStarts, Distinct
  <2> QED  BY <2>2, <2>3 DEF Starts, t
<1>6. CASE kind \notin {"UniswapV2", "UniswapV3", "UniswapV4", "Slipstream",
                        "AerodromeVolatile", "AerodromeStable"}
  <2>1. t = CurveSwap(Call)
    BY <1>6 DEF PoolSwap
  <2> DEFINE to == IF InterfaceOf[FirstPool(Call)] = "CryptoU256Receiver"
                   THEN Call.payee ELSE Call.sender
  <2>2. to = Call.payee
    BY <1>6, CurveDelivers
  <2> DEFINE code == << ExchangeIn(Call, NATIVE, to, FALSE) >>
  <2>c. t = Transaction("pool", "pool", "none", Call, code)
    BY <2>1, Zenon DEF CurveSwap
  <2>3. t.code = code
    <3> HIDE DEF code, t
    <3> QED  BY <2>c, FieldsOf
  <2>4. t.code = << ExchangeIn(Call, NATIVE, Call.payee, FALSE) >>
    BY <2>2, <2>3
  <2>5. Call.span.kind = "Curve"
    BY <1>6, FirstPoolIs DEF RouterKindOf, RouterKind
  <2> HIDE DEF t
  <2>6. StartsWithExchange(t)
    BY <2>4, CurveStarts
  <2> QED  BY <2>5, <2>6 DEF Starts, t
<1> QED  BY <1>1, <1>2, <1>3, <1>4, <1>5, <1>6

LEMMA PoolSwapExactOutStarts ==
  ASSUME ask \in Calls, ask.exactOut, Direct, PoolAccepted,
         KindOf[FirstPool(Call)] \in {"UniswapV2", "UniswapV3", "UniswapV4", "Slipstream"}
  PROVE  Starts(PoolSwapExactOut(Call)) /\ PoolSwapExactOut(Call).deadlineIn # "none"
<1> DEFINE kind == KindOf[FirstPool(Call)]
           t == PoolSwapExactOut(Call)
<1>0. /\ ~(Call.nativeIn /\ Call.nativeOut)
      /\ Router \in {Router, AddressThis} /\ AddressThis \in {Router, AddressThis}
      /\ FALSE \in BOOLEAN /\ Limited(Call) \in BOOLEAN
      /\ Limited(Call) => LimitedOutput
  BY DEF PoolAccepted, Limited, LimitedOutput
<1>1. CASE kind = "UniswapV2"
  <2>1. t = UniswapV2SwapExactOut(Call)
    BY <1>1 DEF PoolSwapExactOut
  <2>2. t.code = PeripheryOut(Call, Router, FALSE) /\ t.to = "v2" /\ t.deadlineIn = "argument"
    BY <2>1 DEF UniswapV2SwapExactOut, Transaction
  <2> HIDE DEF t
  <2>3. StartsWithExchange(t)
    BY <1>0, <2>2, PeripheryOutStarts, Distinct
  <2> QED  BY <2>2, <2>3 DEF Starts, t
<1>2. CASE kind = "UniswapV3"
  <2>1. t = UniswapV3SwapExactOut(Call)
    BY <1>2 DEF PoolSwapExactOut
  <2>2. /\ t.code = PeripheryOut(Call, AddressThis, Limited(Call)) /\ t.to = "v3"
        /\ t.deadlineIn = "multicall"
    BY <2>1, FieldsOf DEF UniswapV3SwapExactOut, SwapRouter02SwapExactOut, InMulticall
  <2> HIDE DEF t
  <2>3. StartsWithExchange(t)
    BY <1>0, <2>2, PeripheryOutStarts
  <2> QED  BY <2>2, <2>3 DEF Starts, t
<1>3. CASE kind = "UniswapV4"
  <2>0. V4Sold(Call) # V4Bought(Call) /\ ask.exactOut = TRUE
    BY <1>3, V4Trades, EdgeTypes
  <2>1. t = UniswapV4SwapExactOut(Call)
    BY <1>3 DEF PoolSwapExactOut
  <2> DEFINE code == IF IsWrapCase(Call) /\ Call.nativeIn
                    THEN V4Wrapped(Call, TRUE) \o << Unwrap(0, Call.payee) >>
                    ELSE IF IsWrapCase(Call) THEN V4Unwrapped(Call, TRUE)
                    ELSE V4Direct(Call, TRUE)
  <2>c. t = Transaction("universal", "permit2", "argument", Call, code)
    BY <2>1, Zenon DEF UniswapV4SwapExactOut, Execute
  <2>2. t.to = "universal" /\ t.deadlineIn = "argument" /\ t.code = code
    <3> HIDE DEF code
    <3> QED  BY <2>c, FieldsOf
  <2> HIDE DEF t
  <2>3. CASE IsWrapCase(Call) /\ Call.nativeIn
    <3>1. t.code = V4Wrapped(Call, TRUE) \o << Unwrap(0, Call.payee) >>
      BY <2>2, <2>3, Zenon
    <3>2. WrappedV4Output
      BY <1>3, <2>3 DEF WrappedV4Output
    <3>3. WrapsFirst(t) /\ WrapsForCommand(t)
      BY <1>0, <2>3, <2>0, <3>1, <3>2, V4WrappedStarts, Zenon
    <3> QED  BY <2>2, <3>3 DEF Starts, t
  <2>4. CASE IsWrapCase(Call) /\ ~Call.nativeIn
    <3>1. t.code = V4Unwrapped(Call, ask.exactOut) /\ t.to # "slipstream"
      BY <2>0, <2>2, <2>4
    <3>2. StartsWithCommand(t)
      BY <1>0, <2>0, <2>4, <3>1, V4UnwrappedStarts
    <3> QED  BY <2>2, <3>2 DEF Starts, t
  <2>5. CASE ~IsWrapCase(Call)
    <3>1. t.code = V4Direct(Call, ask.exactOut)
      BY <2>0, <2>2, <2>5
    <3>2. Call.nativeIn => UnusedValue
      BY <1>3, <2>5 DEF UnusedValue
    <3>3. StartsWithCommand(t)
      BY <1>0, <2>0, <2>5, <3>1, <3>2, V4DirectStarts
    <3> QED  BY <2>2, <3>3 DEF Starts, t
  <2> QED  BY <2>3, <2>4, <2>5
<1>4. CASE kind = "Slipstream"
  <2>1. t = SlipstreamSwapExactOut(Call)
    BY <1>4 DEF PoolSwapExactOut
  <2>2. /\ t.code = PeripheryOut(Call, Router, Limited(Call)) /\ t.to = "slipstream"
        /\ t.deadlineIn = "params"
    BY <2>1, FieldsOf DEF SlipstreamSwapExactOut, SwapRouter02SwapExactOut, InMulticall
  <2> HIDE DEF t
  <2>3. StartsWithExchange(t)
    BY <1>0, <2>2, PeripheryOutStarts, Distinct
  <2> QED  BY <2>2, <2>3 DEF Starts, t
<1> QED  BY <1>1, <1>2, <1>3, <1>4

-----------------------------------------------------------------------------
(* The first hop of a Universal Router's span that the user pays for.      *)
LEMMA FirstHopStarts ==
  ASSUME ask \in Calls, ~Direct, ~ask.exactOut, Hops > 1, ~Call.nativeIn,
         NEW t, NEW place, Chains(t, place)
  PROVE  StartsWithExchange(t) \/ StartsWithCommand(t)
<1> DEFINE sells == Call.path[Hop(1)]
           buys == Call.path[Hop(1) + 1]
<1>1. /\ Hops \in Nat \ {0} /\ 1 \in 1..Hops /\ Hop(1) = Call.span.start + 1
      /\ Hop(1) < Call.span.end /\ Hop(1) # Call.span.end /\ Hop(2) = Hop(1) + 1
      /\ sells \in Asset /\ buys \in Asset /\ sells = SpanIn(Call)
      /\ HopJoined(Call, Hop(1))
  BY OneHop DEF Hop, SpanIn
<1>2. sells # buys
  BY <1>1 DEF HopJoined
<1>3. /\ PaidByUser(Call, Hop(1)) = TRUE /\ HopFloor(Call, Hop(1)) = 0
      /\ HopRecipient(Call, Hop(1)) = AddressThis
  BY <1>1 DEF PaidByUser, HopFloor, HopRecipient
<1>4. Asked = Call.amountIn /\ BoundOf(0) = 0 /\ ask.exactOut = FALSE
  BY EdgeTypes DEF Asked, BoundOf
<1>5. Payable(t, sells)
  BY <1>1 DEF Payable
<1>6. HopCode(1) = IF KindOf[Call.pools[Hop(1)]] = "UniswapV4"
                   THEN V4Hop(Call, Hop(1)) ELSE V2V3Hop(Call, Hop(1))
  BY HopCodeIs
<1>7. /\ place[1] = 1 /\ place[1 + 1] = place[1] + Len(HopCode(1))
      /\ place[1 + 1] <= Len(t.code) + 1 /\ Len(t.code) \in Nat
      /\ \A j \in 1..Len(HopCode(1)) : t.code[place[1] + j - 1] = HopCode(1)[j]
  BY <1>1 DEF Chains, HopCode
<1> HIDE DEF sells, buys
<1>8. ASSUME NEW at, at = place[1 + 1]
      PROVE  HopFollows(t, at, FALSE, AddressThis, buys, 0, FALSE)
  <2>1. place[2] = at
    BY <1>8
  <2> QED  BY <1>1, <2>1 DEF HopFollows, buys
<1>9. CASE KindOf[Call.pools[Hop(1)]] = "UniswapV4"
  <2> DEFINE swap == SwapV4(FALSE, sells, buys, Call.amountIn, 0)
             settle == SettleAll(sells, Call.amountIn)
             take == Take(buys, AddressThis)
  <2>1. HopCode(1) = << swap, settle, take, Close >>
    BY <1>3, <1>6, <1>9 DEF V4Hop, V4Command, sells, buys
  <2> HIDE DEF swap, settle, take
  <2>2. /\ Len(HopCode(1)) = 4 /\ HopCode(1)[1] = swap /\ HopCode(1)[2] = settle
        /\ HopCode(1)[3] = take /\ HopCode(1)[4] = Close
    BY <2>1
  <2>3. /\ Len(t.code) >= 1 + 3 /\ t.code[1] = swap /\ t.code[1 + 1] = settle
        /\ t.code[1 + 2] = take /\ t.code[1 + 3] = Close
    BY <1>7, <2>2
  <2>4. Commands(t, 1, sells, buys, 0, FALSE, AddressThis)
    <3>1. 1 \in {1, 2} /\ 0 \in Nat /\ FALSE \in BOOLEAN
      OBVIOUS
    <3> QED  BY <1>1, <1>2, <1>4, <1>5, <2>3, <3>1
             DEF Commands, swap, settle, take, sells, buys
  <2>5. HopFollows(t, 5, FALSE, AddressThis, buys, 0, FALSE)
    <3>1. 5 = place[1 + 1]
      BY <1>7, <2>2
    <3> QED  BY <1>8, <3>1
  <2> QED  BY <2>4, <2>5 DEF StartsWithCommand, Follows
<1>10. CASE KindOf[Call.pools[Hop(1)]] # "UniswapV4"
  <2> DEFINE first == Exchange(FALSE, sells, buys, Call.amountIn, 0, "User", AddressThis, FALSE)
  <2>1. HopCode(1) = << first >>
    BY <1>3, <1>6, <1>10 DEF V2V3Hop, sells, buys
  <2> HIDE DEF first
  <2>2. Len(HopCode(1)) = 1 /\ HopCode(1)[1] = first
    BY <2>1
  <2>3. Len(t.code) >= 1 /\ t.code[1] = first
    BY <1>7, <2>2
  <2>4. Exchanges1(t, sells, buys, 0, AddressThis, FALSE)
    <3>1. 0 \in Nat /\ FALSE \in BOOLEAN
      OBVIOUS
    <3> QED  BY <1>1, <1>4, <1>5, <2>3, <3>1 DEF Exchanges1, first, sells, buys
  <2>5. HopFollows(t, 2, FALSE, AddressThis, buys, 0, FALSE)
    <3>1. 2 = place[1 + 1]
      BY <1>7, <2>2
    <3> QED  BY <1>8, <3>1
  <2> QED  BY <2>4, <2>5 DEF StartsWithExchange, Follows
<1> QED  BY <1>9, <1>10

LEMMA SpanSwapStarts ==
  ASSUME ask \in Calls, ~Direct, ~ask.exactOut, ExactInVerdict(Call) = "Ok",
         Call.payee \in Account, ~(Call.nativeIn /\ Call.nativeOut)
  PROVE  /\ Starts(SpanSwap(Call))
         /\ Call.span.kind # "Curve" => SpanSwap(Call).deadlineIn # "none"
<1> DEFINE kind == Call.span.kind
           t == SpanSwap(Call)
<1>0. Hops \in Nat \ {0} /\ Call.span.kind \in RouterKind /\ Hops = SpanLen(Call.span)
  BY OneHop DEF Hops
<1>1. CASE Hops = 1
  <2>1. PoolAccepted
    BY <1>0, <1>1 DEF PoolAccepted, ExactInVerdict
  <2>2. SpanSwap(Call) = PoolSwap(Call)
    BY <1>0, <1>1 DEF SpanSwap
  <2> QED  BY <2>1, <2>2, PoolSwapStarts
<1>2. CASE Hops # 1
  <2>0. Hops > 1 /\ SpanLen(Call.span) # 1
    BY <1>0, <1>2
  <2>1. CASE kind = "UniswapUniversal"
    <3>1. t = Transaction("universal", "permit2", "argument", Call, UniswapCode(Call))
      BY <2>0, <2>1 DEF SpanSwap, UniswapSpan, Execute
    <3> HIDE DEF t
    <3>2. t.to = "universal" /\ t.code = UniswapCode(Call) /\ t.deadlineIn = "argument"
      BY <3>1, FieldsOf
    <3>3. PICK place : Chains(t, place)
      BY <2>0, <2>1, <3>2, UniversalChains
    <3>4. Call.nativeIn => WrapsFirst(t)
      BY <2>0, <2>1, <3>2, UniversalChains
    <3>5. Starts(t)
      <4>1. CASE Call.nativeIn
        BY <3>3, <3>4, <4>1 DEF Starts, WrapsForHops
      <4>2. CASE ~Call.nativeIn
        BY <2>0, <3>3, <4>2, FirstHopStarts DEF Starts
      <4> QED  BY <4>1, <4>2
    <3> QED  BY <3>2, <3>5 DEF t
  <2>2. CASE kind = "Aerodrome"
    <3> DEFINE code == PeripheryIn(Call, Router, FALSE)
    <3>1. t = Transaction("aerodrome", "aerodrome", "argument", Call, code)
      BY <2>0, <2>2 DEF SpanSwap, AerodromeSpan
    <3> HIDE DEF t, code
    <3>2. t.to = "aerodrome" /\ t.code = code /\ t.deadlineIn = "argument"
      BY <3>1, FieldsOf
    <3>3. StartsWithExchange(t)
      <4>1. Router \in {Router, AddressThis} /\ FALSE \in BOOLEAN
        OBVIOUS
      <4> QED  BY <3>2, <4>1, PeripheryInStarts, Distinct DEF code
    <3> QED  BY <3>2, <3>3 DEF Starts, t
  <2>3. CASE kind = "Slipstream"
    <3> DEFINE code == PeripheryIn(Call, AddressThis, FALSE)
    <3>1. t = Transaction("slipstream", "slipstream", "params", Call, code)
      BY <2>0, <2>3 DEF SpanSwap, SlipstreamSpan
    <3> HIDE DEF t, code
    <3>2. t.to = "slipstream" /\ t.code = code /\ t.deadlineIn = "params"
      BY <3>1, FieldsOf
    <3>3. StartsWithExchange(t)
      <4>1. AddressThis \in {Router, AddressThis} /\ FALSE \in BOOLEAN
        OBVIOUS
      <4> QED  BY <3>2, <4>1, PeripheryInStarts DEF code
    <3> QED  BY <3>2, <3>3 DEF Starts, t
  <2>4. CASE kind = "Curve"
    <3> DEFINE code == << ExchangeIn(Call, NATIVE, Call.payee, FALSE) >>
    <3>1. t = Transaction("curve", "curve", "none", Call, code)
      BY <2>0, <2>4 DEF SpanSwap, CurveSpan
    <3> HIDE DEF t, code
    <3>2. t.code = code
      BY <3>1, FieldsOf
    <3>3. StartsWithExchange(t)
      BY <3>2, CurveStarts DEF code
    <3> QED  BY <2>4, <3>3 DEF Starts, t
  <2> QED  BY <1>0, <2>1, <2>2, <2>3, <2>4 DEF RouterKind
<1> QED  BY <1>1, <1>2

LEMMA SpanSwapExactOutStarts ==
  ASSUME ask \in Calls, ~Direct, ask.exactOut, ExactOutVerdict(Call) = "Ok",
         Call.payee \in Account, ~(Call.nativeIn /\ Call.nativeOut)
  PROVE  Starts(SpanSwapExactOut(Call)) /\ SpanSwapExactOut(Call).deadlineIn # "none"
<1> DEFINE t == SpanSwapExactOut(Call)
<1>0. /\ Call.span.kind \in RouterKind /\ Hop(1) = Call.span.start + 1
      /\ ask.exactOut = TRUE
  BY OneHop, EdgeTypes DEF Hop
<1>1. CASE Call.span.kind = "UniswapUniversal"
  <2> DEFINE verdicts == UniswapExactOutChecks(Call)
             kinds == {KindOf[Call.pools[i]] : i \in SpanPools(Call)}
             v4 == kinds = {"UniswapV4"}
             native == Reject(Native(Call), "UnsupportedProtocol")
             one == Reject(Cardinality(kinds) > 1, "UnsupportedExactOut")
             single == Reject(v4 /\ SpanLen(Call.span) > 1, "UnsupportedExactOut")
  <2>1. FirstError(verdicts) = "Ok"
    BY <1>1 DEF ExactOutVerdict
  <2>2. PICK d, e, f, g : verdicts = << native, one, single, d, e, f, g >>
    BY Zenon DEF UniswapExactOutChecks
  <2>3. Len(verdicts) = 7 /\ verdicts[1] = native /\ verdicts[2] = one /\ verdicts[3] = single
    <3> HIDE DEF verdicts, native, one, single
    <3> QED  BY <2>2
  <2>4. native = "Ok" /\ one = "Ok" /\ single = "Ok"
    <3> HIDE DEF verdicts, native, one, single
    <3>1. Len(verdicts) \in Nat /\ {1, 2, 3} \subseteq 1..Len(verdicts)
      BY <2>3
    <3> QED  BY <2>1, <2>3, <3>1, AllOk
  <2>5. ~Call.nativeIn /\ ~Call.nativeOut
    BY <2>4 DEF Native, Reject
  <2>6. ~IsWrapCase(Call)
    BY <2>5 DEF IsWrapCase, Native
  <2> DEFINE code == UniswapCodeExactOut(Call)
  <2>7. t = Transaction("universal", "permit2", "argument", Call, code)
    BY <1>1 DEF SpanSwapExactOut, UniswapSpanExactOut, Execute
  <2> HIDE DEF t, code
  <2>8. t.to = "universal" /\ t.code = code /\ t.deadlineIn = "argument"
    BY <2>7, FieldsOf
  <2>9. CASE KindOf[FirstPool(Call)] = "UniswapV4"
    <3>1. t.code = V4Direct(Call, ask.exactOut)
      BY <1>0, <2>8, <2>9 DEF code, UniswapCodeExactOut
    <3>2. V4Sold(Call) # V4Bought(Call)
      <4>1. V4Sold(Call) = SpanIn(Call) /\ V4Bought(Call) = SpanOut(Call)
        BY <2>5 DEF V4Sold, V4Bought, Sold, Bought
      <4>2. Hops = 1
        <5>1. FirstPool(Call) = Call.pools[Hop(1)] /\ Hop(1) \in SpanPools(Call)
          BY <1>0, OneHop DEF FirstPool, SpanPools
        <5>2. "UniswapV4" \in kinds
          BY <2>9, <5>1
        <5>3. IsFiniteSet(kinds)
          <6> DEFINE versions == {"UniswapV2"} \cup ({"UniswapV3"} \cup {"UniswapV4"})
          <6>1. IsFiniteSet(versions)
            BY FS_Singleton, FS_Union
          <6>2. \A i \in SpanPools(Call) : KindOf[Call.pools[i]] \in versions
            <7> SUFFICES ASSUME NEW i \in SpanPools(Call)
                         PROVE  KindOf[Call.pools[i]] \in versions
              OBVIOUS
            <7> DEFINE k == i - Call.span.start
            <7>1. k \in 1..Hops /\ Hop(k) = i
              BY OneHop DEF SpanPools, Hop
            <7>2. RouterKindOf(Call.pools[i]) = "UniswapUniversal"
              BY <1>1, <7>1, OneHop
            <7> QED  BY <7>2 DEF RouterKindOf
          <6>3. kinds \in SUBSET versions
            BY <6>2
          <6> HIDE DEF kinds, versions
          <6> QED  BY <6>1, <6>3, FS_Subset
        <5>4. Cardinality(kinds) \in Nat /\ Cardinality(kinds) <= 1
          <6> HIDE DEF kinds
          <6> QED  BY <2>4, <5>3, FS_CardinalityType DEF one, Reject
        <5>5. kinds = {"UniswapV4"}
          <6> HIDE DEF kinds
          <6>1. {"UniswapV4"} \in SUBSET kinds /\ Cardinality({"UniswapV4"}) = 1
            BY <5>2, FS_Singleton
          <6> QED  BY <5>3, <5>4, <6>1, FS_Subset
        <5>6. ~(SpanLen(Call.span) > 1)
          <6> HIDE DEF kinds
          <6> QED  BY <2>4, <5>5 DEF single, v4, Reject
        <5> QED  BY <5>6, OneHop DEF Hops
      <4>3. Call.path[Hop(1)] # Call.path[Hop(1) + 1] /\ Hop(1) = Call.span.end
        BY <4>2, OneHop DEF HopJoined, Hop
      <4> QED  BY <1>0, <4>1, <4>3 DEF SpanIn, SpanOut
    <3>3. StartsWithCommand(t)
      BY <2>5, <2>6, <3>1, <3>2, V4DirectStarts
    <3> QED  BY <2>8, <3>3 DEF Starts, t
  <2>10. CASE KindOf[FirstPool(Call)] # "UniswapV4"
    <3> DEFINE first == ExchangeOut(Call, Call.payee, FALSE)
               sells == Sold(Call, WETH)
               buys == Bought(Call, WETH)
    <3>1. t.code = << first >>
      BY <2>8, <2>10 DEF code, UniswapCodeExactOut
    <3>2. /\ sells \in Asset /\ buys \in Asset /\ Call.minOut \in Nat
          /\ sells = SpanIn(Call) /\ buys = OutputAsset
      BY <2>5, PeripheryEdges
    <3>3. first = Exchange(ask.exactOut, sells, buys, Asked, BoundOf(Call.minOut), "User",
                           Call.payee, FALSE)
      BY <1>0 DEF ExchangeOut, Asked, BoundOf
    <3> HIDE DEF first, sells, buys
    <3>4. Len(t.code) + 1 = 2 /\ Len(t.code) >= 1 /\ t.code[1] = first /\ FALSE \in BOOLEAN
      BY <3>1
    <3>5. Exchanges1(t, sells, buys, Call.minOut, Call.payee, FALSE)
      <4>1. Payable(t, sells)
        BY <2>5, <3>2 DEF Payable
      <4> QED  BY <3>2, <3>3, <3>4, <4>1 DEF Exchanges1
    <3>6. NothingFollows(t, 2, FALSE, Call.payee, buys, Call.minOut, FALSE)
      BY <2>5, <3>2, <3>4 DEF NothingFollows
    <3>7. StartsWithExchange(t)
      BY <3>5, <3>6 DEF StartsWithExchange, Follows
    <3> QED  BY <2>8, <3>7 DEF Starts, t
  <2> QED  BY <2>9, <2>10
<1>2. CASE Call.span.kind = "Slipstream"
  <2> DEFINE code == PeripheryOut(Call, AddressThis, FALSE)
  <2>1. t = Transaction("slipstream", "slipstream", "params", Call, code)
    BY <1>2 DEF SpanSwapExactOut, SlipstreamSpanExactOut
  <2> HIDE DEF t, code
  <2>2. t.to = "slipstream" /\ t.code = code /\ t.deadlineIn = "params"
    BY <2>1, FieldsOf
  <2>3. StartsWithExchange(t)
    <3>1. AddressThis \in {Router, AddressThis} /\ FALSE \in BOOLEAN
      OBVIOUS
    <3> QED  BY <2>2, <3>1, PeripheryOutStarts DEF code
  <2> QED  BY <2>2, <2>3 DEF Starts, t
<1>3. CASE Call.span.kind \notin {"UniswapUniversal", "Slipstream"}
  <2> DEFINE verdicts == << "UnsupportedProtocol" >>
  <2>1. FirstError(verdicts) = "Ok"
    BY <1>3 DEF ExactOutVerdict
  <2>2. Len(verdicts) = 1 /\ verdicts[1] = "UnsupportedProtocol"
    OBVIOUS
  <2> HIDE DEF verdicts
  <2>3. Len(verdicts) \in Nat /\ 1 \in 1..Len(verdicts)
    BY <2>2
  <2>4. verdicts[1] = "Ok"
    BY <2>1, <2>3, AllOk
  <2> QED  BY <2>2, <2>4
<1> QED  BY <1>1, <1>2, <1>3

LEMMA EncodedStarts ==
  ASSUME ask \in Calls, opts \in EncoderOptions, ~Direct => Resolved(opts) = "Ok",
         EncoderVerdict = "Ok"
  PROVE  Starts(Encoded) /\ Addressed(Encoded)
<1>0. /\ ask.exactOut \in BOOLEAN /\ ask.entry \in {"pool", "span"} /\ ask.call \in EncoderCall
      /\ ask.entry = "span" => ~(ask.call.nativeIn /\ ask.call.nativeOut)
  BY SettlementAssumption, CallsAssumption
<1>1. CASE Direct
  <2>1. /\ PoolAccepted
        /\ ask.exactOut => KindOf[FirstPool(Call)]
                             \in {"UniswapV2", "UniswapV3", "UniswapV4", "Slipstream"}
    BY <1>1, DirectAccepted
  <2>2. CASE ask.exactOut
    <3>1. Encoded = PoolSwapExactOut(Call)
      BY <1>1, <2>2 DEF Encoded, Direct
    <3> QED  BY <1>1, <2>1, <2>2, <3>1, PoolSwapExactOutStarts DEF Addressed, PoolAccepted
  <2>3. CASE ~ask.exactOut
    <3>1. Encoded = PoolSwap(Call)
      BY <1>1, <2>3 DEF Encoded, Direct
    <3> QED  BY <2>1, <2>3, <3>1, PoolSwapStarts DEF Addressed, PoolAccepted
  <2> QED  BY <2>2, <2>3
<1>2. CASE ~Direct
  <2>0. ask.entry = "span"
    BY <1>0, <1>2 DEF Direct
  <2>1. ~(Call.nativeIn /\ Call.nativeOut)
    BY <1>0, <2>0 DEF Call, EncoderCall
  <2>2. Call.payee \in Account
    <3>1. opts.recipient # TheSender
      BY <1>2 DEF Resolved
    <3> QED  BY <3>1, EdgeTypes DEF EncoderOptions
  <2>3. CASE ask.exactOut
    <3>1. Encoded = SpanSwapExactOut(Call) /\ ExactOutVerdict(Call) = "Ok"
      BY <1>2, <2>3 DEF Encoded, EncoderVerdict, Direct
    <3> QED  BY <1>2, <2>1, <2>2, <2>3, <3>1, SpanSwapExactOutStarts DEF Addressed
  <2>4. CASE ~ask.exactOut
    <3>1. Encoded = SpanSwap(Call) /\ ExactInVerdict(Call) = "Ok"
      BY <1>2, <2>4 DEF Encoded, EncoderVerdict, Direct
    <3> QED  BY <1>2, <2>1, <2>2, <2>4, <3>1, SpanSwapStarts DEF Addressed
  <2> QED  BY <2>3, <2>4
<1> QED  BY <1>1, <1>2

-----------------------------------------------------------------------------
(* How far a running transaction is, at place p of t with funds f, deltas  *)
(* d and what is left of the allowance.                                    *)

(* The amount the sender paid, of which took were traded; the rest is with *)
(* the router, as the ETH that was sent or as what was wrapped of it.      *)
Spent(f, wrapped, took) ==
  Books(f, IF Call.nativeIn THEN Call.amountIn ELSE took, 0, 0,
        IF Call.nativeIn /\ ~wrapped THEN Call.amountIn - took ELSE 0,
        WETH, IF wrapped THEN Call.amountIn - took ELSE 0, 0)

Ready(f, wrapped, left) ==
  Spent(f, wrapped, 0) /\ (~wrapped => left = Call.amountIn - Value)

(* The amounts of a trade that kept to its bounds.                         *)
Struck(took, gave, floor, stops) ==
  /\ took \in 0..Call.amountIn /\ gave \in 1..MaxPayout
  /\ IF ask.exactOut
     THEN IF stops THEN gave <= Call.minOut ELSE gave = Call.minOut
     ELSE gave >= floor /\ (~stops => took = Call.amountIn)

(* What the pool manager is owed and owes.                                 *)
Owed(sells, took, buys, gave) ==
  [asset \in Asset |-> IF asset = sells THEN -took ELSE IF asset = buys THEN gave ELSE 0]

(* Less than the input may be taken.                                       *)
TookEnough(spent) ==
  /\ spent \in 0..Call.amountIn
  /\ spent < Call.amountIn =>
       ask.exactOut \/ (Limited(Call) /\ Hops = 1 /\ ~Call.nativeIn)

GaveEnough(got) ==
  /\ got \in 0..MaxPayout
  /\ IF ask.exactOut
     THEN got <= Call.minOut /\ (got < Call.minOut => LimitedOutput /\ ~Call.nativeOut)
     ELSE got >= Call.minOut

Astray(t, res) == t.to = "slipstream" /\ ~Direct /\ Call.nativeOut /\ ~res

(* The end.                                                                *)
Done(t, res, f) ==
  \E spent \in Nat, got \in Nat, back \in Nat, value \in Nat, stray \in Nat :
    /\ TookEnough(spent) /\ GaveEnough(got) /\ spent + back <= Call.amountIn
    /\ back > 0 => WrappedV4Output
    /\ value > 0 => UnusedValue
    /\ stray > 0 => Astray(t, res) /\ Call.minOut = 0
    /\ Books(f, spent + back, got, back, value, WETH, 0, stray)

Ended(t, res, p, f) == p = Len(t.code) + 1 /\ Done(t, res, f)

Unwraps(t, res, p, f) ==
  /\ p = Len(t.code) /\ t.code[p] = Unwrap(Call.minOut, Call.payee)
  /\ Call.nativeOut /\ ~Call.nativeIn
  /\ \E spent \in Nat, raw \in Nat, stray \in Nat :
       /\ TookEnough(spent) /\ raw \in 0..MaxPayout
       /\ Books(f, spent, 0, 0, 0, WETH, raw, stray)
       /\ \/ /\ stray = 0
             /\ IF ask.exactOut THEN raw <= Call.minOut /\ (raw < Call.minOut => LimitedOutput)
                ELSE raw >= Call.minOut
          \/ raw = 0 /\ Astray(t, res)

GivesChange(t, p, f) ==
  /\ p = Len(t.code) /\ t.code[p] = Unwrap(0, Call.payee)
  /\ ask.exactOut /\ WrappedV4Output
  /\ \E took \in 0..Call.amountIn :
       Books(f, Call.amountIn, Call.minOut, 0, 0, WETH, Call.amountIn - took, 0)

Refunds(t, p, f) ==
  /\ p = Len(t.code) /\ t.code[p] = Refund
  /\ ask.exactOut /\ Call.nativeIn
  /\ \E took \in 0..Call.amountIn, got \in Nat :
       /\ GaveEnough(got)
       /\ Books(f, Call.amountIn, got, 0, Call.amountIn - took, WETH, 0, 0)

(* A hop the router pays for.  One through a V4 pool cannot be paid.       *)
HopsOn(t, p, f) ==
  \E place : \E k \in 1..Hops :
    /\ Chains(t, place) /\ p = place[k]
    /\ k = 1 => Call.nativeIn
    /\ KindOf[Call.pools[Hop(k)]] # "UniswapV4" =>
         \E raw \in Nat \ {0} : Books(f, Call.amountIn, 0, 0, 0, Call.path[Hop(k)], raw, 0)

After(t, res, p, f) ==
  \/ Ended(t, res, p, f) \/ Unwraps(t, res, p, f)
  \/ GivesChange(t, p, f) \/ Refunds(t, p, f) \/ HopsOn(t, p, f)

(* Before the exchange, and in the four phases of a V4 command.            *)
Wraps(t, p, f, left) ==
  /\ p = 1 /\ WrapsFirst(t) /\ (WrapsForCommand(t) \/ WrapsForHops(t))
  /\ Ready(f, FALSE, left)

Exchanging(t, p, f, left) ==
  p = 1 /\ StartsWithExchange(t) /\ Ready(f, FALSE, left)

InCommand(t, at, sells, buys, floor, wrapped, to) ==
  /\ Commands(t, at, sells, buys, floor, wrapped, to)
  /\ Follows(t, at + 4, wrapped, to, buys, floor, FALSE)

Swapping(t, p, f, d, left) ==
  \E sells, buys, floor, wrapped, to :
    /\ InCommand(t, p, sells, buys, floor, wrapped, to)
    /\ d = NoDelta /\ Ready(f, wrapped, left)

Settling(t, p, f, d, left) ==
  \E at, sells, buys, floor, wrapped, to, took, gave :
    /\ p = at + 1 /\ InCommand(t, at, sells, buys, floor, wrapped, to)
    /\ Struck(took, gave, floor, FALSE)
    /\ d = Owed(sells, took, buys, gave) /\ Ready(f, wrapped, left)

Taking(t, p, f, d) ==
  \E at, sells, buys, floor, wrapped, to, took, gave :
    /\ p = at + 2 /\ InCommand(t, at, sells, buys, floor, wrapped, to)
    /\ Struck(took, gave, floor, FALSE)
    /\ d = Owed(sells, 0, buys, gave) /\ Spent(f, wrapped, took)

Closing(t, res, p, f, d) ==
  /\ p \in {4, 5} /\ p <= Len(t.code) /\ t.code[p] = Close
  /\ d = NoDelta /\ After(t, res, p + 1, f)

Stage(t, res, p, f, d, left) ==
  \/ d = NoDelta /\ (Wraps(t, p, f, left) \/ Exchanging(t, p, f, left) \/ After(t, res, p, f))
  \/ Swapping(t, p, f, d, left) \/ Settling(t, p, f, d, left)
  \/ Taking(t, p, f, d) \/ Closing(t, res, p, f, d)

(* None of it changes while the question and the options do not.           *)
LEMMA StageKept ==
  ASSUME ask' = ask, opts' = opts
  PROVE  \A t, res, p, f, d, left : Stage(t, res, p, f, d, left)' <=> Stage(t, res, p, f, d, left)
BY DEF Stage, Wraps, Exchanging, After, Swapping, Settling, Taking, Closing, InCommand,
       HopsOn, Refunds, GivesChange, Unwraps, Ended, Done, Astray, GaveEnough, TookEnough,
       Owed, Struck, Ready, Spent, Books, Accounts, Holds, Strayed, Value, Sender, Funded,
       InputAsset, OutputAsset, Call, Direct, LimitedOutput, UnusedValue, WrappedV4Output,
       Asked, BoundOf, Payable, Exchanges1, Commands, Hops, Hop, Chains, NothingFollows,
       RefundFollows, ChangeFollows, UnwrapFollows, HopFollows, Follows, StartsWithExchange,
       StartsWithCommand, WrapsFirst, WrapsForCommand, WrapsForHops, NoDelta

-----------------------------------------------------------------------------
(* A running transaction either is at a stage again or fails for a cause.  *)

Serving ==
  /\ ask \in Calls /\ opts \in EncoderOptions /\ status = "Running" /\ ~Late
  /\ TakesTheInput(tx, Call) /\ Addressed(tx)

CauseOf(reason) ==
  \/ reason \in {"TooLittle", "TooMuch"}
  \/ reason = "Expired" /\ clock > opts.deadline.at
  \/ ChainedV4 /\ reason = "ZeroSwap"
  \/ Astray(tx, resolves) /\ reason = "NothingToUnwrap"
  \/ LimitedOutput /\ Call.nativeOut /\ reason = "NothingToUnwrap"

Advances ==
  /\ UNCHANGED <<ask, opts, answer, tx, status, why, resolves, clock>>
  /\ Stage(tx, resolves, pc', funds', delta', allowance')
FailsRightly == \E reason : Revert(reason) /\ CauseOf(reason)
Moves == Advances \/ FailsRightly

LEMMA OnlyOp ==
  ASSUME status = "Running", ~Late, pc <= Len(tx.code), Instruction \in Decodable, Next
  PROVE  /\ Instruction.op = "Exchange" /\ ~Instruction.exactOut => ExchangeExactIn
         /\ Instruction.op = "Exchange" /\ Instruction.exactOut => ExchangeExactOut
         /\ Instruction.op = "SwapV4" /\ ~Instruction.exactOut => SwapV4ExactIn
         /\ Instruction.op = "SwapV4" /\ Instruction.exactOut => SwapV4ExactOut
         /\ Instruction.op = "Wrap" => WrapETH
         /\ Instruction.op = "Unwrap" => UnwrapWETH
         /\ Instruction.op = "Refund" => RefundETH
         /\ Instruction.op \in {"SettleAll", "SettleFromRouter"} => SettleDebt
         /\ Instruction.op = "Take" => TakeCredit
         /\ Instruction.op = "Close" => CloseManager
<1>1. Running  BY DEF Running
<1>2. ~HandOver /\ ~Tick /\ ~Refuse /\ ~Send /\ ~Expire
  BY DEF HandOver, Tick, Refuse, Send, Expire
<1>3. ~Finish
  BY <1>1 DEF Finish
<1>4. /\ ExchangeExactIn => Instruction.op = "Exchange" /\ ~Instruction.exactOut
      /\ ExchangeExactOut => Instruction.op = "Exchange" /\ Instruction.exactOut
      /\ SwapV4ExactIn => Instruction.op = "SwapV4" /\ ~Instruction.exactOut
      /\ SwapV4ExactOut => Instruction.op = "SwapV4" /\ Instruction.exactOut
      /\ WrapETH => Instruction.op = "Wrap"
      /\ UnwrapWETH => Instruction.op = "Unwrap"
      /\ RefundETH => Instruction.op = "Refund"
  BY DEF ExchangeExactIn, ExchangeExactOut, SwapV4ExactIn, SwapV4ExactOut, WrapETH,
         UnwrapWETH, RefundETH, At
<1>5. /\ SettleDebt => Instruction.op \in {"SettleAll", "SettleFromRouter"}
      /\ TakeCredit => Instruction.op = "Take"
      /\ CloseManager => Instruction.op = "Close"
  BY DEF SettleDebt, TakeCredit, CloseManager, At
<1> QED  BY <1>2, <1>3, <1>4, <1>5, Zenon DEF Next

(* What the encoders write can be decoded.                                 *)
LEMMA Decodes ==
  /\ \A amount \in Nat : Wrap(amount) \in Decodable
  /\ \A least \in Nat, to \in Account : Unwrap(least, to) \in Decodable
  /\ Refund \in Decodable /\ Close \in Decodable
  /\ \A asset \in Asset : SettleFromRouter(asset) \in Decodable
  /\ \A asset \in Asset, most \in Nat : SettleAll(asset, most) \in Decodable
  /\ \A asset \in Asset, to \in Holder : Take(asset, to) \in Decodable
<1>1. \A amount \in Nat : Wrap(amount) \in Decodable
  BY DEF Wrap, Decodable
<1>2. \A least \in Nat, to \in Account : Unwrap(least, to) \in Decodable
  BY DEF Unwrap, Decodable
<1>3. Refund \in Decodable /\ Close \in Decodable
  BY DEF Refund, Close, Decodable
<1>4. \A asset \in Asset : SettleFromRouter(asset) \in Decodable
  BY DEF SettleFromRouter, Decodable
<1>5. \A asset \in Asset, most \in Nat : SettleAll(asset, most) \in Decodable
  BY DEF SettleAll, Decodable
<1>6. \A asset \in Asset, to \in Holder : Take(asset, to) \in Decodable
  BY DEF Take, Decodable
<1> QED  BY <1>1, <1>2, <1>3, <1>4, <1>5, <1>6

LEMMA DecodesSwap ==
  ASSUME NEW exactOut \in BOOLEAN, NEW sells \in Asset, NEW buys \in Asset,
         NEW amount \in Nat, NEW bound \in Nat
  PROVE  SwapV4(exactOut, sells, buys, amount, bound) \in Decodable
BY DEF SwapV4, Decodable

LEMMA DecodesExchange ==
  ASSUME NEW exactOut \in BOOLEAN, NEW sells \in Asset, NEW buys \in Asset,
         NEW amount, NEW bound \in Nat, NEW payer \in {"User", "Router"},
         NEW to \in Holder, NEW stops \in BOOLEAN,
         amount \in Nat \/ (amount = CONTRACT_BALANCE /\ ~exactOut)
  PROVE  Exchange(exactOut, sells, buys, amount, bound, payer, to, stops) \in Decodable
<1> DEFINE i == Exchange(exactOut, sells, buys, amount, bound, payer, to, stops)
<1>1. CASE exactOut = TRUE
  <2>1. i \in Exchanges(TRUE, Nat)
    BY <1>1 DEF Exchange, Exchanges
  <2> HIDE DEF i
  <2> QED  BY <2>1 DEF Decodable, i
<1>2. CASE exactOut = FALSE
  <2>1. i \in Exchanges(FALSE, Nat \cup {CONTRACT_BALANCE})
    BY <1>2 DEF Exchange, Exchanges
  <2> HIDE DEF i
  <2> QED  BY <2>1 DEF Decodable, i
<1> QED  BY <1>1, <1>2

(* Whoever an output goes to.                                              *)
LEMMA FollowsTo ==
  ASSUME ask \in Calls, Call.payee \in Account,
         NEW t, NEW next, NEW wrapped, NEW to, NEW buys, NEW floor, NEW stops,
         Follows(t, next, wrapped, to, buys, floor, stops)
  PROVE  to \in Holder
BY Distinct DEF Follows, NothingFollows, RefundFollows, ChangeFollows, UnwrapFollows, HopFollows

LEMMA AskedIs ==
  ASSUME ask \in Calls
  PROVE  /\ Asked \in 1..MaxPayout /\ Asked \in Nat /\ Asked # 0 /\ Asked # CONTRACT_BALANCE
         /\ Call.amountIn \in Nat /\ MaxPayout \in Nat /\ Call.amountIn >= 1
         /\ \A floor \in Nat : BoundOf(floor) \in Nat
         /\ ask.exactOut => Asked = Call.minOut /\ \A floor : BoundOf(floor) = Call.amountIn
         /\ ~ask.exactOut => Asked = Call.amountIn /\ \A floor : BoundOf(floor) = floor
BY EdgeTypes, Distinct DEF Asked, BoundOf, CONTRACT_BALANCE

(* The sender can pay for any part of the input.                           *)
LEMMA UserPays ==
  ASSUME Serving, Ready(funds, FALSE, allowance),
         NEW sells \in Asset, Payable(tx, sells), NEW took \in 0..Call.amountIn
  PROVE  /\ PayError("User", sells, took) = "Ok"
         /\ Spent(Paid("User", sells, took), FALSE, took)
<1> DEFINE amountIn == Call.amountIn
<1>0. /\ ask \in Calls /\ amountIn \in Nat /\ amountIn >= 1 /\ Call.nativeIn \in BOOLEAN
      /\ took \in Nat /\ took <= amountIn
      /\ WETH \in Asset /\ NATIVE \in Asset /\ WETH # NATIVE
      /\ tx.value = IF Call.nativeIn THEN amountIn ELSE 0
      /\ tx.approval.asset = IF Call.nativeIn THEN WETH ELSE SpanIn(Call)
  BY AskedIs, EdgeTypes, Distinct DEF Serving, TakesTheInput
<1>1. CASE Call.nativeIn
  <2>1. Books(funds, amountIn, 0, 0, amountIn, WETH, 0, 0)
    <3>1. Spent(funds, FALSE, 0)
      BY DEF Ready
    <3>2. amountIn - 0 = amountIn
      BY <1>0
    <3> QED  BY <1>1, <3>1, <3>2 DEF Spent
  <2>2. /\ funds[Router][NATIVE] = amountIn
        /\ Books(Lose(funds, Router, NATIVE, took), amountIn, 0, 0, amountIn - took, WETH, 0, 0)
    <3> HIDE DEF amountIn
    <3> QED  BY <1>0, <2>1, RouterLosesValue
  <2>3. Spent(Lose(funds, Router, NATIVE, took), FALSE, took)
    BY <1>1, <2>2 DEF Spent
  <2>4. PayError("User", sells, took) = "Ok" /\ Paid("User", sells, took) = Lose(funds, Router, NATIVE, took)
    <3>1. CASE sells = NATIVE
      <4>1. FromRouter("User", sells)
        BY <3>1 DEF FromRouter
      <4>2. ~(Held(sells) < took)
        BY <1>0, <2>2, <3>1 DEF Held
      <4> QED  BY <3>1, <4>1, <4>2 DEF PayError, Paid, Reject
    <3>2. CASE sells # NATIVE
      <4>1. sells = WETH /\ tx.to # "universal"
        BY <1>1, <3>2 DEF Payable
      <4>2. ~FromRouter("User", sells)
        BY <3>2 DEF FromRouter
      <4>3. tx.value > 0 /\ Held(NATIVE) >= took
        BY <1>0, <1>1, <2>2 DEF Held
      <4>4. FromValue("User", sells, took)
        BY <4>1, <4>3 DEF FromValue
      <4> QED  BY <4>2, <4>4 DEF PayError, Paid
    <3> QED  BY <3>1, <3>2
  <2> QED  BY <2>3, <2>4
<1>2. CASE ~Call.nativeIn
  <2>1. Books(funds, 0, 0, 0, 0, WETH, 0, 0)
    <3>1. Spent(funds, FALSE, 0)
      BY DEF Ready
    <3> QED  BY <1>2, <3>1 DEF Spent
  <2>2. /\ sells = SpanIn(Call) /\ InputAsset = sells /\ sells # NATIVE /\ Sender \in Account
        /\ Savings \in Nat /\ allowance = amountIn
    BY <1>0, <1>2, EdgeTypes, Distinct DEF Payable, Ready, Value
  <2>3. funds[Sender][InputAsset] = Savings + amountIn
    <3>1. Funded[Sender][InputAsset] = Savings + amountIn /\ Funded[Sender][InputAsset] \in Nat
      <4>1. Funded[Sender][InputAsset] = Savings + ask.call.amountIn
        BY <1>0, <2>2, FundedCovers DEF Sender
      <4> QED  BY <1>0, <2>2, <4>1, EdgeTypes
    <3>2. funds[Sender][InputAsset] = Funded[Sender][InputAsset]
            + (IF Sender = Call.payee /\ InputAsset = OutputAsset THEN 0 ELSE 0)
            + (IF Sender = Call.payee /\ InputAsset = InputAsset THEN 0 ELSE 0)
            - (IF Sender = Sender /\ InputAsset = InputAsset THEN 0 ELSE 0)
      BY <2>1, <2>2 DEF Books, Accounts
    <3> QED  BY <3>1, <3>2
  <2>4. ~FromRouter("User", sells) /\ ~FromValue("User", sells, took)
    <3>1. ~(tx.value > 0)
      BY <1>0, <1>2
    <3> QED  BY <2>2, <3>1 DEF FromRouter, FromValue
  <2>5. PayError("User", sells, took) = "Ok"
    <3>1. ~(tx.approval.asset # sells \/ allowance < took)
      BY <1>0, <1>2, <2>2
    <3>2. ~(funds[ask.call.sender][sells] < took)
      BY <1>0, <2>2, <2>3 DEF Sender
    <3>3. FirstError(<<"Ok", "Ok">>) = "Ok"
      BY DEF FirstError
    <3> QED  BY <2>4, <3>1, <3>2, <3>3 DEF PayError, Reject
  <2>6. Paid("User", sells, took) = Lose(funds, Sender, InputAsset, took)
    BY <2>2, <2>4 DEF Paid, Sender
  <2>7. Books(Lose(funds, Sender, InputAsset, took), 0 + took, 0, 0, 0, WETH, 0, 0)
    <3>1. took <= funds[Sender][InputAsset]
      BY <1>0, <2>2, <2>3
    <3> QED  BY <1>0, <2>1, <3>1, SenderPays
  <2>8. 0 + took = took
    BY <1>0
  <2> QED  BY <1>2, <2>5, <2>6, <2>7, <2>8 DEF Spent
<1> QED  BY <1>1, <1>2

(* What was wrapped pays for any part of the input.                        *)
LEMMA WrappedPays ==
  ASSUME Serving, Ready(funds, TRUE, allowance), Call.nativeIn, NEW took \in 0..Call.amountIn
  PROVE  /\ PayError("Router", WETH, took) = "Ok"
         /\ Spent(Paid("Router", WETH, took), TRUE, took)
<1> DEFINE amountIn == Call.amountIn
<1>0. /\ ask \in Calls /\ amountIn \in Nat /\ took \in Nat /\ took <= amountIn
      /\ WETH \in Asset /\ WETH # NATIVE
  BY AskedIs, Distinct DEF Serving
<1>1. Books(funds, amountIn, 0, 0, 0, WETH, amountIn, 0)
  <2>1. Spent(funds, TRUE, 0)
    BY DEF Ready
  <2>2. amountIn - 0 = amountIn
    BY <1>0
  <2> QED  BY <2>1, <2>2 DEF Spent
<1>2. /\ funds[Router][WETH] = amountIn
      /\ Books(Lose(funds, Router, WETH, took), amountIn, 0, 0, 0, WETH, amountIn - took, 0)
  <2> HIDE DEF amountIn
  <2> QED  BY <1>0, <1>1, RouterLosesAsset
<1>3. ~(Held(WETH) < took)
  BY <1>0, <1>2 DEF Held
<1>4. FromRouter("Router", WETH)
  BY DEF FromRouter
<1> QED  BY <1>2, <1>3, <1>4 DEF PayError, Paid, Reject, Spent

LEMMA NamedIs ==
  /\ Call.payee \in Account => Named(Call.payee) = Call.payee
  /\ Named(Router) = Router
  /\ tx.to # "slipstream" \/ resolves => Named(AddressThis) = Router
  /\ ~(tx.to # "slipstream" \/ resolves) => Named(AddressThis) = AddressThis
BY Distinct DEF Named

(* A trade pays out, and the rest of the transaction follows.              *)
LEMMA Delivers ==
  ASSUME Serving, NEW f, NEW wrapped \in BOOLEAN, NEW took, NEW gave, NEW floor \in Nat,
         NEW stops \in BOOLEAN, NEW to, NEW buys \in Asset, NEW next,
         Spent(f, wrapped, took), Struck(took, gave, floor, stops),
         Follows(tx, next, wrapped, to, buys, floor, stops),
         wrapped => Call.nativeIn /\ ~stops
  PROVE  After(tx, resolves, next, Receive(f, Named(to), buys, gave))
<1> DEFINE amountIn == Call.amountIn
           paid == IF Call.nativeIn THEN amountIn ELSE took
           value == IF Call.nativeIn /\ ~wrapped THEN amountIn - took ELSE 0
           rest == IF wrapped THEN amountIn - took ELSE 0
           g == Receive(f, Named(to), buys, gave)
<1>0. /\ ask \in Calls /\ amountIn \in Nat /\ Call.minOut \in Nat /\ MaxPayout \in Nat
      /\ Call.payee \in Account /\ ~(Call.nativeIn /\ Call.nativeOut)
      /\ Call.nativeIn \in BOOLEAN /\ ask.exactOut \in BOOLEAN
      /\ WETH \in Asset /\ WETH # NATIVE
  BY EdgeTypes, Distinct DEF Serving, Addressed
<1>1. /\ took \in Nat /\ took <= amountIn /\ gave \in Nat /\ gave >= 1 /\ gave <= MaxPayout
      /\ ask.exactOut /\ stops => gave <= Call.minOut
      /\ ask.exactOut /\ ~stops => gave = Call.minOut
      /\ ~ask.exactOut => gave >= floor
      /\ ~ask.exactOut /\ ~stops => took = amountIn
  BY <1>0 DEF Struck
<1>2. /\ paid \in Nat /\ paid <= amountIn /\ value \in Nat /\ rest \in Nat
  BY <1>0, <1>1
<1>3. Books(f, paid, 0, 0, value, WETH, rest, 0)
  BY DEF Spent
<1>4. ASSUME to = Call.payee, buys = OutputAsset
      PROVE  Books(g, paid, gave, 0, value, WETH, rest, 0)
  <2>1. g = Receive(f, Call.payee, OutputAsset, gave)
    BY <1>0, <1>4, NamedIs
  <2>2. Books(Receive(f, Call.payee, OutputAsset, gave), paid, 0 + gave, 0, value, WETH, rest, 0)
    <3> HIDE DEF paid, value, rest
    <3> QED  BY <1>0, <1>1, <1>2, <1>3, PayeeGets
  <2>3. 0 + gave = gave
    BY <1>1
  <2> QED  BY <2>1, <2>2, <2>3
<1> HIDE DEF g
<1>5. CASE NothingFollows(tx, next, wrapped, to, buys, floor, stops)
  <2>1. /\ Len(tx.code) + 1 = next /\ to = Call.payee /\ buys = OutputAsset /\ floor = Call.minOut
        /\ stops => IF ask.exactOut THEN LimitedOutput /\ ~Call.nativeOut
                    ELSE Limited(Call) /\ Hops = 1
        /\ ask.exactOut /\ Call.nativeIn => ~wrapped /\ UnusedValue
    BY <1>5 DEF NothingFollows
  <2>2. rest = 0
    BY <1>0, <1>1, <2>1
  <2>3. Books(g, paid + 0, gave, 0, value, WETH, 0, 0)
    <3>1. Books(g, paid, gave, 0, value, WETH, rest, 0)
      BY <1>4, <2>1
    <3>2. paid + 0 = paid
      BY <1>2
    <3> QED  BY <2>2, <3>1, <3>2
  <2>4. TookEnough(paid)
    BY <1>0, <1>1, <1>2, <2>1 DEF TookEnough
  <2>5. GaveEnough(gave)
    BY <1>0, <1>1, <2>1 DEF GaveEnough
  <2>6. value > 0 => UnusedValue
    <3> SUFFICES ASSUME value > 0 PROVE UnusedValue
      OBVIOUS
    <3>1. Call.nativeIn /\ ~wrapped /\ took # amountIn
      BY <1>0, <1>1
    <3>2. CASE ask.exactOut
      BY <2>1, <3>1, <3>2
    <3>3. CASE ~ask.exactOut
      <4>1. Limited(Call) /\ Hops = 1
        BY <1>1, <2>1, <3>1, <3>3
      <4> QED  BY <3>1, <3>3, <4>1 DEF UnusedValue, Hops
    <3> QED  BY <3>2, <3>3
  <2> HIDE DEF paid, value
  <2>7. Done(tx, resolves, g)
    <3>1. /\ 0 \in Nat /\ paid + 0 <= amountIn
          /\ 0 > 0 => WrappedV4Output
          /\ 0 > 0 => Astray(tx, resolves) /\ Call.minOut = 0
      BY <1>0, <1>2
    <3> QED  BY <1>1, <1>2, <2>3, <2>4, <2>5, <2>6, <3>1 DEF Done
  <2> QED  BY <2>1, <2>7 DEF After, Ended, g
<1>6. CASE RefundFollows(tx, next, wrapped, to, buys, floor, stops)
  <2>1. /\ Len(tx.code) = next /\ tx.code[next] = Refund
        /\ to = Call.payee /\ buys = OutputAsset
        /\ ask.exactOut /\ Call.nativeIn /\ ~wrapped
        /\ stops => LimitedOutput /\ ~Call.nativeOut
    BY <1>6 DEF RefundFollows
  <2>2. paid = amountIn /\ value = amountIn - took /\ rest = 0
    BY <2>1
  <2>3. Books(g, amountIn, gave, 0, amountIn - took, WETH, 0, 0)
    BY <1>4, <2>1, <2>2
  <2>4. GaveEnough(gave)
    BY <1>0, <1>1, <2>1 DEF GaveEnough
  <2>5. took \in 0..Call.amountIn
    BY <1>0, <1>1
  <2> QED  BY <1>1, <2>1, <2>3, <2>4, <2>5 DEF After, Refunds, g
<1>7. CASE ChangeFollows(tx, next, wrapped, to, buys, floor, stops)
  <2>1. /\ Len(tx.code) = next /\ tx.code[next] = Unwrap(0, Call.payee)
        /\ to = Call.payee /\ buys = OutputAsset
        /\ ask.exactOut /\ WrappedV4Output /\ wrapped /\ ~stops
    BY <1>7 DEF ChangeFollows
  <2>2. paid = amountIn /\ value = 0 /\ rest = amountIn - took /\ gave = Call.minOut
    BY <1>1, <2>1
  <2>3. Books(g, amountIn, Call.minOut, 0, 0, WETH, amountIn - took, 0)
    BY <1>4, <2>1, <2>2
  <2>5. took \in 0..Call.amountIn
    BY <1>0, <1>1
  <2> QED  BY <2>1, <2>3, <2>5 DEF After, GivesChange, g
<1>8. CASE UnwrapFollows(tx, next, wrapped, to, buys, floor, stops)
  <2>1. /\ Len(tx.code) = next /\ tx.code[next] = Unwrap(Call.minOut, Call.payee)
        /\ to \in {Router, AddressThis} /\ buys = WETH /\ floor = Call.minOut
        /\ Call.nativeOut /\ ~Call.nativeIn /\ ~wrapped
        /\ stops => IF ask.exactOut THEN LimitedOutput ELSE Limited(Call) /\ Hops = 1
        /\ to = AddressThis /\ tx.to = "slipstream" => ~Direct
    BY <1>8 DEF UnwrapFollows
  <2>2. paid = took /\ value = 0 /\ rest = 0
    BY <2>1
  <2>3. Books(f, took, 0, 0, 0, WETH, 0, 0)
    BY <1>3, <2>2
  <2>4. TookEnough(took)
    BY <1>0, <1>1, <2>1 DEF TookEnough
  <2>5. CASE Named(to) = Router
    <3>1. Books(g, took, 0, 0, 0, WETH, gave, 0)
      <4>1. g = Receive(f, Router, WETH, gave)
        BY <2>1, <2>5 DEF g
      <4> QED  BY <1>0, <1>1, <2>3, <4>1, RouterGains
    <3>2. IF ask.exactOut THEN gave <= Call.minOut /\ (gave < Call.minOut => LimitedOutput)
          ELSE gave >= Call.minOut
      BY <1>0, <1>1, <2>1
    <3>3. gave \in 0..MaxPayout /\ 0 \in Nat
      BY <1>0, <1>1
    <3> QED  BY <1>1, <2>1, <2>4, <3>1, <3>2, <3>3 DEF After, Unwraps, g
  <2>6. CASE Named(to) # Router
    <3>0. to = AddressThis /\ ~(tx.to # "slipstream" \/ resolves) /\ Named(to) = AddressThis
      BY <2>1, <2>6, NamedIs
    <3>1. Books(g, took, 0, 0, 0, WETH, 0, gave)
      <4>1. g = Receive(f, AddressThis, WETH, gave)
        BY <2>1, <3>0 DEF g
      <4> QED  BY <1>0, <1>1, <2>3, <4>1, SentinelGains
    <3>2. Astray(tx, resolves)
      BY <2>1, <3>0 DEF Astray
    <3>3. 0 \in 0..MaxPayout /\ 0 \in Nat
      BY <1>0
    <3> QED  BY <1>1, <2>1, <2>4, <3>1, <3>2, <3>3 DEF After, Unwraps, g
  <2> QED  BY <2>5, <2>6
<1>9. CASE HopFollows(tx, next, wrapped, to, buys, floor, stops)
  <2>1. /\ to = AddressThis /\ buys = Call.path[Hop(2)]
        /\ ~Call.nativeIn /\ ~wrapped /\ ~stops
    BY <1>9 DEF HopFollows
  <2>2. PICK place : Chains(tx, place) /\ next = place[2]
    BY <1>9 DEF HopFollows
  <2>3. ~ask.exactOut /\ tx.to = "universal" /\ 2 \in 1..Hops
    BY <2>2, OneHop DEF Chains, Serving
  <2>4. took = amountIn /\ paid = amountIn /\ value = 0 /\ rest = 0
    BY <1>1, <2>1, <2>3
  <2>5. Books(g, amountIn, 0, 0, 0, buys, gave, 0)
    <3>1. g = Receive(f, Router, buys, gave)
      BY <2>1, <2>3, NamedIs DEF g
    <3>2. Books(f, amountIn, 0, 0, 0, WETH, 0, 0)
      BY <1>3, <2>4
    <3> QED  BY <1>0, <1>1, <3>1, <3>2, RouterGains
  <2>6. gave \in Nat \ {0}
    BY <1>1
  <2>7. ~(2 = 1)
    OBVIOUS
  <2> QED  BY <2>1, <2>2, <2>3, <2>5, <2>6, <2>7 DEF After, HopsOn, g
<1> QED  BY <1>5, <1>6, <1>7, <1>8, <1>9 DEF Follows, g

LEMMA ProceedAdvances ==
  ASSUME NEW f, Proceed(f), Stage(tx, resolves, pc + 1, f, delta', allowance')
  PROVE  Moves
BY DEF Proceed, Moves, Advances

LEMMA MarketFails ==
  ASSUME NEW reason \in {"TooLittle", "TooMuch"}, Revert(reason)
  PROVE  Moves
BY DEF Moves, FailsRightly, CauseOf

(* The steps of an exchange that the sender pays for.                      *)
LEMMA UserTrades ==
  ASSUME Serving, Ready(funds, FALSE, allowance), delta = NoDelta, pc = 1,
         NEW sells \in Asset, NEW buys \in Asset, NEW floor \in Nat, NEW to,
         NEW stops \in BOOLEAN, Payable(tx, sells),
         Follows(tx, 2, FALSE, to, buys, floor, stops),
         NEW took, NEW gave, Struck(took, gave, floor, stops),
         Trade("User", sells, took, Named(to), buys, gave)
  PROVE  Moves
<1> DEFINE f == Receive(Paid("User", sells, took), Named(to), buys, gave)
<1>1. PayError("User", sells, took) = "Ok" /\ Spent(Paid("User", sells, took), FALSE, took)
  BY UserPays DEF Struck
<1>2. Proceed(f) /\ delta' = NoDelta
  BY <1>1 DEF Trade
<1>3. After(tx, resolves, 2, f)
  <2>1. FALSE \in BOOLEAN
    OBVIOUS
  <2> QED  BY <1>1, <2>1, Delivers
<1>4. pc + 1 = 2
  OBVIOUS
<1> HIDE DEF f
<1>5. Stage(tx, resolves, pc + 1, f, delta', allowance')
  BY <1>2, <1>3, <1>4 DEF Stage
<1> QED  BY <1>2, <1>5, ProceedAdvances

LEMMA ExchangeFields ==
  ASSUME NEW exactOut, NEW sells, NEW buys, NEW amount, NEW bound, NEW payer, NEW to, NEW stops,
         NEW i, i = Exchange(exactOut, sells, buys, amount, bound, payer, to, stops)
  PROVE  /\ i.op = "Exchange" /\ i.exactOut = exactOut /\ i.sells = sells /\ i.buys = buys
         /\ i.amount = amount /\ i.bound = bound /\ i.payer = payer /\ i.to = to
         /\ i.stops = stops
BY DEF Exchange

LEMMA ExchangeMoves ==
  ASSUME Serving, Next, Exchanging(tx, pc, funds, allowance), delta = NoDelta
  PROVE  Moves
<1>1. PICK sells, buys, floor, to, stops :
        /\ Exchanges1(tx, sells, buys, floor, to, stops)
        /\ Follows(tx, 2, FALSE, to, buys, floor, stops)
  BY DEF Exchanging, StartsWithExchange
<1>2. /\ Ready(funds, FALSE, allowance) /\ pc = 1 /\ Len(tx.code) >= 1
      /\ Instruction = Exchange(ask.exactOut, sells, buys, Asked, BoundOf(floor), "User", to, stops)
      /\ sells \in Asset /\ buys \in Asset /\ floor \in Nat /\ stops \in BOOLEAN
      /\ Payable(tx, sells)
  BY <1>1 DEF Exchanging, Exchanges1, Instruction
<1>3. /\ ask \in Calls /\ Call.payee \in Account /\ status = "Running" /\ ~Late
      /\ ask.exactOut \in BOOLEAN
  BY EdgeTypes DEF Serving, Addressed
<1>4. to \in Holder
  BY <1>1, <1>3, FollowsTo
<1>5. Instruction \in Decodable
  <2>1. Asked \in Nat /\ BoundOf(floor) \in Nat /\ "User" \in {"User", "Router"}
    BY <1>2, <1>3, AskedIs
  <2> QED  BY <1>2, <1>3, <1>4, <2>1, DecodesExchange
<1> DEFINE i == Instruction
<1>6. /\ i.op = "Exchange" /\ i.exactOut = ask.exactOut /\ i.sells = sells /\ i.buys = buys
      /\ i.amount = Asked /\ i.bound = BoundOf(floor) /\ i.payer = "User" /\ i.to = to
      /\ i.stops = stops
  BY <1>2, ExchangeFields
<1>7. pc <= Len(tx.code)
  BY <1>2
<1>8. /\ Asked \in 1..MaxPayout /\ Asked # 0 /\ Asked # CONTRACT_BALANCE
      /\ Call.amountIn \in Nat /\ MaxPayout \in Nat
      /\ ask.exactOut => Asked = Call.minOut /\ BoundOf(floor) = Call.amountIn
      /\ ~ask.exactOut => Asked = Call.amountIn /\ BoundOf(floor) = floor
  BY <1>3, AskedIs
<1>9. CASE ~ask.exactOut
  <2>1. ExchangeExactIn
    BY <1>3, <1>5, <1>6, <1>7, <1>9, OnlyOp
  <2> DEFINE whole == IF i.amount = CONTRACT_BALANCE THEN Held(i.sells) ELSE i.amount
  <2>2. PICK took \in (IF i.stops THEN 1..whole ELSE {whole}), gave \in Market :
           IF whole = 0 THEN Revert("ZeroSwap")
           ELSE IF gave < i.bound THEN Revert("TooLittle")
           ELSE Trade(i.payer, i.sells, took, Named(i.to), i.buys, gave)
    BY <2>1 DEF ExchangeExactIn
  <2>3. whole = Call.amountIn /\ whole # 0
    BY <1>6, <1>8, <1>9
  <2> HIDE DEF i, whole
  <2>4. CASE gave < i.bound
    <3>1. Revert("TooLittle")
      BY <2>2, <2>3, <2>4
    <3> QED  BY <3>1, MarketFails
  <2>5. CASE ~(gave < i.bound)
    <3>1. Trade("User", sells, took, Named(to), buys, gave)
      BY <1>6, <2>2, <2>3, <2>5
    <3>2. gave \in 1..MaxPayout /\ gave >= floor
      BY <1>2, <1>6, <1>8, <1>9, <2>2, <2>5 DEF Market
    <3>3. took \in 0..Call.amountIn /\ (~stops => took = Call.amountIn)
      BY <1>6, <1>8, <2>2, <2>3
    <3>4. Struck(took, gave, floor, stops)
      BY <1>9, <3>2, <3>3 DEF Struck
    <3> QED  BY <1>1, <1>2, <3>1, <3>4, UserTrades
  <2> QED  BY <2>4, <2>5
<1>10. CASE ask.exactOut
  <2>1. ExchangeExactOut
    BY <1>3, <1>5, <1>6, <1>7, <1>10, OnlyOp
  <2>2. PICK took \in Market, gave \in (IF i.stops THEN 1..i.amount ELSE {i.amount}) :
           IF i.amount = 0 THEN Revert("ZeroSwap")
           ELSE IF took > i.bound THEN Revert("TooMuch")
           ELSE Trade(i.payer, i.sells, took, Named(i.to), i.buys, gave)
    BY <2>1 DEF ExchangeExactOut
  <2>3. i.amount # 0
    BY <1>6, <1>8
  <2> HIDE DEF i
  <2>4. CASE took > i.bound
    <3>1. Revert("TooMuch")
      BY <2>2, <2>3, <2>4
    <3> QED  BY <3>1, MarketFails
  <2>5. CASE ~(took > i.bound)
    <3>1. Trade("User", sells, took, Named(to), buys, gave)
      BY <1>6, <2>2, <2>3, <2>5
    <3>2. took \in 0..Call.amountIn
      BY <1>6, <1>8, <1>10, <2>2, <2>5 DEF Market
    <3>3. /\ gave \in 1..MaxPayout
          /\ IF stops THEN gave <= Call.minOut ELSE gave = Call.minOut
      BY <1>6, <1>8, <1>10, <2>2
    <3>4. Struck(took, gave, floor, stops)
      BY <1>10, <3>2, <3>3 DEF Struck
    <3> QED  BY <1>1, <1>2, <3>1, <3>4, UserTrades
  <2> QED  BY <2>4, <2>5
<1> QED  BY <1>3, <1>9, <1>10

(* Wrapping comes first, and a command or the hops of a span follow.       *)
LEMMA WrapMoves ==
  ASSUME Serving, Next, Wraps(tx, pc, funds, allowance), delta = NoDelta
  PROVE  Moves
<1> DEFINE amountIn == Call.amountIn
           f == Receive(Lose(funds, Router, NATIVE, amountIn), Router, WETH, amountIn)
<1>1. /\ pc = 1 /\ WrapsFirst(tx) /\ (WrapsForCommand(tx) \/ WrapsForHops(tx))
      /\ Ready(funds, FALSE, allowance)
  BY DEF Wraps
<1>2. /\ Len(tx.code) >= 1 /\ Instruction = Wrap(amountIn) /\ Call.nativeIn
  BY <1>1 DEF WrapsFirst, Instruction
<1>3. /\ ask \in Calls /\ Call.payee \in Account /\ status = "Running" /\ ~Late
      /\ amountIn \in Nat /\ amountIn >= 1
      /\ WETH \in Asset /\ WETH # NATIVE
  BY AskedIs, Distinct DEF Serving, Addressed
<1>4. Instruction \in Decodable /\ Instruction.op = "Wrap" /\ Instruction.amount = amountIn
  <2>1. Instruction.op = "Wrap" /\ Instruction.amount = amountIn
    BY <1>2 DEF Wrap
  <2> QED  BY <1>2, <1>3, <2>1, Decodes
<1>5. WrapETH
  <2>1. pc <= Len(tx.code)
    BY <1>1, <1>2
  <2> QED  BY <1>3, <1>4, <2>1, OnlyOp
<1>6. Books(funds, amountIn, 0, 0, amountIn, WETH, 0, 0)
  <2>1. Spent(funds, FALSE, 0)
    BY <1>1 DEF Ready
  <2>2. amountIn - 0 = amountIn
    BY <1>3
  <2> QED  BY <1>2, <2>1, <2>2 DEF Spent
<1>7. /\ funds[Router][NATIVE] = amountIn
      /\ Books(Lose(funds, Router, NATIVE, amountIn), amountIn, 0, 0, 0, WETH, 0, 0)
  <2>1. /\ funds[Router][NATIVE] = amountIn
        /\ Books(Lose(funds, Router, NATIVE, amountIn), amountIn, 0, 0, amountIn - amountIn, WETH, 0, 0)
    <3> HIDE DEF amountIn
    <3> QED  BY <1>3, <1>6, RouterLosesValue
  <2>2. amountIn - amountIn = 0
    BY <1>3
  <2> QED  BY <2>1, <2>2
<1>8. Proceed(f) /\ delta' = delta /\ allowance' = allowance
  <2>1. ~(Held(NATIVE) < Instruction.amount)
    BY <1>3, <1>4, <1>7 DEF Held
  <2> QED  BY <1>4, <1>5, <2>1 DEF WrapETH
<1>9. Books(f, amountIn, 0, 0, 0, WETH, amountIn, 0)
  <2> HIDE DEF amountIn
  <2> QED  BY <1>3, <1>7, RouterGains
<1>10. pc + 1 = 2
  BY <1>1
<1> HIDE DEF f
<1>11. CASE WrapsForCommand(tx)
  <2>1. PICK sells, buys, floor, to :
          /\ Commands(tx, 2, sells, buys, floor, TRUE, to)
          /\ Follows(tx, 6, TRUE, to, buys, floor, FALSE)
    BY <1>11 DEF WrapsForCommand
  <2>2. Spent(f, TRUE, 0)
    <3>1. amountIn - 0 = amountIn
      BY <1>3
    <3> QED  BY <1>2, <1>9, <3>1 DEF Spent
  <2>3. Ready(f, TRUE, allowance')
    BY <2>2 DEF Ready
  <2>4. InCommand(tx, 2, sells, buys, floor, TRUE, to)
    <3>1. 2 + 4 = 6
      OBVIOUS
    <3> QED  BY <2>1, <3>1 DEF InCommand
  <2>5. Swapping(tx, pc + 1, f, delta', allowance')
    BY <1>8, <1>10, <2>3, <2>4 DEF Swapping
  <2> QED  BY <1>8, <2>5, ProceedAdvances DEF Stage
<1>12. CASE WrapsForHops(tx)
  <2>1. PICK place : Chains(tx, place)
    BY <1>12 DEF WrapsForHops
  <2>2. place[1] = 2 /\ 1 \in 1..Hops
    BY <1>2, <1>3, <2>1, OneHop DEF Chains
  <2>3. KindOf[Call.pools[Hop(1)]] # "UniswapV4" => Call.path[Hop(1)] = WETH
    <3> SUFFICES ASSUME KindOf[Call.pools[Hop(1)]] # "UniswapV4" PROVE Call.path[Hop(1)] = WETH
      OBVIOUS
    <3>1. NativeIsETH(ask.call) /\ ask.call.nativeIn /\ Call.path = ask.call.path /\ Call.span = ask.call.span
      BY <1>2, <1>3, EdgeTypes, CallsAssumption, Senders
    <3>2. Call.path[Hop(1)] \in {WETH, NATIVE}
      BY <3>1 DEF NativeIsETH, SpanIn, Hop
    <3>3. Call.path[Hop(1)] \in AssetsOf[Call.pools[Hop(1)]] /\ Call.pools[Hop(1)] \in Pool
      BY <1>3, <2>2, OneHop DEF HopJoined
    <3> QED  BY <3>2, <3>3, CallsAssumption
  <2>4. HopsOn(tx, pc + 1, f)
    <3>1. amountIn \in Nat \ {0}
      BY <1>3
    <3> QED  BY <1>2, <1>9, <1>10, <2>1, <2>2, <2>3, <3>1 DEF HopsOn
  <2> QED  BY <1>8, <2>4, ProceedAdvances DEF Stage, After
<1> QED  BY <1>1, <1>11, <1>12

-----------------------------------------------------------------------------
(* The phases of a V4 command. *)

LEMMA SwapFields ==
  ASSUME NEW exactOut, NEW sells, NEW buys, NEW amount, NEW bound,
         NEW i, i = SwapV4(exactOut, sells, buys, amount, bound)
  PROVE  /\ i.op = "SwapV4" /\ i.exactOut = exactOut /\ i.sells = sells /\ i.buys = buys
         /\ i.amount = amount /\ i.bound = bound
BY DEF SwapV4

LEMMA Served ==
  ASSUME Serving
  PROVE  /\ ask \in Calls /\ Call.payee \in Account /\ status = "Running" /\ ~Late
         /\ ask.exactOut \in BOOLEAN /\ Call.nativeIn \in BOOLEAN
         /\ ~(Call.nativeIn /\ Call.nativeOut)
BY EdgeTypes DEF Serving, Addressed

(* The instructions of a command, and what follows it.                     *)
LEMMA CommandIs ==
  ASSUME NEW at, NEW sells, NEW buys, NEW floor, NEW wrapped, NEW to,
         InCommand(tx, at, sells, buys, floor, wrapped, to)
  PROVE  /\ at \in {1, 2} /\ Len(tx.code) >= at + 3
         /\ tx.code[at] = SwapV4(ask.exactOut, sells, buys, Asked, BoundOf(floor))
         /\ wrapped => tx.code[at + 1] = SettleFromRouter(sells)
         /\ ~wrapped => tx.code[at + 1] = SettleAll(sells, Call.amountIn)
         /\ tx.code[at + 2] = Take(buys, to) /\ tx.code[at + 3] = Close
         /\ sells \in Asset /\ buys \in Asset /\ sells # buys /\ floor \in Nat
         /\ wrapped \in BOOLEAN
         /\ wrapped => sells = WETH /\ Call.nativeIn
         /\ ~wrapped => Payable(tx, sells)
         /\ Follows(tx, at + 4, wrapped, to, buys, floor, FALSE)
BY DEF InCommand, Commands

LEMMA MinusZero == -0 = 0
<1>1. (\A n \in Int : -n = 0 - n) /\ 0 \in Int /\ 0 - 0 = 0
  OBVIOUS
<1> QED  BY <1>1, Zenon

LEMMA OwedSwapped ==
  ASSUME NEW sells \in Asset, NEW buys \in Asset, sells # buys, NEW took \in Nat, NEW gave \in Nat
  PROVE  /\ [NoDelta EXCEPT ![sells] = @ - took, ![buys] = @ + gave] = Owed(sells, took, buys, gave)
         /\ Owed(sells, took, buys, gave)[sells] = -took
         /\ [Owed(sells, took, buys, gave) EXCEPT ![sells] = 0] = Owed(sells, 0, buys, gave)
         /\ Owed(sells, took, buys, gave)[buys] = gave
         /\ [Owed(sells, 0, buys, gave) EXCEPT ![buys] = 0] = NoDelta
<1>1. [NoDelta EXCEPT ![sells] = @ - took, ![buys] = @ + gave] = Owed(sells, took, buys, gave)
  <2>1. /\ NoDelta[sells] = 0 /\ NoDelta[buys] = 0 /\ 0 - took = -took /\ 0 + gave = gave
        /\ \A x \in Asset : NoDelta[x] = 0
        /\ NoDelta \in [Asset -> Int] /\ DOMAIN NoDelta = Asset
    BY DEF NoDelta
  <2> DEFINE m == [NoDelta EXCEPT ![sells] = @ - took, ![buys] = @ + gave]
  <2>2. ASSUME NEW x \in Asset
        PROVE  m[x] = IF x = sells THEN -took ELSE IF x = buys THEN gave ELSE 0
    BY <2>1
  <2>3. m = [x \in Asset |-> m[x]]
    BY <2>1
  <2> HIDE DEF m
  <2>4. m = [asset \in Asset |-> IF asset = sells THEN -took ELSE IF asset = buys THEN gave ELSE 0]
    BY <2>2, <2>3
  <2> QED  BY <2>4 DEF Owed, m
<1>2. /\ Owed(sells, took, buys, gave)[sells] = -took
      /\ Owed(sells, took, buys, gave)[buys] = gave
  BY DEF Owed
<1>3. [Owed(sells, took, buys, gave) EXCEPT ![sells] = 0] = Owed(sells, 0, buys, gave)
  <2>1. -0 = 0
    BY MinusZero
  <2>2. Owed(sells, 0, buys, gave)
          = [asset \in Asset |-> IF asset = sells THEN 0 ELSE IF asset = buys THEN gave ELSE 0]
    BY <2>1 DEF Owed
  <2> QED  BY <2>2 DEF Owed
<1>4. [Owed(sells, 0, buys, gave) EXCEPT ![buys] = 0] = NoDelta
  <2>1. -0 = 0
    BY MinusZero
  <2>2. Owed(sells, 0, buys, gave)
          = [asset \in Asset |-> IF asset = sells THEN 0 ELSE IF asset = buys THEN gave ELSE 0]
    BY <2>1 DEF Owed
  <2> QED  BY <2>2 DEF NoDelta
<1> QED  BY <1>1, <1>2, <1>3, <1>4

LEMMA SwappingMoves ==
  ASSUME Serving, Next, Swapping(tx, pc, funds, delta, allowance)
  PROVE  Moves
<1>1. PICK sells, buys, floor, wrapped, to :
        /\ InCommand(tx, pc, sells, buys, floor, wrapped, to)
        /\ delta = NoDelta /\ Ready(funds, wrapped, allowance)
  BY DEF Swapping
<1>2. /\ pc \in {1, 2} /\ Len(tx.code) >= pc + 3
      /\ Instruction = SwapV4(ask.exactOut, sells, buys, Asked, BoundOf(floor))
      /\ sells \in Asset /\ buys \in Asset /\ sells # buys /\ floor \in Nat
  <2>1. InCommand(tx, pc, sells, buys, floor, wrapped, to)
    BY <1>1
  <2>2. /\ pc \in {1, 2} /\ Len(tx.code) >= pc + 3
        /\ sells \in Asset /\ buys \in Asset /\ sells # buys /\ floor \in Nat
    BY <2>1, CommandIs
  <2>3. tx.code[pc] = SwapV4(ask.exactOut, sells, buys, Asked, BoundOf(floor))
    BY <2>1 DEF InCommand, Commands
  <2> QED  BY <2>2, <2>3 DEF Instruction
<1>3. ask \in Calls /\ status = "Running" /\ ~Late /\ ask.exactOut \in BOOLEAN
  BY Served
<1>4. /\ Asked \in Nat /\ Asked # 0 /\ Asked \in 1..MaxPayout /\ BoundOf(floor) \in Nat
      /\ Call.amountIn \in Nat /\ MaxPayout \in Nat
      /\ ask.exactOut => Asked = Call.minOut /\ BoundOf(floor) = Call.amountIn
      /\ ~ask.exactOut => Asked = Call.amountIn /\ BoundOf(floor) = floor
  BY <1>2, <1>3, AskedIs
<1> DEFINE i == Instruction
<1>5. /\ i.op = "SwapV4" /\ i.exactOut = ask.exactOut /\ i.sells = sells /\ i.buys = buys
      /\ i.amount = Asked /\ i.bound = BoundOf(floor)
  BY <1>2, SwapFields
<1>6. Instruction \in Decodable
  BY <1>2, <1>3, <1>4, DecodesSwap
<1>7. pc <= Len(tx.code)
  BY <1>2, <1>6 DEF Decodable
<1>8. ASSUME NEW took, NEW gave, Struck(took, gave, floor, FALSE),
             delta' = Owed(sells, took, buys, gave), Proceed(funds), allowance' = allowance
      PROVE  Moves
  <2>1. Ready(funds, wrapped, allowance')
    BY <1>1, <1>8 DEF Ready
  <2>2. Settling(tx, pc + 1, funds, delta', allowance')
    BY <1>1, <1>8, <2>1 DEF Settling
  <2> QED  BY <1>8, <2>2, ProceedAdvances DEF Stage
<1>9. CASE ~ask.exactOut
  <2>1. SwapV4ExactIn
    BY <1>3, <1>5, <1>6, <1>7, <1>9, OnlyOp
  <2> DEFINE amount == IF i.amount = OPEN_DELTA THEN delta[i.sells] ELSE i.amount
  <2>2. PICK gave \in Market :
           IF amount < 0 THEN Revert("NoCredit")
           ELSE IF amount = 0 THEN Revert("ZeroSwap")
           ELSE IF gave < i.bound THEN Revert("TooLittle")
           ELSE /\ delta' = [delta EXCEPT ![i.sells] = @ - amount, ![i.buys] = @ + gave]
                /\ Proceed(funds) /\ UNCHANGED allowance
    BY <2>1 DEF SwapV4ExactIn
  <2>3. amount = Call.amountIn /\ amount # 0 /\ ~(amount < 0)
    BY <1>4, <1>5, <1>9 DEF OPEN_DELTA
  <2> HIDE DEF i, amount
  <2>4. CASE gave < i.bound
    <3>1. Revert("TooLittle")
      BY <2>2, <2>3, <2>4
    <3> QED  BY <3>1, MarketFails
  <2>5. CASE ~(gave < i.bound)
    <3>1. /\ delta' = [NoDelta EXCEPT ![sells] = @ - Call.amountIn, ![buys] = @ + gave]
          /\ Proceed(funds) /\ allowance' = allowance
      BY <1>1, <1>5, <2>2, <2>3, <2>5
    <3>2. gave \in 1..MaxPayout /\ gave \in Nat /\ gave >= floor
      BY <1>2, <1>4, <1>5, <1>9, <2>2, <2>5 DEF Market
    <3>3. delta' = Owed(sells, Call.amountIn, buys, gave)
      BY <1>2, <1>4, <3>1, <3>2, OwedSwapped
    <3>4. Struck(Call.amountIn, gave, floor, FALSE)
      BY <1>4, <1>9, <3>2 DEF Struck
    <3> QED  BY <1>8, <3>1, <3>3, <3>4
  <2> QED  BY <2>4, <2>5
<1>10. CASE ask.exactOut
  <2>1. SwapV4ExactOut
    BY <1>3, <1>5, <1>6, <1>7, <1>10, OnlyOp
  <2>2. PICK took \in Market :
           IF i.amount = 0 THEN Revert("ZeroSwap")
           ELSE IF took > i.bound THEN Revert("TooMuch")
           ELSE /\ delta' = [delta EXCEPT ![i.sells] = @ - took, ![i.buys] = @ + i.amount]
                /\ Proceed(funds) /\ UNCHANGED allowance
    BY <2>1 DEF SwapV4ExactOut
  <2> HIDE DEF i
  <2>4. CASE took > i.bound
    <3>1. Revert("TooMuch")
      BY <1>4, <1>5, <2>2, <2>4
    <3> QED  BY <3>1, MarketFails
  <2>5. CASE ~(took > i.bound)
    <3>1. /\ delta' = [NoDelta EXCEPT ![sells] = @ - took, ![buys] = @ + Asked]
          /\ Proceed(funds) /\ allowance' = allowance
      BY <1>1, <1>4, <1>5, <2>2, <2>5
    <3>2. took \in Nat /\ took \in 0..Call.amountIn
      BY <1>4, <1>5, <1>10, <2>2, <2>5 DEF Market
    <3>3. delta' = Owed(sells, took, buys, Asked)
      BY <1>2, <1>4, <3>1, <3>2, OwedSwapped
    <3>4. Struck(took, Asked, floor, FALSE)
      BY <1>4, <1>10, <3>2 DEF Struck
    <3> QED  BY <1>8, <3>1, <3>3, <3>4
  <2> QED  BY <2>4, <2>5
<1> QED  BY <1>3, <1>9, <1>10

(* The debt of a swap is paid.                                             *)
LEMMA SettlingMoves ==
  ASSUME Serving, Next, Settling(tx, pc, funds, delta, allowance)
  PROVE  Moves
<1>1. PICK at, sells, buys, floor, wrapped, to, took, gave :
        /\ pc = at + 1 /\ InCommand(tx, at, sells, buys, floor, wrapped, to)
        /\ Struck(took, gave, floor, FALSE)
        /\ delta = Owed(sells, took, buys, gave) /\ Ready(funds, wrapped, allowance)
  BY DEF Settling
<1>2. /\ at \in {1, 2} /\ Len(tx.code) >= at + 3
      /\ wrapped => Instruction = SettleFromRouter(sells)
      /\ ~wrapped => Instruction = SettleAll(sells, Call.amountIn)
      /\ sells \in Asset /\ buys \in Asset /\ sells # buys /\ wrapped \in BOOLEAN
      /\ wrapped => sells = WETH /\ Call.nativeIn
      /\ ~wrapped => Payable(tx, sells)
  BY <1>1 DEF Instruction, InCommand, Commands
<1>3. ask \in Calls /\ status = "Running" /\ ~Late /\ Call.amountIn \in Nat /\ MaxPayout \in Nat
  BY Served, AskedIs
<1>4. /\ took \in 0..Call.amountIn /\ took \in Nat /\ gave \in Nat
  BY <1>1, <1>3 DEF Struck
<1>5. /\ delta[sells] = -took /\ -delta[sells] = took /\ ~(delta[sells] > 0)
      /\ [delta EXCEPT ![sells] = 0] = Owed(sells, 0, buys, gave)
  BY <1>1, <1>2, <1>4, OwedSwapped
<1> DEFINE payer == IF wrapped THEN "Router" ELSE "User"
<1>6. PayError(payer, sells, took) = "Ok" /\ Spent(Paid(payer, sells, took), wrapped, took)
  <2>1. CASE wrapped
    <3>1. wrapped = TRUE /\ payer = "Router" /\ sells = WETH
      BY <1>2, <2>1
    <3> QED  BY <1>1, <1>2, <1>4, <2>1, <3>1, WrappedPays
  <2>2. CASE ~wrapped
    <3>1. wrapped = FALSE /\ payer = "User"
      BY <1>2, <2>2
    <3> QED  BY <1>1, <1>2, <1>4, <2>2, <3>1, UserPays
  <2> QED  BY <1>2, <2>1, <2>2
<1>7. pc <= Len(tx.code)
  <2>1. Len(tx.code) \in Int \/ Len(tx.code) >= at + 3
    BY <1>2
  <2> QED  BY <1>1, <1>2
<1>8. Settle(payer, sells)
  <2>1. CASE wrapped
    <3>1. Instruction \in Decodable /\ Instruction.op = "SettleFromRouter" /\ Instruction.asset = sells
      BY <1>2, <2>1, Decodes DEF SettleFromRouter
    <3>2. SettleDebt
      BY <1>3, <1>7, <3>1, OnlyOp
    <3> QED  BY <2>1, <3>1, <3>2 DEF SettleDebt, At
  <2>2. CASE ~wrapped
    <3>1. /\ Instruction \in Decodable /\ Instruction.op = "SettleAll"
          /\ Instruction.asset = sells /\ Instruction.most = Call.amountIn
      BY <1>2, <1>3, <2>2, Decodes DEF SettleAll
    <3>2. SettleDebt
      BY <1>3, <1>7, <3>1, OnlyOp
    <3>3. ~(-delta[sells] > Call.amountIn)
      BY <1>3, <1>4, <1>5
    <3> QED  BY <2>2, <3>1, <3>2, <3>3 DEF SettleDebt, At
  <2> QED  BY <2>1, <2>2
<1> HIDE DEF payer
<1>9. Proceed(Paid(payer, sells, took)) /\ delta' = Owed(sells, 0, buys, gave)
  BY <1>5, <1>6, <1>8 DEF Settle
<1>10. Taking(tx, pc + 1, Paid(payer, sells, took), delta')
  <2>1. pc + 1 = at + 2
    BY <1>1, <1>2
  <2> QED  BY <1>1, <1>6, <1>9, <2>1 DEF Taking
<1> QED  BY <1>9, <1>10, ProceedAdvances DEF Stage

(* Its output is handed over.                                              *)
LEMMA TakingMoves ==
  ASSUME Serving, Next, Taking(tx, pc, funds, delta)
  PROVE  Moves
<1>1. PICK at, sells, buys, floor, wrapped, to, took, gave :
        /\ pc = at + 2 /\ InCommand(tx, at, sells, buys, floor, wrapped, to)
        /\ Struck(took, gave, floor, FALSE)
        /\ delta = Owed(sells, 0, buys, gave) /\ Spent(funds, wrapped, took)
  BY DEF Taking
<1>2. /\ at \in {1, 2} /\ Len(tx.code) >= at + 3
      /\ Instruction = Take(buys, to) /\ tx.code[at + 3] = Close
      /\ sells \in Asset /\ buys \in Asset /\ sells # buys /\ floor \in Nat
      /\ wrapped \in BOOLEAN /\ (wrapped => Call.nativeIn)
      /\ Follows(tx, at + 4, wrapped, to, buys, floor, FALSE)
  BY <1>1 DEF Instruction, InCommand, Commands
<1>3. /\ ask \in Calls /\ status = "Running" /\ ~Late /\ Call.amountIn \in Nat
      /\ MaxPayout \in Nat /\ Call.payee \in Account
  BY Served, AskedIs
<1>4. gave \in Nat
  BY <1>1, <1>3 DEF Struck
<1>5. /\ delta[buys] = gave /\ ~(delta[buys] < 0)
      /\ [delta EXCEPT ![buys] = 0] = NoDelta
  BY <1>1, <1>2, <1>4, OwedSwapped
<1>6. /\ Instruction \in Decodable /\ Instruction.op = "Take" /\ Instruction.asset = buys
      /\ Instruction.to = to
  <2>1. to \in Holder
    BY <1>2, <1>3, FollowsTo
  <2> QED  BY <1>2, <2>1, Decodes DEF Take
<1>7. pc <= Len(tx.code) /\ pc + 1 = at + 3 /\ pc + 1 \in {4, 5} /\ pc + 1 <= Len(tx.code)
      /\ (pc + 1) + 1 = at + 4
  BY <1>1, <1>2
<1>8. TakeCredit
  BY <1>3, <1>6, <1>7, OnlyOp
<1> DEFINE f == Receive(funds, Named(to), buys, gave)
<1>9. Proceed(f) /\ delta' = NoDelta
  BY <1>5, <1>6, <1>8 DEF TakeCredit
<1>10. After(tx, resolves, at + 4, f)
  <2>1. FALSE \in BOOLEAN /\ (wrapped => Call.nativeIn /\ ~FALSE)
    BY <1>2
  <2> QED  BY <1>1, <1>2, <2>1, Delivers
<1> HIDE DEF f
<1>11. Closing(tx, resolves, pc + 1, f, delta')
  BY <1>2, <1>7, <1>9, <1>10 DEF Closing
<1> QED  BY <1>9, <1>11, ProceedAdvances DEF Stage

LEMMA ClosingMoves ==
  ASSUME Serving, Next, Closing(tx, resolves, pc, funds, delta)
  PROVE  Moves
<1>1. /\ pc \in {4, 5} /\ pc <= Len(tx.code) /\ Instruction = Close
      /\ delta = NoDelta /\ After(tx, resolves, pc + 1, funds)
  BY DEF Closing, Instruction
<1>2. Instruction \in Decodable /\ Instruction.op = "Close"
  BY <1>1, Decodes DEF Close
<1>3. CloseManager
  BY <1>1, <1>2, Served, OnlyOp
<1>4. Proceed(funds) /\ delta' = NoDelta
  BY <1>1, <1>3 DEF CloseManager
<1> QED  BY <1>1, <1>4, ProceedAdvances DEF Stage

-----------------------------------------------------------------------------
(* The hops that the router pays for. *)

(* One of them, and the first instruction of its code.                     *)
LEMMA HopReached ==
  ASSUME Serving, NEW place, Chains(tx, place), NEW k \in 1..Hops, pc = place[k]
  PROVE  /\ pc \in Nat \ {0} /\ pc <= Len(tx.code)
         /\ Instruction = HopCode(k)[1]
         /\ pc + Len(HopCode(k)) = place[k + 1]
<1>1. Len(HopCode(k)) \in Nat /\ Len(HopCode(k)) >= 1
  <2>1. Len(HopCode(k)) \in {1, 4}
    BY HopCodeIs
  <2>2. \A n \in {1, 4} : n \in Nat /\ n >= 1
    OBVIOUS
  <2> QED  BY <2>1, <2>2, Zenon
<1>2. /\ place[k] \in Nat \ {0} /\ place[k + 1] = place[k] + Len(HopCode(k))
      /\ place[k + 1] <= Len(tx.code) + 1 /\ Len(tx.code) \in Nat
      /\ \A j \in 1..Len(HopCode(k)) : tx.code[place[k] + j - 1] = HopCode(k)[j]
  BY DEF Chains, HopCode
<1>3. tx.code[place[k]] = HopCode(k)[1]
  <2>1. 1 \in 1..Len(HopCode(k))
    BY <1>1
  <2>2. place[k] + 1 - 1 = place[k]
    BY <1>2
  <2> QED  BY <1>2, <2>1, <2>2
<1>4. place[k] <= Len(tx.code)
  <2>1. /\ place[k] \in Nat /\ place[k] + Len(HopCode(k)) <= Len(tx.code) + 1
        /\ Len(tx.code) \in Nat
    BY <1>2
  <2> QED  BY <1>1, <2>1
<1> QED  BY <1>2, <1>3, <1>4 DEF Instruction

LEMMA HopIs ==
  ASSUME Serving, ~ask.exactOut, NEW k \in 1..Hops, k = 1 => Call.nativeIn
  PROVE  /\ Call.path[Hop(k)] \in Asset /\ Call.path[Hop(k) + 1] \in Asset
         /\ ~PaidByUser(Call, Hop(k))
         /\ HopFloor(Call, Hop(k)) \in Nat
         /\ HopRecipient(Call, Hop(k)) \in Holder
         /\ Hop(k) \in SpanPools(Call)
         /\ k < Hops => /\ HopRecipient(Call, Hop(k)) = AddressThis
                        /\ k + 1 \in 1..Hops /\ Hop(k) + 1 = Hop(k + 1)
         /\ k = Hops => /\ HopFloor(Call, Hop(k)) = Call.minOut
                        /\ Call.path[Hop(k) + 1] = SpanOut(Call)
                        /\ HopRecipient(Call, Hop(k))
                             = IF Call.nativeOut THEN AddressThis ELSE Call.payee
<1>1. /\ Call.span.start \in Nat /\ Call.span.end \in Nat /\ Hops \in Nat \ {0}
      /\ Hops = Call.span.end - Call.span.start
      /\ Call.path[Hop(k)] \in Asset /\ Call.path[Hop(k) + 1] \in Asset
      /\ Call.payee \in Account /\ Call.minOut \in Nat
      /\ Account \subseteq Holder /\ AddressThis \in Holder
  BY Served, OneHop, EdgeTypes, Distinct
<1>2. /\ Hop(k) = Call.span.start + k /\ Hop(k + 1) = Call.span.start + (k + 1)
      /\ k \in Nat /\ k >= 1 /\ k <= Hops
  BY <1>1 DEF Hop
<1>3. ~PaidByUser(Call, Hop(k))
  <2>1. Hop(k) = Call.span.start + 1 => k = 1
    BY <1>1, <1>2
  <2> QED  BY <2>1 DEF PaidByUser
<1>4. Hop(k) \in SpanPools(Call)
  BY <1>1, <1>2 DEF SpanPools
<1>5. k < Hops => Hop(k) < Call.span.end /\ k + 1 \in 1..Hops /\ Hop(k) + 1 = Hop(k + 1)
  BY <1>1, <1>2
<1>6. k = Hops => Hop(k) = Call.span.end /\ ~(Hop(k) < Call.span.end)
  BY <1>1, <1>2
<1>7. HopFloor(Call, Hop(k)) \in Nat /\ HopRecipient(Call, Hop(k)) \in Holder
  BY <1>1 DEF HopFloor, HopRecipient
<1>8. k < Hops => HopRecipient(Call, Hop(k)) = AddressThis
  BY <1>5 DEF HopRecipient
<1>9. k = Hops => /\ HopFloor(Call, Hop(k)) = Call.minOut
                  /\ Call.path[Hop(k) + 1] = SpanOut(Call)
                  /\ HopRecipient(Call, Hop(k))
                       = IF Call.nativeOut THEN AddressThis ELSE Call.payee
  BY <1>6 DEF HopFloor, HopRecipient, SpanOut
<1> QED  BY <1>1, <1>3, <1>4, <1>5, <1>7, <1>8, <1>9

(* A V4 pool is asked to trade the delta the router has, which is none.    *)
LEMMA V4HopFails ==
  ASSUME Serving, Next, delta = NoDelta, NEW place, Chains(tx, place), NEW k \in 1..Hops,
         pc = place[k], k = 1 => Call.nativeIn,
         KindOf[Call.pools[Hop(k)]] = "UniswapV4"
  PROVE  Moves
<1> DEFINE sells == Call.path[Hop(k)]
           buys == Call.path[Hop(k) + 1]
           floor == HopFloor(Call, Hop(k))
           i == Instruction
<1>1. ~Direct /\ ~ask.exactOut /\ Hops > 1
  BY DEF Chains
<1>2. /\ sells \in Asset /\ buys \in Asset /\ ~PaidByUser(Call, Hop(k)) /\ floor \in Nat
      /\ Hop(k) \in SpanPools(Call)
  BY <1>1, HopIs
<1>3. /\ pc <= Len(tx.code) /\ Instruction = HopCode(k)[1]
  BY HopReached
<1>4. Instruction = SwapV4(FALSE, sells, buys, OPEN_DELTA, floor)
  <2>1. HopCode(k) = V4Hop(Call, Hop(k))
    BY HopCodeIs
  <2>2. V4Hop(Call, Hop(k))[1] = SwapV4(FALSE, sells, buys, OPEN_DELTA, floor)
    <3> HIDE DEF sells, buys, floor
    <3> QED  BY <1>2 DEF V4Hop, V4Command, sells, buys, floor
  <2> QED  BY <1>3, <2>1, <2>2
<1> HIDE DEF sells, buys, floor
<1>5. /\ i.op = "SwapV4" /\ i.exactOut = FALSE /\ i.sells = sells /\ i.amount = OPEN_DELTA
  BY <1>4 DEF SwapV4
<1>6. Instruction \in Decodable
  <2>1. FALSE \in BOOLEAN /\ OPEN_DELTA \in Nat
    BY DEF OPEN_DELTA
  <2> QED  BY <1>2, <1>4, <2>1, DecodesSwap
<1>7. SwapV4ExactIn
  <2>1. status = "Running" /\ ~Late
    BY Served
  <2> QED  BY <1>3, <1>5, <1>6, <2>1, OnlyOp
<1>8. delta[sells] = 0 /\ ~(0 < 0)
  BY <1>2 DEF NoDelta
<1>9. Revert("ZeroSwap")
  <2>1. \E gave \in Market : Revert("ZeroSwap")
    BY <1>5, <1>7, <1>8 DEF SwapV4ExactIn
  <2> QED  BY <2>1
<1>10. ChainedV4
  BY <1>1, <1>2 DEF ChainedV4, Hops
<1> QED  BY <1>9, <1>10 DEF Moves, FailsRightly, CauseOf

LEMMA HopMoves ==
  ASSUME Serving, Next, delta = NoDelta, NEW place, Chains(tx, place), NEW k \in 1..Hops,
         pc = place[k], k = 1 => Call.nativeIn,
         KindOf[Call.pools[Hop(k)]] # "UniswapV4",
         NEW raw \in Nat \ {0}, Books(funds, Call.amountIn, 0, 0, 0, Call.path[Hop(k)], raw, 0)
  PROVE  Moves
<1> DEFINE sells == Call.path[Hop(k)]
           buys == Call.path[Hop(k) + 1]
           floor == HopFloor(Call, Hop(k))
           to == HopRecipient(Call, Hop(k))
           amountIn == Call.amountIn
           i == Instruction
<1>1. ~Direct /\ ~ask.exactOut /\ Hops > 1 /\ tx.to = "universal"
  BY DEF Chains
<1>2. /\ sells \in Asset /\ buys \in Asset /\ ~PaidByUser(Call, Hop(k)) /\ floor \in Nat
      /\ to \in Holder
      /\ k < Hops => /\ to = AddressThis /\ k + 1 \in 1..Hops /\ buys = Call.path[Hop(k + 1)]
      /\ k = Hops => /\ floor = Call.minOut /\ buys = SpanOut(Call)
                     /\ to = IF Call.nativeOut THEN AddressThis ELSE Call.payee
  BY <1>1, HopIs
<1>3. /\ pc <= Len(tx.code) /\ Instruction = HopCode(k)[1]
      /\ pc + Len(HopCode(k)) = place[k + 1]
  BY HopReached
<1>4. /\ Instruction = Exchange(FALSE, sells, buys, CONTRACT_BALANCE, floor, "Router", to, FALSE)
      /\ pc + 1 = place[k + 1]
  <2>1. HopCode(k) = V2V3Hop(Call, Hop(k))
    BY HopCodeIs
  <2>2. V2V3Hop(Call, Hop(k))
          = << Exchange(FALSE, sells, buys, CONTRACT_BALANCE, floor, "Router", to, FALSE) >>
    BY <1>2 DEF V2V3Hop
  <2>3. \A e : <<e>>[1] = e /\ Len(<<e>>) = 1
    OBVIOUS
  <2> HIDE DEF sells, buys, floor, to
  <2> QED  BY <1>3, <2>1, <2>2, <2>3
<1>5. /\ ask \in Calls /\ Call.payee \in Account /\ status = "Running" /\ ~Late
      /\ amountIn \in Nat /\ amountIn >= 1 /\ MaxPayout \in Nat /\ Call.minOut \in Nat
      /\ ~(Call.nativeIn /\ Call.nativeOut) /\ WETH \in Asset
  BY Served, AskedIs, Distinct, EdgeTypes
<1>6. sells # NATIVE /\ (k = Hops /\ Call.nativeOut => buys = WETH)
  <2>1. /\ sells \in AssetsOf[Call.pools[Hop(k)]] /\ buys \in AssetsOf[Call.pools[Hop(k)]]
        /\ Call.pools[Hop(k)] \in Pool
    BY <1>5, OneHop DEF HopJoined
  <2>2. NATIVE \notin AssetsOf[Call.pools[Hop(k)]]
    BY <2>1, CallsAssumption
  <2>3. Call.nativeOut => SpanOut(Call) \in {WETH, NATIVE}
    <3>1. NativeIsETH(ask.call) /\ Call.path = ask.call.path /\ Call.span = ask.call.span
      BY <1>5, EdgeTypes, CallsAssumption
    <3>2. Call.nativeOut = ask.call.nativeOut
      BY <1>5, SettlementAssumption DEF Call, EncoderCall
    <3> QED  BY <3>1, <3>2 DEF NativeIsETH, SpanOut
  <2> QED  BY <1>2, <2>1, <2>2, <2>3
<1> HIDE DEF sells, buys, floor, to
<1>7. /\ i.op = "Exchange" /\ i.exactOut = FALSE /\ i.sells = sells /\ i.buys = buys
      /\ i.amount = CONTRACT_BALANCE /\ i.bound = floor /\ i.payer = "Router" /\ i.to = to
      /\ i.stops = FALSE
  BY <1>4 DEF Exchange
<1>8. Instruction \in Decodable
  <2>1. FALSE \in BOOLEAN /\ "Router" \in {"User", "Router"} /\ ~FALSE
    OBVIOUS
  <2> QED  BY <1>2, <1>4, <2>1, DecodesExchange
<1>9. ExchangeExactIn
  BY <1>3, <1>5, <1>7, <1>8, OnlyOp
<1>10. Books(funds, amountIn, 0, 0, 0, sells, raw, 0)
  BY DEF sells
<1> DEFINE f == Lose(funds, Router, sells, raw)
<1>11. funds[Router][sells] = raw /\ Books(f, amountIn, 0, 0, 0, sells, 0, 0)
  <2>1. /\ funds[Router][sells] = raw
        /\ Books(f, amountIn, 0, 0, 0, sells, raw - raw, 0)
    <3> HIDE DEF amountIn
    <3> QED  BY <1>2, <1>5, <1>6, <1>10, RouterLosesAsset
  <2>2. raw - raw = 0
    OBVIOUS
  <2> HIDE DEF f
  <2> QED  BY <2>1, <2>2
<1> HIDE DEF f
<1> DEFINE whole == IF i.amount = CONTRACT_BALANCE THEN Held(i.sells) ELSE i.amount
<1>12. PICK took \in (IF i.stops THEN 1..whole ELSE {whole}), gave \in Market :
           IF whole = 0 THEN Revert("ZeroSwap")
           ELSE IF gave < i.bound THEN Revert("TooLittle")
           ELSE Trade(i.payer, i.sells, took, Named(i.to), i.buys, gave)
  BY <1>9 DEF ExchangeExactIn
<1>13. whole = raw /\ whole # 0
  BY <1>7, <1>11 DEF Held
<1> HIDE DEF i, whole
<1>14. took = raw /\ gave \in 1..MaxPayout /\ gave \in Nat
  BY <1>5, <1>7, <1>12, <1>13 DEF Market
<1>15. CASE gave < floor
  <2>1. Revert("TooLittle")
    BY <1>7, <1>12, <1>13, <1>15
  <2> QED  BY <2>1, MarketFails
<1>16. CASE ~(gave < floor)
  <2> DEFINE g == Receive(f, Named(to), buys, gave)
  <2>1. Trade("Router", sells, raw, Named(to), buys, gave)
    BY <1>7, <1>12, <1>13, <1>14, <1>16
  <2>2. PayError("Router", sells, raw) = "Ok" /\ Paid("Router", sells, raw) = f
    <3>1. FromRouter("Router", sells) /\ ~(Held(sells) < raw)
      BY <1>11 DEF FromRouter, Held
    <3> QED  BY <3>1 DEF PayError, Paid, Reject, f
  <2>3. Proceed(g) /\ delta' = NoDelta
    BY <2>1, <2>2 DEF Trade
  <2>4. gave >= floor
    BY <1>2, <1>14, <1>16
  <2>5. ASSUME to = AddressThis
        PROVE  Books(g, amountIn, 0, 0, 0, buys, gave, 0)
    <3>1. g = Receive(f, Router, buys, gave)
      BY <1>1, <2>5, NamedIs
    <3> HIDE DEF g, amountIn
    <3> QED  BY <1>2, <1>5, <1>11, <1>14, <3>1, RouterGains
  <2>6. CASE k < Hops
    <3>1. Books(g, amountIn, 0, 0, 0, Call.path[Hop(k + 1)], gave, 0)
      BY <1>2, <2>5, <2>6
    <3>2. gave \in Nat \ {0} /\ k + 1 # 1
      BY <1>14
    <3> HIDE DEF g
    <3>3. HopsOn(tx, pc + 1, g)
      BY <1>2, <1>4, <2>6, <3>1, <3>2 DEF HopsOn
    <3> QED  BY <2>3, <3>3, ProceedAdvances DEF Stage, After
  <2>7. CASE k = Hops /\ Call.nativeOut
    <3>1. Books(g, amountIn, 0, 0, 0, WETH, gave, 0)
      BY <1>2, <1>6, <2>5, <2>7
    <3> HIDE DEF g
    <3>2. /\ pc + 1 = Len(tx.code) /\ tx.code[pc + 1] = Unwrap(Call.minOut, Call.payee)
      BY <1>4, <2>7 DEF Chains
    <3>3. TookEnough(amountIn)
      BY <1>5 DEF TookEnough
    <3>4. gave \in 0..MaxPayout /\ gave >= Call.minOut /\ 0 \in Nat
      BY <1>2, <1>14, <2>4, <2>7
    <3>5. Unwraps(tx, resolves, pc + 1, g)
      <4>1. Call.nativeOut /\ ~Call.nativeIn
        BY <1>5, <2>7
      <4> QED  BY <1>1, <1>5, <3>1, <3>2, <3>3, <3>4, <4>1 DEF Unwraps
    <3> QED  BY <2>3, <3>5, ProceedAdvances DEF Stage, After
  <2>8. CASE k = Hops /\ ~Call.nativeOut
    <3>1. to = Call.payee /\ Named(to) = Call.payee /\ buys = OutputAsset
      BY <1>2, <1>5, <2>8, NamedIs, EdgeTypes
    <3>2. Books(g, amountIn, gave, 0, 0, sells, 0, 0)
      <4>1. Books(Receive(f, Call.payee, OutputAsset, gave), amountIn, 0 + gave, 0, 0, sells, 0, 0)
        <5> HIDE DEF amountIn
        <5> QED  BY <1>2, <1>5, <1>11, <1>14, PayeeGets
      <4>2. 0 + gave = gave
        BY <1>14
      <4> QED  BY <3>1, <4>1, <4>2
    <3> HIDE DEF g
    <3>3. Books(g, amountIn, gave, 0, 0, WETH, 0, 0)
      <4> HIDE DEF amountIn
      <4> QED  BY <1>2, <1>5, <1>14, <3>2, EmptyRouter
    <3>4. Books(g, amountIn + 0, gave, 0, 0, WETH, 0, 0)
      <4>1. amountIn + 0 = amountIn
        BY <1>5
      <4> QED  BY <3>3, <4>1
    <3>5. TookEnough(amountIn)
      BY <1>5 DEF TookEnough
    <3>6. GaveEnough(gave)
      BY <1>1, <1>2, <1>5, <1>14, <2>4, <2>8 DEF GaveEnough
    <3>7. Done(tx, resolves, g)
      <4>1. 0 \in Nat /\ amountIn + 0 <= amountIn /\ ~(0 > 0)
        BY <1>5
      <4> QED  BY <1>5, <1>14, <3>4, <3>5, <3>6, <4>1 DEF Done
    <3>8. pc + 1 = Len(tx.code) + 1
      BY <1>4, <2>8 DEF Chains
    <3>9. Ended(tx, resolves, pc + 1, g)
      BY <3>7, <3>8 DEF Ended
    <3> QED  BY <2>3, <3>9, ProceedAdvances DEF Stage, After
  <2>9. k < Hops \/ k = Hops
    BY <1>5, OneHop
  <2> QED  BY <2>6, <2>7, <2>8, <2>9
<1> QED  BY <1>15, <1>16

LEMMA HopsMove ==
  ASSUME Serving, Next, delta = NoDelta, HopsOn(tx, pc, funds)
  PROVE  Moves
<1>0. PICK place : \E k \in 1..Hops :
        /\ Chains(tx, place) /\ pc = place[k]
        /\ k = 1 => Call.nativeIn
        /\ KindOf[Call.pools[Hop(k)]] # "UniswapV4" =>
             \E raw \in Nat \ {0} : Books(funds, Call.amountIn, 0, 0, 0, Call.path[Hop(k)], raw, 0)
  BY Zenon DEF HopsOn
<1>1. PICK k \in 1..Hops :
        /\ Chains(tx, place) /\ pc = place[k]
        /\ k = 1 => Call.nativeIn
        /\ KindOf[Call.pools[Hop(k)]] # "UniswapV4" =>
             \E raw \in Nat \ {0} : Books(funds, Call.amountIn, 0, 0, 0, Call.path[Hop(k)], raw, 0)
  BY <1>0, Zenon
<1>2. CASE KindOf[Call.pools[Hop(k)]] = "UniswapV4"
  BY <1>1, <1>2, V4HopFails
<1>3. CASE KindOf[Call.pools[Hop(k)]] # "UniswapV4"
  BY <1>1, <1>3, HopMoves
<1> QED  BY <1>2, <1>3

-----------------------------------------------------------------------------
(* The last instruction. *)

LEMMA DoneSo ==
  ASSUME NEW f, NEW spent \in Nat, NEW got \in Nat, NEW back \in Nat, NEW paid,
         NEW stray \in Nat, paid = spent + back, paid <= Call.amountIn,
         TookEnough(spent), GaveEnough(got), back > 0 => WrappedV4Output,
         stray > 0 => Astray(tx, resolves) /\ Call.minOut = 0,
         Books(f, paid, got, back, 0, WETH, 0, stray)
  PROVE  Done(tx, resolves, f)
<1>1. 0 \in Nat /\ ~(0 > 0)
  OBVIOUS
<1> QED  BY <1>1 DEF Done

LEMMA EndsSo ==
  ASSUME Serving, pc = Len(tx.code), NEW f, Proceed(f), Done(tx, resolves, f),
         delta' = NoDelta
  PROVE  Moves
<1>1. Ended(tx, resolves, pc + 1, f)
  BY DEF Ended
<1> QED  BY <1>1, ProceedAdvances DEF Stage, After

LEMMA UnwrapMoves ==
  ASSUME Serving, Next, delta = NoDelta, Unwraps(tx, resolves, pc, funds)
  PROVE  Moves
<1>1. /\ pc = Len(tx.code) /\ Instruction = Unwrap(Call.minOut, Call.payee)
      /\ Call.nativeOut /\ ~Call.nativeIn
  BY DEF Unwraps, Instruction
<1>2. PICK spent \in Nat, raw \in Nat, stray \in Nat :
       /\ TookEnough(spent) /\ raw \in 0..MaxPayout
       /\ Books(funds, spent, 0, 0, 0, WETH, raw, stray)
       /\ \/ /\ stray = 0
             /\ IF ask.exactOut THEN raw <= Call.minOut /\ (raw < Call.minOut => LimitedOutput)
                ELSE raw >= Call.minOut
          \/ raw = 0 /\ Astray(tx, resolves)
  BY DEF Unwraps
<1>3. /\ ask \in Calls /\ Call.payee \in Account /\ status = "Running" /\ ~Late
      /\ Call.minOut \in Nat /\ Call.amountIn \in Nat /\ MaxPayout \in Nat
      /\ ask.exactOut => Call.minOut >= 1
      /\ WETH \in Asset /\ WETH # NATIVE /\ OutputAsset = NATIVE
  <2>1. ask \in Calls /\ Call.payee \in Account /\ status = "Running" /\ ~Late
    BY Served
  <2>2. /\ Call.minOut \in Nat /\ MaxPayout \in Nat /\ Call.amountIn \in Nat
        /\ ask.exactOut => Call.minOut \in 1..MaxPayout
    BY <2>1, EdgeTypes, AskedIs
  <2>3. ask.exactOut => Call.minOut >= 1
    BY <2>2
  <2>4. WETH \in Asset /\ WETH # NATIVE /\ OutputAsset = NATIVE
    BY <1>1, <2>1, EdgeTypes, Distinct
  <2> QED  BY <2>1, <2>2, <2>3, <2>4
<1>4. /\ Instruction \in Decodable /\ Instruction.op = "Unwrap"
      /\ Instruction.least = Call.minOut /\ Instruction.to = Call.payee
  BY <1>1, <1>3, Decodes DEF Unwrap
<1>5. UnwrapWETH
  <2>1. pc <= Len(tx.code)
    <3>1. Len(tx.code) \in Int
      BY <1>1, <1>4 DEF Unwraps, Unwrap
    <3> QED  BY <1>1, <3>1
  <2> QED  BY <1>3, <1>4, <2>1, OnlyOp
<1>6. /\ funds[Router][WETH] = raw
      /\ Books(Lose(funds, Router, WETH, raw), spent, 0, 0, 0, WETH, raw - raw, stray)
  <2>1. 0 \in Nat /\ raw <= raw
    OBVIOUS
  <2> QED  BY <1>2, <1>3, <2>1, RouterLosesAsset
<1>7. CASE raw < Call.minOut
  <2>1. Revert("NothingToUnwrap")
    BY <1>4, <1>5, <1>6, <1>7 DEF UnwrapWETH, Held
  <2>2. Astray(tx, resolves) \/ LimitedOutput
    BY <1>2, <1>3, <1>7
  <2> QED  BY <1>1, <2>1, <2>2 DEF Moves, FailsRightly, CauseOf
<1>8. CASE ~(raw < Call.minOut)
  <2> DEFINE f == Receive(Lose(funds, Router, WETH, raw), Call.payee, NATIVE, raw)
  <2>1. Proceed(f) /\ delta' = NoDelta
    BY <1>4, <1>5, <1>6, <1>8 DEF UnwrapWETH, Held
  <2>2. Books(f, spent, raw, 0, 0, WETH, 0, stray)
    <3>1. raw - raw = 0 /\ 0 + raw = raw
      OBVIOUS
    <3>2. Books(Lose(funds, Router, WETH, raw), spent, 0, 0, 0, WETH, 0, stray)
      BY <1>6, <3>1
    <3>3. Books(Receive(Lose(funds, Router, WETH, raw), Call.payee, OutputAsset, raw),
                spent, 0 + raw, 0, 0, WETH, 0, stray)
      BY <1>3, <3>2, PayeeGets
    <3> QED  BY <1>3, <3>1, <3>3
  <2> HIDE DEF f
  <2>3. GaveEnough(raw)
    <3>1. raw >= Call.minOut /\ (ask.exactOut => raw <= Call.minOut)
      BY <1>2, <1>3, <1>8
    <3> QED  BY <1>2, <1>3, <3>1 DEF GaveEnough
  <2>4. spent = spent + 0 /\ spent <= Call.amountIn
    BY <1>2, <1>3 DEF TookEnough
  <2>5. stray > 0 => Astray(tx, resolves) /\ Call.minOut = 0
    BY <1>2, <1>3, <1>8
  <2>6. Done(tx, resolves, f)
    <3>1. 0 \in Nat /\ ~(0 > 0)
      OBVIOUS
    <3> QED  BY <1>2, <2>2, <2>3, <2>4, <2>5, <3>1, DoneSo
  <2> QED  BY <1>1, <2>1, <2>6, EndsSo
<1> QED  BY <1>7, <1>8

(* What was wrapped too much goes to the payee.                            *)
LEMMA ChangeMoves ==
  ASSUME Serving, Next, delta = NoDelta, GivesChange(tx, pc, funds)
  PROVE  Moves
<1> DEFINE amountIn == Call.amountIn
<1>1. /\ pc = Len(tx.code) /\ Instruction = Unwrap(0, Call.payee)
      /\ ask.exactOut /\ WrappedV4Output
  BY DEF GivesChange, Instruction
<1>2. PICK took \in 0..amountIn :
        Books(funds, amountIn, Call.minOut, 0, 0, WETH, amountIn - took, 0)
  BY DEF GivesChange
<1> DEFINE rest == amountIn - took
<1>3. /\ ask \in Calls /\ Call.payee \in Account /\ status = "Running" /\ ~Late
      /\ Call.minOut \in Nat /\ Call.minOut \in 0..MaxPayout /\ amountIn \in Nat
      /\ MaxPayout \in Nat /\ WETH \in Asset /\ WETH # NATIVE
  <2>1. ask \in Calls /\ Call.payee \in Account /\ status = "Running" /\ ~Late
    BY Served
  <2>2. /\ Call.minOut \in Nat /\ MaxPayout \in Nat /\ amountIn \in Nat
        /\ Call.minOut \in 1..MaxPayout
    BY <1>1, <2>1, EdgeTypes, AskedIs
  <2>3. Call.minOut \in 0..MaxPayout
    BY <2>2
  <2> QED  BY <2>1, <2>2, <2>3, Distinct
<1>4. InputAsset = NATIVE
  BY <1>1, <1>3, EdgeTypes DEF WrappedV4Output
<1>5. took \in Nat /\ rest \in Nat /\ amountIn = took + rest /\ rest - rest = 0 /\ 0 + rest = rest
      /\ rest >= 0 /\ took <= amountIn
  BY <1>3
<1>6. /\ Instruction \in Decodable /\ Instruction.op = "Unwrap"
      /\ Instruction.least = 0 /\ Instruction.to = Call.payee
  BY <1>1, <1>3, Decodes DEF Unwrap
<1>7. UnwrapWETH
  <2>1. pc <= Len(tx.code)
    <3>1. Len(tx.code) \in Int
      BY <1>1, <1>6 DEF GivesChange, Unwrap
    <3> QED  BY <1>1, <3>1
  <2> QED  BY <1>3, <1>6, <2>1, OnlyOp
<1> HIDE DEF rest
<1>8. Books(funds, amountIn, Call.minOut, 0, 0, WETH, rest, 0)
  BY <1>2 DEF rest
<1>9. /\ funds[Router][WETH] = rest
      /\ Books(Lose(funds, Router, WETH, rest), amountIn, Call.minOut, 0, 0, WETH, 0, 0)
  <2>1. /\ funds[Router][WETH] = rest
        /\ Books(Lose(funds, Router, WETH, rest), amountIn, Call.minOut, 0, 0, WETH, rest - rest, 0)
    <3> HIDE DEF amountIn
    <3> QED  BY <1>3, <1>5, <1>8, RouterLosesAsset
  <2> QED  BY <1>5, <2>1
<1> DEFINE f == Receive(Lose(funds, Router, WETH, rest), Call.payee, NATIVE, rest)
<1>10. Proceed(f) /\ delta' = NoDelta
  <2>1. ~(rest < 0)
    BY <1>5
  <2> QED  BY <1>6, <1>7, <1>9, <2>1 DEF UnwrapWETH, Held
<1>11. Books(f, amountIn, Call.minOut, rest, 0, WETH, 0, 0)
  <2>1. Books(Receive(Lose(funds, Router, WETH, rest), Call.payee, InputAsset, rest),
              amountIn, Call.minOut, 0 + rest, 0, WETH, 0, 0)
    <3>1. 0 \in Nat
      OBVIOUS
    <3> HIDE DEF amountIn
    <3> QED  BY <1>3, <1>5, <1>9, <3>1, PayeeGetsBack
  <2> QED  BY <1>4, <1>5, <2>1
<1> HIDE DEF f
<1>12. TookEnough(took)
  BY <1>1 DEF TookEnough
<1>13. GaveEnough(Call.minOut)
  BY <1>1, <1>3 DEF GaveEnough
<1>14. Done(tx, resolves, f)
  <2>1. 0 \in Nat /\ ~(0 > 0) /\ amountIn <= amountIn
    BY <1>3
  <2> QED  BY <1>1, <1>3, <1>5, <1>11, <1>12, <1>13, <2>1, DoneSo
<1> QED  BY <1>1, <1>10, <1>14, EndsSo

(* What was sent too much goes back to the sender.                         *)
LEMMA RefundMoves ==
  ASSUME Serving, Next, delta = NoDelta, Refunds(tx, pc, funds)
  PROVE  Moves
<1> DEFINE amountIn == Call.amountIn
<1>1. /\ pc = Len(tx.code) /\ Instruction = Refund /\ ask.exactOut /\ Call.nativeIn
  BY DEF Refunds, Instruction
<1>2. PICK took \in 0..amountIn, got \in Nat :
        GaveEnough(got) /\ Books(funds, amountIn, got, 0, amountIn - took, WETH, 0, 0)
  BY DEF Refunds
<1> DEFINE rest == amountIn - took
<1>3. /\ ask \in Calls /\ status = "Running" /\ ~Late /\ amountIn \in Nat
      /\ WETH \in Asset /\ WETH # NATIVE
  BY <1>1, Served, AskedIs, Distinct
<1>4. InputAsset = NATIVE
  BY <1>1, <1>3, EdgeTypes
<1>5. /\ took \in Nat /\ rest \in Nat /\ amountIn - rest = took /\ rest - rest = 0
      /\ rest <= amountIn /\ took <= amountIn
  BY <1>3
<1>6. Instruction \in Decodable /\ Instruction.op = "Refund"
  BY <1>1, Decodes DEF Refund
<1>7. RefundETH
  <2>1. pc <= Len(tx.code)
    <3>1. Len(tx.code) \in Int
      BY <1>1, <1>6 DEF Refunds, Refund
    <3> QED  BY <1>1, <3>1
  <2> QED  BY <1>3, <1>6, <2>1, OnlyOp
<1> HIDE DEF rest
<1>8. Books(funds, amountIn, got, 0, rest, WETH, 0, 0)
  BY <1>2 DEF rest
<1>9. /\ funds[Router][NATIVE] = rest
      /\ Books(Lose(funds, Router, NATIVE, rest), amountIn, got, 0, 0, WETH, 0, 0)
  <2>1. /\ funds[Router][NATIVE] = rest
        /\ Books(Lose(funds, Router, NATIVE, rest), amountIn, got, 0, rest - rest, WETH, 0, 0)
    <3>1. rest <= rest
      BY <1>5
    <3> HIDE DEF amountIn
    <3> QED  BY <1>2, <1>3, <1>5, <1>8, <3>1, RouterLosesValue
  <2> QED  BY <1>5, <2>1
<1> DEFINE f == Receive(Lose(funds, Router, NATIVE, rest), Sender, NATIVE, rest)
<1>10. Proceed(f) /\ delta' = NoDelta
  BY <1>7, <1>9 DEF RefundETH, Move, Held, Sender
<1>11. Books(f, took, got, 0, 0, WETH, 0, 0)
  <2>1. Books(Receive(Lose(funds, Router, NATIVE, rest), Sender, InputAsset, rest),
              amountIn - rest, got, 0, 0, WETH, 0, 0)
    <3>1. 0 \in Nat
      OBVIOUS
    <3> HIDE DEF amountIn
    <3> QED  BY <1>2, <1>3, <1>5, <1>9, <3>1, SenderRefunded
  <2> QED  BY <1>4, <1>5, <2>1
<1> HIDE DEF f
<1>12. TookEnough(took)
  BY <1>1 DEF TookEnough
<1>14. Done(tx, resolves, f)
  <2>1. 0 \in Nat /\ ~(0 > 0) /\ took = took + 0 /\ took <= amountIn
    BY <1>5
  <2> QED  BY <1>2, <1>5, <1>11, <1>12, <2>1, DoneSo
<1> QED  BY <1>1, <1>10, <1>14, EndsSo

-----------------------------------------------------------------------------
(* Every step of a running transaction. *)

Settles ==
  /\ status' = "Settled" /\ Done(tx, resolves, funds)
  /\ UNCHANGED <<ask, opts, answer, tx, why, pc, funds, delta, allowance, resolves, clock>>

LEMMA EndSettles ==
  ASSUME Serving, Next, Ended(tx, resolves, pc, funds)
  PROVE  Settles
<1>1. pc = Len(tx.code) + 1 /\ Done(tx, resolves, funds)
  BY DEF Ended
<1>2. ~Running
  <2>1. \A n \in Nat : ~(n + 1 <= n)
    OBVIOUS
  <2>2. Len(tx.code) \in Nat => ~(pc <= Len(tx.code))
    BY <1>1, <2>1
  <2> QED  BY <1>1, <2>2 DEF Running
<1>3. status = "Running" /\ ~Late
  BY Served
<1>4. ~HandOver /\ ~Tick /\ ~Refuse /\ ~Send /\ ~Expire
  BY <1>3 DEF HandOver, Tick, Refuse, Send, Expire
<1>5. /\ ~ExchangeExactIn /\ ~ExchangeExactOut /\ ~WrapETH /\ ~UnwrapWETH /\ ~RefundETH
      /\ ~SwapV4ExactIn /\ ~SwapV4ExactOut /\ ~SettleDebt /\ ~TakeCredit /\ ~CloseManager
  BY <1>2 DEF ExchangeExactIn, ExchangeExactOut, WrapETH, UnwrapWETH, RefundETH,
              SwapV4ExactIn, SwapV4ExactOut, SettleDebt, TakeCredit, CloseManager, At
<1>6. Finish
  BY <1>4, <1>5, Zenon DEF Next
<1> QED  BY <1>1, <1>2, <1>6 DEF Finish, Settles

LEMMA StageMoves ==
  ASSUME Serving, Next, Stage(tx, resolves, pc, funds, delta, allowance)
  PROVE  Moves \/ Settles
<1>1. CASE delta = NoDelta /\ Wraps(tx, pc, funds, allowance)
  BY <1>1, WrapMoves
<1>2. CASE delta = NoDelta /\ Exchanging(tx, pc, funds, allowance)
  BY <1>2, ExchangeMoves
<1>3. CASE delta = NoDelta /\ After(tx, resolves, pc, funds)
  BY <1>3, EndSettles, UnwrapMoves, ChangeMoves, RefundMoves, HopsMove DEF After
<1>4. CASE Swapping(tx, pc, funds, delta, allowance)
  BY <1>4, SwappingMoves
<1>5. CASE Settling(tx, pc, funds, delta, allowance)
  BY <1>5, SettlingMoves
<1>6. CASE Taking(tx, pc, funds, delta)
  BY <1>6, TakingMoves
<1>7. CASE Closing(tx, resolves, pc, funds, delta)
  BY <1>7, ClosingMoves
<1> QED  BY <1>1, <1>2, <1>3, <1>4, <1>5, <1>6, <1>7, Zenon DEF Stage

-----------------------------------------------------------------------------
(* The invariant of a transaction. *)

Staged ==
  \E t, res, p, f, d, left :
    /\ t = tx /\ res = resolves /\ p = pc /\ f = funds /\ d = delta /\ left = allowance
    /\ Stage(t, res, p, f, d, left)
Ran ==
  \E t, res, f : t = tx /\ res = resolves /\ f = funds /\ Done(t, res, f)
Caused == \E reason : reason = why /\ CauseOf(reason)
WellSent == TakesTheInput(tx, Call) /\ Addressed(tx)

HandedOver ==
  /\ ask \in Calls /\ opts \in EncoderOptions /\ clock \in Nat
  /\ ~Direct => Resolved(opts) = "Ok"
  /\ ask.opts.deadline.kind = "AtTimestamp" => opts.deadline.at = ask.opts.deadline.at

SettleInv ==
  /\ HandedOver
  /\ status \in {"Drafted", "Asked", "Refused", "Running", "Settled", "Reverted"}
  /\ status \in {"Drafted", "Asked"} => delta = NoDelta
  /\ status = "Running" => WellSent /\ Staged
  /\ status = "Settled" => Ran
  /\ status = "Reverted" => Caused

LEMMA DoneKept ==
  ASSUME ask' = ask, opts' = opts
  PROVE  \A t, res, f : Done(t, res, f)' <=> Done(t, res, f)
BY DEF Done, Astray, GaveEnough, TookEnough, Books, Accounts, Holds, Strayed, Sender, Funded,
       InputAsset, OutputAsset, Call, Direct, LimitedOutput, UnusedValue, WrappedV4Output, Hops

LEMMA CauseKept ==
  ASSUME UNCHANGED <<ask, opts, tx, resolves, clock>>
  PROVE  \A reason : CauseOf(reason)' <=> CauseOf(reason)
BY DEF CauseOf, ChainedV4, Astray, LimitedOutput, Direct, Call, PaidByUser, SpanPools

LEMMA WellSentKept ==
  ASSUME UNCHANGED <<ask, opts, tx>>
  PROVE  WellSent' <=> WellSent
BY DEF WellSent, TakesTheInput, Addressed, Call

LEMMA HandedOverKept ==
  ASSUME HandedOver, UNCHANGED <<ask, opts>>, clock' \in Nat
  PROVE  HandedOver'
BY DEF HandedOver, Direct

LEMMA InitHandsOver ==
  ASSUME Init
  PROVE  SettleInv
<1>1. /\ ask \in Calls /\ opts = ask.opts /\ clock = 0 /\ status = "Drafted"
  BY DEF Init
<1>2. ask.opts \in EncoderOptions /\ ask.entry \in {"pool", "span"}
  BY <1>1, SettlementAssumption
<1>3. ~Direct => Resolved(opts) = "Ok"
  BY <1>1, <1>2, CallsAssumption DEF Direct
<1>4. delta = NoDelta
  BY DEF Init
<1> QED  BY <1>1, <1>2, <1>3, <1>4 DEF SettleInv, HandedOver

LEMMA HandOverKeeps ==
  ASSUME SettleInv, HandOver
  PROVE  SettleInv'
<1>1. /\ ask' = ask /\ clock' = clock /\ status' = "Asked"
      /\ opts' \in {ask.opts, Resolve(ask.opts, clock, ask.call.sender)}
  BY DEF HandOver
<1>2. /\ ask \in Calls /\ clock \in Nat /\ ask.opts \in EncoderOptions
      /\ ask.entry \in {"pool", "span"} /\ ask.call.sender \in Account
      /\ ask.entry = "span" => Resolved(ask.opts) = "Ok"
  BY Senders, SettlementAssumption, CallsAssumption DEF SettleInv, HandedOver
<1> DEFINE resolved == Resolve(ask.opts, clock, ask.call.sender)
<1>3. /\ resolved \in EncoderOptions
      /\ ask.opts.deadline.kind = "AtTimestamp" => resolved.deadline = ask.opts.deadline
      /\ Resolved(ask.opts) = "Ok" => Resolved(resolved) = "Ok"
  <2>1. /\ ask.opts.deadline.kind \in {"FromNow", "AtTimestamp", "AtBlock"}
        /\ ask.opts.deadline.at \in Nat
        /\ ask.opts.deadline \in [kind : {"FromNow", "AtTimestamp", "AtBlock"}, at : Nat]
        /\ ask.opts.recipient \in Account \cup {TheSender}
    BY <1>2 DEF EncoderOptions
  <2> DEFINE due == IF ask.opts.deadline.kind = "FromNow"
                    THEN AtTimestamp(SaturatingTime(clock + ask.opts.deadline.at))
                    ELSE ask.opts.deadline
             paid == IF ask.opts.recipient = TheSender THEN ask.call.sender ELSE ask.opts.recipient
  <2>2. due \in [kind : {"FromNow", "AtTimestamp", "AtBlock"}, at : Nat]
    <3>1. SaturatingTime(clock + ask.opts.deadline.at) \in Nat
      BY <1>2, <2>1, OptionsAssumption DEF SaturatingTime
    <3> QED  BY <2>1, <3>1 DEF AtTimestamp
  <2>3. resolved = [recipient |-> paid, sender |-> ask.call.sender, deadline |-> due]
    <3>1. resolved = [ask.opts EXCEPT !.deadline = due, !.recipient = paid,
                                      !.sender = ask.call.sender]
      BY DEF Resolve
    <3> HIDE DEF due, paid, resolved
    <3> QED  BY <1>2, <3>1 DEF EncoderOptions
  <2>4. paid \in Account
    BY <1>2, <2>1
  <2>5. resolved \in EncoderOptions
    <3> HIDE DEF due, paid, resolved
    <3> QED  BY <1>2, <2>2, <2>3, <2>4 DEF EncoderOptions
  <2>6. resolved.recipient = paid /\ resolved.deadline = due
    <3> HIDE DEF due, paid, resolved
    <3> QED  BY <2>3
  <2>7. ask.opts.deadline.kind = "AtTimestamp" => due = ask.opts.deadline
    BY <2>1
  <2>8. Resolved(ask.opts) = "Ok" => Resolved(resolved) = "Ok"
    <3>1. Resolved(ask.opts) = "Ok" =>
            ask.opts.recipient # TheSender /\ ask.opts.deadline.kind = "AtTimestamp"
      BY DEF Resolved
    <3>2. paid # TheSender
      BY <2>4, CallsAssumption
    <3> HIDE DEF due, paid, resolved
    <3> QED  BY <2>6, <2>7, <3>1, <3>2 DEF Resolved
  <2> QED  BY <2>5, <2>6, <2>7, <2>8
<1> HIDE DEF resolved
<1>4. /\ opts' \in EncoderOptions
      /\ ask.entry = "span" => Resolved(opts') = "Ok"
      /\ ask.opts.deadline.kind = "AtTimestamp" => opts'.deadline = ask.opts.deadline
  BY <1>1, <1>2, <1>3 DEF resolved
<1>5. ~Direct' => Resolved(opts') = "Ok"
  BY <1>1, <1>2, <1>4 DEF Direct
<1>6. HandedOver'
  <2>1. (Resolved(opts) = "Ok")' <=> Resolved(opts') = "Ok"
    BY DEF Resolved
  <2> QED  BY <1>1, <1>2, <1>4, <1>5, <2>1 DEF HandedOver
<1>7. delta = NoDelta /\ delta' = delta /\ NoDelta' = NoDelta
  BY DEF HandOver, SettleInv, NoDelta
<1> QED  BY <1>1, <1>6, <1>7 DEF SettleInv

(* ETH in the router, as the amount that was sent.                         *)
LEMMA ValueIs ==
  ASSUME NEW f, NEW paid, NEW got, NEW back, NEW raw \in Nat, NEW stray,
         Books(f, paid, got, back, 0, NATIVE, raw, stray)
  PROVE  Books(f, paid, got, back, raw, WETH, 0, stray)
<1>1. ASSUME NEW x \in Asset
      PROVE  f[Router][x] = (IF x = NATIVE THEN raw ELSE 0) + (IF x = WETH THEN 0 ELSE 0)
  BY Distinct DEF Books, Holds
<1> QED  BY <1>1 DEF Books, Holds

LEMMA SendBooks ==
  ASSUME ask \in Calls, NEW value, value = Value, value <= Funded[Sender][NATIVE], NEW f,
         f = [Funded EXCEPT ![Sender][NATIVE] = @ - value, ![Router][NATIVE] = @ + value]
  PROVE  Spent(f, FALSE, 0)
<1> DEFINE amountIn == Call.amountIn
<1>0. /\ amountIn \in Nat /\ Call.nativeIn \in BOOLEAN /\ Sender \in Account /\ Sender \in Holder
      /\ Sender # Router /\ Router \in Holder /\ NATIVE \in Asset /\ WETH \in Asset
      /\ Funded \in Ledger /\ 0 \in Nat /\ amountIn - 0 = amountIn
  BY EdgeTypes, AskedIs, Distinct, FundedCovers
<1>1. Books(Funded, 0, 0, 0, 0, WETH, 0, 0)
  BY OpenBooks
<1>2. CASE Call.nativeIn
  <2>1. value = amountIn /\ InputAsset = NATIVE
    BY <1>2, EdgeTypes DEF Value
  <2>2. f = Receive(Lose(Funded, Sender, InputAsset, amountIn), Router, NATIVE, amountIn)
    BY <1>0, <2>1 DEF Receive, Lose
  <2> DEFINE paid == Lose(Funded, Sender, InputAsset, amountIn)
  <2>3. Books(paid, amountIn, 0, 0, 0, WETH, 0, 0)
    <3>1. Books(paid, 0 + amountIn, 0, 0, 0, WETH, 0, 0)
      <4> HIDE DEF amountIn
      <4> QED  BY <1>0, <1>1, <2>1, SenderPays
    <3>2. 0 + amountIn = amountIn
      BY <1>0
    <3> QED  BY <3>1, <3>2
  <2> HIDE DEF paid
  <2>4. Books(f, amountIn, 0, 0, 0, NATIVE, amountIn, 0)
    <3>1. Books(Receive(paid, Router, NATIVE, amountIn), amountIn, 0, 0, 0, NATIVE, amountIn, 0)
      <4> HIDE DEF amountIn
      <4> QED  BY <1>0, <2>3, RouterGains
    <3> QED  BY <2>2, <3>1 DEF paid
  <2>5. Books(f, amountIn, 0, 0, amountIn, WETH, 0, 0)
    <3> HIDE DEF amountIn
    <3> QED  BY <1>0, <2>4, ValueIs
  <2> QED  BY <1>0, <1>2, <2>5 DEF Spent
<1>3. CASE ~Call.nativeIn
  <2>1. value = 0
    BY <1>3 DEF Value
  <2>2. f = Funded
    <3>1. Funded[Sender][NATIVE] \in Nat /\ Funded[Router][NATIVE] \in Nat
      BY <1>0 DEF Ledger
    <3>2. /\ Funded[Sender][NATIVE] - 0 = Funded[Sender][NATIVE]
          /\ Funded[Router][NATIVE] + 0 = Funded[Router][NATIVE]
      BY <3>1
    <3>3. Lose(Funded, Sender, NATIVE, 0) = Funded
      BY <1>0, <3>2 DEF Lose, Ledger
    <3>4. Receive(Funded, Router, NATIVE, 0) = Funded
      BY <1>0, <3>2 DEF Receive, Ledger
    <3>5. f = Receive(Lose(Funded, Sender, NATIVE, 0), Router, NATIVE, 0)
      BY <1>0, <2>1 DEF Receive, Lose, Ledger
    <3> QED  BY <3>3, <3>4, <3>5
  <2> QED  BY <1>1, <1>3, <2>2 DEF Spent
<1> QED  BY <1>0, <1>2, <1>3

LEMMA SendStarts ==
  ASSUME SettleInv, Send
  PROVE  SettleInv'
<1>1. /\ ask' = ask /\ opts' = opts /\ clock' = clock /\ status' = "Running" /\ tx' = Encoded
      /\ pc' = 1 /\ allowance' = Encoded.approval.amount /\ resolves' = resolves
      /\ delta' = delta /\ EncoderVerdict = "Ok"
      /\ Encoded.value <= Funded[Sender][NATIVE]
      /\ funds' = [Funded EXCEPT ![Sender][NATIVE] = @ - Encoded.value,
                                 ![Router][NATIVE] = @ + Encoded.value]
  BY DEF Send, Sender
<1>2. /\ ask \in Calls /\ opts \in EncoderOptions /\ (~Direct => Resolved(opts) = "Ok")
      /\ delta = NoDelta /\ HandedOver /\ clock \in Nat
  BY DEF SettleInv, HandedOver, Send
<1>3. TakesTheInput(Encoded, Call) /\ Starts(Encoded) /\ Addressed(Encoded)
  BY <1>1, <1>2, EncodedTakesTheInput, EncodedStarts
<1> DEFINE amountIn == Call.amountIn
<1>4. /\ Encoded.value = Value
      /\ Encoded.approval.amount = amountIn - Value
  <2>1. amountIn \in Nat /\ Call.nativeIn \in BOOLEAN
    BY <1>2, AskedIs, EdgeTypes
  <2> QED  BY <1>3, <2>1 DEF TakesTheInput, Value
<1>5. Spent(funds', FALSE, 0)
  BY <1>1, <1>2, <1>4, SendBooks
<1>6. Ready(funds', FALSE, allowance')
  BY <1>1, <1>4, <1>5 DEF Ready
<1>7. PICK f, left : f = funds' /\ left = allowance' /\ Ready(f, FALSE, left)
  BY <1>6
<1>8. Stage(Encoded, resolves, 1, f, NoDelta, left)
  <2>1. CASE StartsWithExchange(Encoded)
    <3>1. Exchanging(Encoded, 1, f, left)
      BY <1>7, <2>1 DEF Exchanging
    <3> QED  BY <3>1 DEF Stage
  <2>2. CASE StartsWithCommand(Encoded)
    <3>1. PICK sells, buys, floor, to :
            /\ Commands(Encoded, 1, sells, buys, floor, FALSE, to)
            /\ Follows(Encoded, 5, FALSE, to, buys, floor, FALSE)
      BY <2>2 DEF StartsWithCommand
    <3>2. InCommand(Encoded, 1, sells, buys, floor, FALSE, to)
      <4>1. 1 + 4 = 5
        OBVIOUS
      <4> QED  BY <3>1, <4>1 DEF InCommand
    <3>3. Swapping(Encoded, 1, f, NoDelta, left)
      BY <1>7, <3>2 DEF Swapping
    <3> QED  BY <3>3 DEF Stage
  <2>3. CASE WrapsFirst(Encoded) /\ (WrapsForCommand(Encoded) \/ WrapsForHops(Encoded))
    <3>1. Wraps(Encoded, 1, f, left)
      BY <1>7, <2>3 DEF Wraps
    <3> QED  BY <3>1 DEF Stage
  <2> QED  BY <1>3, <2>1, <2>2, <2>3 DEF Starts
<1>9. PICK t, res, p, d : /\ t = Encoded /\ res = resolves /\ p = 1 /\ d = NoDelta
                          /\ Stage(t, res, p, f, d, left)
  BY <1>8
<1>10. Stage(t, res, p, f, d, left)'
  BY <1>1, <1>9, StageKept
<1>11. Staged'
  <2>1. t = tx' /\ res = resolves' /\ p = pc' /\ f = funds' /\ d = delta' /\ left = allowance'
    BY <1>1, <1>2, <1>7, <1>9
  <2> QED  BY <1>10, <2>1 DEF Staged
<1>12. WellSent'
  <2>1. PICK u : u = Encoded /\ TakesTheInput(u, Call) /\ Addressed(u)
    BY <1>3
  <2>2. TakesTheInput(u, Call)' /\ Addressed(u)'
    BY <1>1, <2>1 DEF TakesTheInput, Addressed, Call
  <2>3. u = tx'
    BY <1>1, <2>1
  <2> QED  BY <2>2, <2>3 DEF WellSent, TakesTheInput, Addressed
<1>13. HandedOver'
  BY <1>1, <1>2, HandedOverKept
<1> QED  BY <1>1, <1>11, <1>12, <1>13 DEF SettleInv

LEMMA StagedKept ==
  ASSUME UNCHANGED <<ask, opts, tx, resolves>>,
         Stage(tx, resolves, pc', funds', delta', allowance')
  PROVE  Staged'
<1>1. PICK t, res, p, f, d, left :
        /\ t = tx /\ res = resolves /\ p = pc' /\ f = funds' /\ d = delta' /\ left = allowance'
        /\ Stage(t, res, p, f, d, left)
  OBVIOUS
<1>2. Stage(t, res, p, f, d, left)'
  BY <1>1, StageKept
<1>3. t = tx' /\ res = resolves'
  BY <1>1
<1> QED  BY <1>1, <1>2, <1>3 DEF Staged

LEMMA RanKept ==
  ASSUME UNCHANGED <<ask, opts, tx, resolves>>, Done(tx, resolves, funds')
  PROVE  Ran'
<1>1. PICK t, res, f : t = tx /\ res = resolves /\ f = funds' /\ Done(t, res, f)
  OBVIOUS
<1>2. Done(t, res, f)'
  BY <1>1, DoneKept
<1>3. t = tx' /\ res = resolves'
  BY <1>1
<1> QED  BY <1>1, <1>2, <1>3 DEF Ran

LEMMA CausedKept ==
  ASSUME UNCHANGED <<ask, opts, tx, resolves, clock>>, CauseOf(why')
  PROVE  Caused'
<1>1. PICK reason : reason = why' /\ CauseOf(reason)
  OBVIOUS
<1>2. CauseOf(reason)'
  BY <1>1, CauseKept
<1> QED  BY <1>1, <1>2 DEF Caused

LEMMA StagedIs ==
  Staged => Stage(tx, resolves, pc, funds, delta, allowance)
BY DEF Staged

LEMMA RevertsInv ==
  ASSUME SettleInv, NEW reason, Revert(reason), CauseOf(reason)
  PROVE  SettleInv'
<1>1. /\ UNCHANGED <<ask, opts, tx, resolves, clock>> /\ status' = "Reverted" /\ why' = reason
  BY DEF Revert
<1>2. Caused'
  BY <1>1, CausedKept
<1>3. HandedOver'
  BY <1>1, HandedOverKept DEF SettleInv, HandedOver
<1> QED  BY <1>1, <1>2, <1>3 DEF SettleInv

LEMMA LateExpires ==
  ASSUME status = "Running", Late, Next
  PROVE  Revert("Expired")
<1>1. ~HandOver /\ ~Tick /\ ~Refuse /\ ~Send /\ ~Finish
  BY DEF HandOver, Tick, Refuse, Send, Finish
<1>2. ~Running
  BY DEF Running
<1>3. /\ ~ExchangeExactIn /\ ~ExchangeExactOut /\ ~WrapETH /\ ~UnwrapWETH /\ ~RefundETH
      /\ ~SwapV4ExactIn /\ ~SwapV4ExactOut /\ ~SettleDebt /\ ~TakeCredit /\ ~CloseManager
  BY <1>2 DEF ExchangeExactIn, ExchangeExactOut, WrapETH, UnwrapWETH, RefundETH,
              SwapV4ExactIn, SwapV4ExactOut, SettleDebt, TakeCredit, CloseManager, At
<1>4. Expire
  BY <1>1, <1>3, Zenon DEF Next
<1> QED  BY <1>4 DEF Expire

LEMMA RunningKeeps ==
  ASSUME SettleInv, status = "Running", Next
  PROVE  SettleInv'
<1>1. CASE Late
  <2>1. Revert("Expired")
    BY <1>1, LateExpires
  <2>2. CauseOf("Expired")
    BY <1>1 DEF CauseOf, Late
  <2> QED  BY <2>1, <2>2, RevertsInv
<1>2. CASE ~Late
  <2>1. Serving /\ Stage(tx, resolves, pc, funds, delta, allowance)
    BY <1>2, StagedIs DEF SettleInv, Serving, WellSent, HandedOver
  <2>2. Moves \/ Settles
    BY <2>1, StageMoves
  <2>3. CASE Advances
    <3>1. UNCHANGED <<ask, opts, tx, status, resolves, clock>>
      BY <2>3 DEF Advances
    <3>2. Staged'
      BY <2>3, <3>1, StagedKept DEF Advances
    <3>3. WellSent'
      BY <3>1, WellSentKept DEF SettleInv
    <3>4. HandedOver'
      BY <3>1, HandedOverKept DEF SettleInv, HandedOver
    <3> QED  BY <3>1, <3>2, <3>3, <3>4 DEF SettleInv
  <2>4. CASE FailsRightly
    <3>1. PICK reason : Revert(reason) /\ CauseOf(reason)
      BY <2>4 DEF FailsRightly
    <3> QED  BY <3>1, RevertsInv
  <2>5. CASE Settles
    <3>1. UNCHANGED <<ask, opts, tx, resolves, clock, funds>> /\ status' = "Settled"
      BY <2>5 DEF Settles
    <3>2. Ran'
      BY <2>5, <3>1, RanKept DEF Settles
    <3>3. HandedOver'
      BY <3>1, HandedOverKept DEF SettleInv, HandedOver
    <3> QED  BY <3>1, <3>2, <3>3 DEF SettleInv
  <2> QED  BY <2>2, <2>3, <2>4, <2>5 DEF Moves
<1> QED  BY <1>1, <1>2

LEMMA StillKeeps ==
  ASSUME SettleInv, UNCHANGED vars
  PROVE  SettleInv'
<1>1. /\ UNCHANGED <<ask, opts, tx, status, why, resolves, clock>>
      /\ UNCHANGED <<pc, funds, delta, allowance>>
  BY DEF vars
<1>2. HandedOver'
  BY <1>1, HandedOverKept DEF SettleInv, HandedOver
<1>3. CASE status = "Running"
  <2>1. Stage(tx, resolves, pc', funds', delta', allowance')
    <3>1. PICK p, f, d, left : /\ p = pc /\ f = funds /\ d = delta /\ left = allowance
                               /\ Stage(tx, resolves, p, f, d, left)
      BY <1>3, StagedIs DEF SettleInv
    <3>2. p = pc' /\ f = funds' /\ d = delta' /\ left = allowance'
      BY <1>1, <3>1
    <3> QED  BY <3>1, <3>2
  <2>2. Staged'
    BY <1>1, <2>1, StagedKept
  <2>3. WellSent'
    BY <1>1, <1>3, WellSentKept DEF SettleInv
  <2> QED  BY <1>1, <1>2, <1>3, <2>2, <2>3 DEF SettleInv
<1>4. CASE status = "Settled"
  <2>1. PICK f : f = funds /\ Done(tx, resolves, f)
    BY <1>4 DEF SettleInv, Ran
  <2>2. Done(tx, resolves, funds')
    BY <1>1, <2>1
  <2>3. Ran'
    BY <1>1, <2>2, RanKept
  <2> QED  BY <1>1, <1>2, <1>4, <2>3 DEF SettleInv
<1>5. CASE status = "Reverted"
  <2>1. PICK reason : reason = why /\ CauseOf(reason)
    BY <1>5 DEF SettleInv, Caused
  <2>2. CauseOf(why')
    BY <1>1, <2>1
  <2>3. Caused'
    BY <1>1, <2>2, CausedKept
  <2> QED  BY <1>1, <1>2, <1>5, <2>3 DEF SettleInv
<1>6. CASE status \in {"Drafted", "Asked", "Refused"}
  <2>1. NoDelta' = NoDelta
    BY DEF NoDelta
  <2> QED  BY <1>1, <1>2, <1>6, <2>1 DEF SettleInv
<1> QED  BY <1>3, <1>4, <1>5, <1>6 DEF SettleInv

LEMMA WaitingKeeps ==
  ASSUME SettleInv, Tick \/ Refuse
  PROVE  SettleInv'
<1>1. /\ UNCHANGED <<ask, opts, delta>> /\ clock' \in Nat
      /\ status' \in {"Drafted", "Asked", "Refused"} /\ status \in {"Drafted", "Asked"}
  BY DEF SettleInv, HandedOver, Tick, Refuse
<1>2. HandedOver'
  BY <1>1, HandedOverKept DEF SettleInv
<1>3. delta' = NoDelta'
  BY <1>1 DEF SettleInv, NoDelta
<1> QED  BY <1>1, <1>2, <1>3 DEF SettleInv

LEMMA IdleSteps ==
  ASSUME Next, status # "Running"
  PROVE  HandOver \/ Tick \/ Refuse \/ Send
<1>1. ~Running
  BY DEF Running
<1>2. /\ ~ExchangeExactIn /\ ~ExchangeExactOut /\ ~WrapETH /\ ~UnwrapWETH /\ ~RefundETH
      /\ ~SwapV4ExactIn /\ ~SwapV4ExactOut /\ ~SettleDebt /\ ~TakeCredit /\ ~CloseManager
  BY <1>1 DEF ExchangeExactIn, ExchangeExactOut, WrapETH, UnwrapWETH, RefundETH,
              SwapV4ExactIn, SwapV4ExactOut, SettleDebt, TakeCredit, CloseManager, At
<1>3. ~Expire /\ ~Finish
  BY DEF Expire, Finish
<1> QED  BY <1>2, <1>3, Zenon DEF Next

LEMMA NextKeeps ==
  ASSUME SettleInv, [Next]_vars
  PROVE  SettleInv'
<1>1. CASE UNCHANGED vars
  BY <1>1, StillKeeps
<1>2. CASE Next /\ status = "Running"
  BY <1>2, RunningKeeps
<1>3. CASE Next /\ status # "Running"
  BY <1>3, IdleSteps, HandOverKeeps, WaitingKeeps, SendStarts
<1> QED  BY <1>1, <1>2, <1>3

LEMMA SettleInvAlways == Spec => []SettleInv
<1>1. Init => SettleInv
  BY InitHandsOver
<1>2. SettleInv /\ [Next]_vars => SettleInv'
  BY NextKeeps
<1> QED  BY <1>1, <1>2, PTL DEF Spec

-----------------------------------------------------------------------------
(* NothingStranded, for every transaction of every encoder: the last stage *)
(* of each sweeps, unwraps or refunds what the ones before it left on the  *)
(* router, and what remains is value no stage was written to use, or the   *)
(* output of a router that does not know the sentinel for itself.          *)
THEOREM NothingStrandedAlways == Spec => []NothingStranded
<1>1. SettleInv => NothingStranded
  <2> SUFFICES ASSUME SettleInv, status = "Settled", NEW asset \in Asset
               PROVE  /\ funds[Router][asset] > 0 => UnusedValue /\ asset = NATIVE
                      /\ funds[AddressThis][asset] > 0 => SentinelUnknown /\ Call.minOut = 0
    BY DEF NothingStranded
  <2>1. Done(tx, resolves, funds)
    BY DEF SettleInv, Ran
  <2>2. PICK spent \in Nat, got \in Nat, back \in Nat, value \in Nat, stray \in Nat :
          /\ value > 0 => UnusedValue
          /\ stray > 0 => Astray(tx, resolves) /\ Call.minOut = 0
          /\ Books(funds, spent + back, got, back, value, WETH, 0, stray)
    BY <2>1 DEF Done
  <2>3. /\ funds[Router][asset] = (IF asset = NATIVE THEN value ELSE 0) + (IF asset = WETH THEN 0 ELSE 0)
        /\ funds[AddressThis][asset] = IF asset = WETH THEN stray ELSE 0
    BY <2>2 DEF Books, Holds, Strayed
  <2>4. funds[Router][asset] > 0 => asset = NATIVE /\ value > 0
    BY <2>3
  <2>5. funds[AddressThis][asset] > 0 => stray > 0
    BY <2>3
  <2> QED  BY <2>2, <2>4, <2>5 DEF Astray, SentinelUnknown
<1> QED  BY <1>1, SettleInvAlways, PTL

(* RevertsForCause: an instruction finds the balance it pays out, so that  *)
(* only the market, a late block or an unknown sentinel ends a transaction *)
(* before its last instruction.                                            *)
THEOREM RevertsForCauseAlways == Spec => []RevertsForCause
<1>1. SettleInv => RevertsForCause
  <2> SUFFICES ASSUME SettleInv, status = "Reverted" PROVE RevertsForCause
    BY DEF RevertsForCause
  <2>1. CauseOf(why)
    BY DEF SettleInv, Caused
  <2> QED  BY <2>1 DEF CauseOf, RevertsForCause, MarketFailed, Astray, SentinelUnknown
<1> QED  BY <1>1, SettleInvAlways, PTL

-----------------------------------------------------------------------------
(* A transaction as a sale. *)

SaleState ==
  CASE status = "Settled" -> "Filled"
    [] status \in {"Reverted", "Refused"} -> "Failed"
    [] status = "Drafted" -> "Draft"
    [] OTHER -> "Open"
SaleWallet == AccountsHave(IF status = "Settled" THEN funds ELSE Funded)

LEMMA SaleStateIs ==
  /\ status = "Settled" => SaleState = "Filled"
  /\ status \in {"Reverted", "Refused"} => SaleState = "Failed"
  /\ status = "Drafted" => SaleState = "Draft"
  /\ status \in {"Asked", "Running"} => SaleState = "Open"
BY DEF SaleState

LEMMA SaleStateNext ==
  /\ status' = "Settled" => SaleState' = "Filled"
  /\ status' \in {"Reverted", "Refused"} => SaleState' = "Failed"
  /\ status' = "Drafted" => SaleState' = "Draft"
  /\ status' \in {"Asked", "Running"} => SaleState' = "Open"
BY DEF SaleState

LEMMA TermsKept ==
  ASSUME ask' = ask, opts' = opts
  PROVE  Terms' = Terms
BY DEF Terms, Prepared, Call, LimitedOutput, WrappedV4Output, Direct

LEMMA WalletKept ==
  ASSUME ask' = ask, status # "Settled", status' # "Settled"
  PROVE  SaleWallet' = SaleWallet
<1>1. Funded' = Funded
  BY DEF Funded, InputAsset
<1> QED  BY <1>1 DEF SaleWallet, AccountsHave

LEMMA TermsAre ==
  /\ Terms.sender = Sender /\ Terms.payee = Call.payee
  /\ Terms.amountIn = Call.amountIn /\ Terms.minOut = Call.minOut
  /\ Terms.exactOut = ask.exactOut
  /\ Terms.changeTo = IF WrappedV4Output THEN Call.payee ELSE Sender
  /\ ask \in Calls => Terms.sells = InputAsset /\ Terms.buys = OutputAsset
BY EdgeTypes DEF Terms, Prepared, Sender

(* Its amounts and its hour are those of the terms.                        *)
LEMMA DoneHonours ==
  ASSUME ask \in Calls, NEW got, NEW spent, TookEnough(spent), GaveEnough(got)
  PROVE  Promise!Honours(got, spent)
<1>0. /\ ask.exactOut \in BOOLEAN /\ Call.amountIn \in Nat /\ Call.minOut \in Nat
      /\ MaxPayout \in Nat
  BY EdgeTypes, AskedIs
<1>1. /\ Terms.amountIn = Call.amountIn /\ Terms.minOut = Call.minOut
      /\ Terms.exactOut = ask.exactOut
  BY TermsAre
<1>2. CASE ask.exactOut
  <2>1. Terms.mayStop <=> LimitedOutput /\ ~Call.nativeOut
    BY <1>2 DEF Terms, Prepared
  <2>2. /\ spent <= Call.amountIn
        /\ got <= Call.minOut /\ got \in Nat
        /\ got < Call.minOut => LimitedOutput /\ ~Call.nativeOut
    BY <1>0, <1>2 DEF TookEnough, GaveEnough
  <2>3. ~Terms.mayStop => got = Call.minOut
    BY <1>0, <2>1, <2>2
  <2> QED  BY <1>1, <1>2, <2>2, <2>3 DEF Promise!Honours
<1>3. CASE ~ask.exactOut
  <2>1. Terms.mayStop <=> Limited(Call) /\ Hops = 1 /\ ~Call.nativeIn
    <3>1. ~LimitedOutput
      BY <1>3 DEF LimitedOutput
    <3> QED  BY <1>3, <3>1 DEF Terms, Prepared, Limited, Hops
  <2>2. /\ got >= Call.minOut /\ spent <= Call.amountIn /\ spent \in Nat
        /\ spent < Call.amountIn => Limited(Call) /\ Hops = 1 /\ ~Call.nativeIn
    BY <1>0, <1>3 DEF TookEnough, GaveEnough
  <2>3. ~Terms.mayStop => spent = Call.amountIn
    BY <1>0, <2>1, <2>2
  <2> QED  BY <1>1, <1>3, <2>2, <2>3 DEF Promise!Honours
<1> QED  BY <1>0, <1>2, <1>3

LEMMA InTime ==
  ASSUME HandedOver, Addressed(tx), ~Late
  PROVE  Terms.expires => clock <= Terms.deadline
<1>1. Terms.expires <=> Call.span.kind # "Curve"
  BY DEF Terms, Prepared
<1>2. Terms.deadline = opts.deadline.at
  BY DEF Terms, Prepared, HandedOver
<1>3. opts.deadline.at \in Nat /\ clock \in Nat
  BY DEF HandedOver, EncoderOptions
<1>4. Call.span.kind # "Curve" => ~(clock > opts.deadline.at)
  BY DEF Addressed, Late
<1> QED  BY <1>1, <1>2, <1>3, <1>4

(* What the accounts have after it is what the promise says.               *)
LEMMA DoneMoves ==
  ASSUME ask \in Calls, Call.payee \in Account,
         NEW f, NEW spent \in Nat, NEW got \in Nat, NEW back \in Nat, NEW value, NEW asset,
         NEW raw, NEW stray, Books(f, spent + back, got, back, value, asset, raw, stray),
         NEW change, change = IF Call.payee = Sender THEN 0 ELSE back,
         NEW to \in Account, change > 0 => to = Call.payee
  PROVE  AccountsHave(f)
           = [Promise!Moved(Promise!Moved(AccountsHave(Funded), Call.payee, OutputAsset, got),
                            to, InputAsset, change)
              EXCEPT ![Sender][InputAsset] = @ - (spent + change)]
<1>1. /\ f \in Ledger /\ Funded \in Ledger /\ Account \subseteq Holder
      /\ OutputAsset \in Asset /\ InputAsset \in Asset /\ Sender \in Account
      /\ change \in Nat /\ got \in Int /\ change \in Int
  BY EdgeTypes, Distinct, FundedCovers DEF Books
<1> DEFINE w0 == AccountsHave(Funded)
           w1 == Promise!Moved(w0, Call.payee, OutputAsset, got)
           w2 == Promise!Moved(w1, to, InputAsset, change)
           w3 == [w2 EXCEPT ![Sender][InputAsset] = @ - (spent + change)]
           w4 == AccountsHave(f)
<1>2. /\ w0 \in [Account -> [Asset -> Int]] /\ w4 \in [Account -> [Asset -> Int]]
      /\ \A h \in Account, x \in Asset : w0[h][x] = Funded[h][x] /\ w4[h][x] = f[h][x]
  BY <1>1 DEF AccountsHave, Ledger
<1> HIDE DEF w0, w4
<1>3. /\ w1 \in [Account -> [Asset -> Int]]
      /\ \A h \in Account, x \in Asset :
           w1[h][x] = w0[h][x] + (IF h = Call.payee /\ x = OutputAsset THEN got ELSE 0)
  BY <1>1, <1>2 DEF Promise!Moved
<1> HIDE DEF w1
<1>4. /\ w2 \in [Account -> [Asset -> Int]]
      /\ \A h \in Account, x \in Asset :
           w2[h][x] = w1[h][x] + (IF h = to /\ x = InputAsset THEN change ELSE 0)
  BY <1>1, <1>3 DEF Promise!Moved
<1> HIDE DEF w2
<1>5. /\ w3 \in [Account -> [Asset -> Int]]
      /\ \A h \in Account, x \in Asset :
           w3[h][x] = w2[h][x] - (IF h = Sender /\ x = InputAsset THEN spent + change ELSE 0)
  BY <1>1, <1>4
<1> HIDE DEF w3
<1>6. ASSUME NEW h \in Account, NEW x \in Asset
      PROVE  w4[h][x] = w3[h][x]
  <2>1. f[h][x] = Funded[h][x]
               + (IF h = Call.payee /\ x = OutputAsset THEN got ELSE 0)
               + (IF h = Call.payee /\ x = InputAsset THEN back ELSE 0)
               - (IF h = Sender /\ x = InputAsset THEN spent + back ELSE 0)
    BY DEF Books, Accounts
  <2>2. w3[h][x] = Funded[h][x]
               + (IF h = Call.payee /\ x = OutputAsset THEN got ELSE 0)
               + (IF h = to /\ x = InputAsset THEN change ELSE 0)
               - (IF h = Sender /\ x = InputAsset THEN spent + change ELSE 0)
    <3>1. w0[h][x] = Funded[h][x]
      BY <1>2
    <3>2. w1[h][x] = w0[h][x] + (IF h = Call.payee /\ x = OutputAsset THEN got ELSE 0)
      BY <1>3
    <3>3. w2[h][x] = w1[h][x] + (IF h = to /\ x = InputAsset THEN change ELSE 0)
      BY <1>4
    <3>4. w3[h][x] = w2[h][x] - (IF h = Sender /\ x = InputAsset THEN spent + change ELSE 0)
      BY <1>5
    <3>5. Funded[h][x] \in Nat
      BY <1>1 DEF Ledger
    <3> QED  BY <1>1, <3>1, <3>2, <3>3, <3>4, <3>5
  <2>3. Funded[h][x] \in Nat
    BY <1>1 DEF Ledger
  <2>4. w4[h][x] = f[h][x]
    BY <1>2
  <2>5. CASE Call.payee = Sender
    <3>1. change = 0
      BY <2>5
    <3> QED  BY <2>1, <2>2, <2>3, <2>4, <2>5, <3>1
  <2>6. CASE Call.payee # Sender
    <3>1. change = back /\ (back > 0 => to = Call.payee)
      BY <2>6
    <3> QED  BY <2>1, <2>2, <2>3, <2>4, <2>6, <3>1
  <2> QED  BY <2>5, <2>6
<1>7. w4 = w3
  BY <1>2, <1>5, <1>6
<1> QED  BY <1>7 DEF w0, w1, w2, w3, w4

(* The sender has the input before.                                        *)
LEMMA InputInWallet ==
  ASSUME ask \in Calls, status = "Running"
  PROVE  /\ SaleWallet = AccountsHave(Funded)
         /\ Call.amountIn <= SaleWallet[Sender][InputAsset]
<1>1. SaleWallet = AccountsHave(Funded)
  BY DEF SaleWallet
<1>2. Sender \in Account /\ InputAsset \in Asset /\ Call.amountIn \in Nat /\ Savings \in Nat
      /\ Call.amountIn = ask.call.amountIn
  BY EdgeTypes, AskedIs, Distinct
<1>3. Funded[Sender][InputAsset] = Savings + Call.amountIn
  BY <1>2, FundedCovers DEF Sender
<1>4. SaleWallet[Sender][InputAsset] = Funded[Sender][InputAsset]
  BY <1>1, <1>2 DEF AccountsHave
<1> QED  BY <1>1, <1>2, <1>3, <1>4

LEMMA SettlesFills ==
  ASSUME SettleInv, Serving, Settles
  PROVE  Promise!Fill
<1>1. /\ ask \in Calls /\ Call.payee \in Account /\ status = "Running" /\ status' = "Settled"
      /\ HandedOver /\ Addressed(tx) /\ ~Late
      /\ ask' = ask /\ opts' = opts /\ clock' = clock /\ funds' = funds
      /\ Call.amountIn \in Nat /\ MaxPayout \in Nat /\ Call.amountIn \in 1..MaxPayout
      /\ Sender \in Account
  BY Served, EdgeTypes, AskedIs DEF Settles, SettleInv, Serving
<1>2. PICK spent \in Nat, got \in Nat, back \in Nat, value \in Nat, stray \in Nat :
        /\ TookEnough(spent) /\ GaveEnough(got) /\ spent + back <= Call.amountIn
        /\ back > 0 => WrappedV4Output
        /\ Books(funds, spent + back, got, back, value, WETH, 0, stray)
  BY DEF Settles, Done
<1> DEFINE change == IF Call.payee = Sender THEN 0 ELSE back
<1>3. /\ change \in Nat /\ got \in 0..MaxPayout /\ spent \in 0..MaxPayout
      /\ change \in 0..MaxPayout /\ spent + change <= Call.amountIn
      /\ change > 0 => back > 0 /\ Call.payee # Sender
  BY <1>1, <1>2 DEF GaveEnough
<1>4. PICK to : to = Terms.changeTo
  OBVIOUS
<1>5. /\ to \in Account /\ (change > 0 => to = Call.payee)
      /\ (change > 0 => Terms.changeTo # Terms.sender)
  <2>1. Terms.changeTo = (IF WrappedV4Output THEN Call.payee ELSE Sender) /\ Terms.sender = Sender
    BY TermsAre
  <2> HIDE DEF change
  <2> QED  BY <1>1, <1>2, <1>3, <1>4, <2>1
<1> HIDE DEF change
<1>6. AccountsHave(funds)
        = [Promise!Moved(Promise!Moved(AccountsHave(Funded), Call.payee, OutputAsset, got),
                         to, InputAsset, change)
           EXCEPT ![Sender][InputAsset] = @ - (spent + change)]
  BY <1>1, <1>2, <1>3, <1>5, DoneMoves DEF change
<1>7. /\ SaleState = "Open" /\ SaleState' = "Filled"
      /\ SaleWallet = AccountsHave(Funded) /\ SaleWallet' = AccountsHave(funds)
      /\ Terms' = Terms
  <2>1. SaleWallet' = AccountsHave(funds)
    BY <1>1 DEF SaleWallet, AccountsHave
  <2> QED  BY <1>1, <2>1, SaleStateIs, SaleStateNext, InputInWallet, TermsKept
<1>8. /\ Terms.payee = Call.payee /\ Terms.sender = Sender /\ Terms.amountIn = Call.amountIn
      /\ Terms.sells = InputAsset /\ Terms.buys = OutputAsset
  BY <1>1, TermsAre
<1>9. spent + change <= SaleWallet[Sender][InputAsset]
  <2>1. Call.amountIn <= SaleWallet[Sender][InputAsset]
    BY <1>1, InputInWallet
  <2>2. SaleWallet[Sender][InputAsset] \in Nat
    BY <1>1, FundedCovers, EdgeTypes, InputInWallet, Distinct DEF AccountsHave, Ledger
  <2> QED  BY <1>1, <1>2, <1>3, <2>1, <2>2
<1>10. SaleWallet'
         = [Promise!Moved(Promise!Moved(SaleWallet, Terms.payee, Terms.buys, got),
                          Terms.changeTo, Terms.sells, change)
            EXCEPT ![Terms.sender][Terms.sells] = @ - (spent + change)]
  BY <1>4, <1>6, <1>7, <1>8
<1>11. Promise!Honours(got, spent)
  BY <1>1, <1>2, DoneHonours
<1>12. Terms.expires => clock <= Terms.deadline
  BY <1>1, InTime
<1>13. \E g \in 0..MaxPayout, s \in 0..MaxPayout, c \in 0..MaxPayout :
         LET paid == s + c
         IN  /\ Promise!Honours(g, s) /\ paid <= Terms.amountIn
             /\ c > 0 => Terms.changeTo # Terms.sender
             /\ paid <= SaleWallet[Terms.sender][Terms.sells]
             /\ SaleWallet' = [Promise!Moved(Promise!Moved(SaleWallet, Terms.payee, Terms.buys, g),
                                             Terms.changeTo, Terms.sells, c)
                               EXCEPT ![Terms.sender][Terms.sells] = @ - paid]
  BY <1>3, <1>5, <1>8, <1>9, <1>10, <1>11
<1> QED  BY <1>1, <1>7, <1>12, <1>13 DEF Promise!Fill, SaleState, SaleWallet

LEMMA SaleSteps ==
  ASSUME SettleInv, [Next]_vars
  PROVE  [Promise!Next]_(Promise!vars)
<1>0. SettleInv'
  BY NextKeeps
<1>1. ASSUME Terms' = Terms, SaleState' = SaleState, SaleWallet' = SaleWallet, clock' = clock
      PROVE  UNCHANGED Promise!vars
  BY <1>1 DEF Promise!vars, SaleState, SaleWallet
<1>2. ASSUME Terms' = Terms, SaleState = "Open", SaleState' = "Failed",
             SaleWallet' = SaleWallet, clock' = clock
      PROVE  Promise!Fail
  BY <1>2 DEF Promise!Fail, SaleState, SaleWallet
<1>3. CASE UNCHANGED vars
  <2>1. UNCHANGED <<ask, opts, status, funds, clock>>
    BY <1>3 DEF vars
  <2>2. SaleState' = SaleState
    BY <2>1 DEF SaleState
  <2>3. SaleWallet' = SaleWallet
    BY <2>1 DEF SaleWallet, AccountsHave, Funded, InputAsset
  <2> QED  BY <1>1, <2>1, <2>2, <2>3, TermsKept
<1>4. CASE Next /\ status = "Running"
  <2>1. ASSUME NEW reason, Revert(reason) PROVE Promise!Fail
    <3>1. UNCHANGED <<ask, opts, clock>> /\ status' = "Reverted"
      BY <2>1 DEF Revert
    <3>2. SaleWallet' = SaleWallet
      BY <1>4, <3>1, WalletKept
    <3> QED  BY <1>2, <1>4, <3>1, <3>2, SaleStateIs, SaleStateNext, TermsKept
  <2>2. CASE Late
    BY <1>4, <2>1, <2>2, LateExpires DEF Promise!Next
  <2>3. CASE ~Late
    <3>1. Serving /\ Stage(tx, resolves, pc, funds, delta, allowance)
      BY <1>4, <2>3, StagedIs DEF SettleInv, Serving, WellSent, HandedOver
    <3>2. Moves \/ Settles
      BY <1>4, <3>1, StageMoves
    <3>3. CASE Advances
      <4>1. UNCHANGED <<ask, opts, clock, status>>
        BY <3>3 DEF Advances
      <4>2. SaleWallet' = SaleWallet
        BY <1>4, <4>1, WalletKept
      <4>3. SaleState' = SaleState
        BY <4>1 DEF SaleState
      <4> QED  BY <1>1, <4>1, <4>2, <4>3, TermsKept
    <3>4. CASE FailsRightly
      BY <2>1, <3>4 DEF FailsRightly, Promise!Next
    <3>5. CASE Settles
      BY <3>1, <3>5, SettlesFills DEF Promise!Next
    <3> QED  BY <3>2, <3>3, <3>4, <3>5 DEF Moves
  <2> QED  BY <2>2, <2>3
<1>5. CASE HandOver
  <2>1. ask' = ask /\ clock' = clock /\ status = "Drafted" /\ status' = "Asked"
    BY <1>5 DEF HandOver
  <2>2. SaleWallet' = SaleWallet
    BY <2>1, WalletKept
  <2>3. SaleState = "Draft" /\ SaleState' = "Open"
    BY <2>1, SaleStateIs, SaleStateNext
  <2>4. Promise!Agree
    BY <2>1, <2>2, <2>3 DEF Promise!Agree, SaleState, SaleWallet
  <2> QED  BY <2>4 DEF Promise!Next
<1>6. CASE Tick
  <2>1. /\ ask' = ask /\ opts' = opts /\ clock' = clock + 1 /\ status' = status
        /\ status \in {"Drafted", "Asked"}
    BY <1>6 DEF Tick
  <2>2. SaleWallet' = SaleWallet
    BY <2>1, WalletKept
  <2>3. SaleState' = SaleState
    BY <2>1 DEF SaleState
  <2>4. clock' > clock
    BY <2>1 DEF SettleInv, HandedOver
  <2>5. Promise!Wait
    BY <2>1, <2>2, <2>3, <2>4, TermsKept DEF Promise!Wait, SaleState, SaleWallet
  <2> QED  BY <2>5 DEF Promise!Next
<1>7. CASE Refuse
  <2>1. UNCHANGED <<ask, opts, clock>> /\ status = "Asked" /\ status' = "Refused"
    BY <1>7 DEF Refuse
  <2>2. SaleWallet' = SaleWallet
    BY <2>1, WalletKept
  <2>3. Promise!Fail
    BY <1>2, <2>1, <2>2, SaleStateIs, SaleStateNext, TermsKept
  <2> QED  BY <2>3 DEF Promise!Next
<1>8. CASE Send
  <2>1. UNCHANGED <<ask, opts, clock>> /\ status = "Asked" /\ status' = "Running"
    BY <1>8 DEF Send
  <2>2. SaleWallet' = SaleWallet
    BY <2>1, WalletKept
  <2>3. SaleState' = SaleState
    BY <2>1, SaleStateIs, SaleStateNext
  <2> QED  BY <1>1, <2>1, <2>2, <2>3, TermsKept
<1>9. CASE Next /\ status # "Running"
  BY <1>5, <1>6, <1>7, <1>8, <1>9, IdleSteps
<1> QED  BY <1>3, <1>4, <1>9

(* OneSaleOrNone, for every transaction of every encoder: whatever the    *)
(* route, the router and the market do, the accounts see one sale or none. *)
THEOREM OneSaleOrNoneAlways == Spec => OneSaleOrNone
<1>1. Init => Promise!Init
  BY SaleStateIs DEF Init, Promise!Init, SaleState
<1>2. SettleInv /\ [Next]_vars => [Promise!Next]_(Promise!vars)
  BY SaleSteps
<1> QED  BY <1>1, <1>2, SettleInvAlways, PTL DEF Spec, OneSaleOrNone, Promise!Spec

-----------------------------------------------------------------------------
(* The way a transaction goes. *)

(* A pool of two coins is found by its pair and its tier, which survives   *)
(* the three bytes it is written in.                                       *)
Trades(pool, x, y) ==
  /\ pool \in Pool /\ RouterKindOf(pool) # "Curve"
  /\ x # y /\ {x, y} \subseteq AssetsOf[pool]
Found(pool, x, y) ==
  /\ AssetsOf[pool] = {x, y} /\ PoolsOf(KindOf[pool], {x, y}, TierOf[pool]) = {pool}
  /\ DOMAIN Coins[pool] = 1..2 /\ {Coins[pool][1], Coins[pool][2]} = {x, y}
  /\ Int24(ThreeBytes(TierOf[pool])) = TierOf[pool]

LEMMA TierReadBack ==
  ASSUME NEW tier \in -2^23..2^23 - 1
  PROVE  Int24(ThreeBytes(tier)) = tier
<1>1. 2^23 = 8388608 /\ 2^24 = 16777216
  OBVIOUS
<1>2. CASE tier >= 0
  <2>1. tier % 16777216 = tier
    BY <1>1, <1>2
  <2> QED  BY <1>1, <1>2, <2>1 DEF Int24, ThreeBytes
<1>3. CASE tier < 0
  <2>1. tier % 16777216 = tier + 16777216
    BY <1>1, <1>3
  <2> QED  BY <1>1, <1>3, <2>1 DEF Int24, ThreeBytes
<1> QED  BY <1>1, <1>2, <1>3

LEMMA PairPool ==
  ASSUME NEW pool, NEW x, NEW y, Trades(pool, x, y)
  PROVE  Found(pool, x, y)
<1>0. /\ pool \in Pool /\ RouterKindOf(pool) # "Curve"
      /\ x # y /\ {x, y} \subseteq AssetsOf[pool]
  BY DEF Trades
<1>1. DOMAIN Coins[pool] = 1..2 /\ Range(Coins[pool]) = AssetsOf[pool]
  BY <1>0, PathsAssumption
<1>2. AssetsOf[pool] = {Coins[pool][1], Coins[pool][2]}
  <2>1. \A i : i \in 1..2 <=> i = 1 \/ i = 2
    OBVIOUS
  <2> QED  BY <1>1, <2>1 DEF Range
<1>3. AssetsOf[pool] = {x, y}
  BY <1>0, <1>2
<1>4. ASSUME NEW other \in Pool, KindOf[other] = KindOf[pool],
             AssetsOf[other] = AssetsOf[pool], TierOf[other] = TierOf[pool]
      PROVE  other = pool
  BY <1>0, <1>4, PathsAssumption
<1>5. PoolsOf(KindOf[pool], {x, y}, TierOf[pool]) = {pool}
  BY <1>0, <1>3, <1>4 DEF PoolsOf
<1>6. TierOf[pool] \in -2^23..2^23 - 1
  BY <1>0, PathsAssumption
<1>7. Int24(ThreeBytes(TierOf[pool])) = TierOf[pool]
  BY <1>6, TierReadBack
<1>8. {Coins[pool][1], Coins[pool][2]} = {x, y}
  BY <1>2, <1>3
<1> QED  BY <1>1, <1>3, <1>5, <1>7, <1>8 DEF Found

(* What a path of tokens and tiers holds.                                  *)
PathHolds(path, n, tokens, tiers) ==
  /\ Len(path) = 2 * n + 1
  /\ \A k \in 1..n + 1 : path[2 * k - 1] = tokens[k]
  /\ \A k \in 1..n : path[2 * k] = ThreeBytes(tiers[k])

(* A sequence of pairs and a last token, joined.                           *)
LEMMA PairsJoin ==
  ASSUME NEW n \in Nat, NEW tokens, NEW tiers, NEW pushed,
         pushed = [k \in 1..n + 1 |-> IF k <= n THEN <<tokens[k], ThreeBytes(tiers[k])>>
                                      ELSE <<tokens[k]>>]
  PROVE  PathHolds(FlattenSeq(pushed), n, tokens, tiers)
<1> DEFINE D == {tokens[k] : k \in 1..n + 1} \cup {ThreeBytes(tiers[k]) : k \in 1..n}
           start == [k \in 1..n + 1 |-> 2 * (k - 1)]
           F == FlattenSeq(pushed)
<1>1. Len(pushed) = n + 1 /\ n + 1 # 0 /\ DOMAIN pushed = 1..n + 1
  OBVIOUS
<1>2. \A k \in 1..n :
        /\ k \in 1..n + 1
        /\ pushed[k] = <<tokens[k], ThreeBytes(tiers[k])>>
  OBVIOUS
<1>3. pushed[n + 1] = <<tokens[n + 1]>>
  <2>1. n + 1 \in 1..n + 1 /\ ~(n + 1 <= n)
    OBVIOUS
  <2> QED  BY <2>1
<1>4. ASSUME NEW k \in 1..n + 1
      PROVE  /\ pushed[k] \in Seq(D)
             /\ k <= n => Len(pushed[k]) = 2 /\ pushed[k][2] = ThreeBytes(tiers[k])
             /\ k = n + 1 => Len(pushed[k]) = 1
             /\ pushed[k][1] = tokens[k]
  <2>1. tokens[k] \in D
    OBVIOUS
  <2>2. CASE k <= n
    <3>1. k \in 1..n /\ k # n + 1
      BY <2>2
    <3>2. ThreeBytes(tiers[k]) \in D
      BY <3>1
    <3> HIDE DEF D
    <3> QED  BY <1>2, <2>1, <2>2, <3>1, <3>2
  <2>3. CASE k = n + 1
    <3>1. ~(k <= n)
      BY <2>3
    <3> HIDE DEF D
    <3> QED  BY <1>3, <2>1, <2>3, <3>1
  <2> QED  BY <2>2, <2>3
<1>5. pushed \in Seq(Seq(D))
  <2> DEFINE S == Seq(D)
  <2>1. \A k \in 1..n + 1 : pushed[k] \in S
    BY <1>4
  <2> HIDE DEF S, D
  <2>2. pushed \in [1..n + 1 -> S] /\ n + 1 \in Nat
    BY <2>1
  <2> QED  BY <2>2, SeqDef DEF S
<1>6. Offsets(start, pushed)
  <2>1. start[1] = 0
    OBVIOUS
  <2>2. ASSUME NEW i \in 1..Len(pushed) - 1
        PROVE  start[i + 1] = start[i] + Len(pushed[i])
    <3>1. i \in 1..n /\ i \in 1..n + 1 /\ i + 1 \in 1..n + 1 /\ i <= n
      BY <1>1
    <3>2. Len(pushed[i]) = 2
      BY <1>4, <3>1
    <3>3. start[i + 1] = 2 * ((i + 1) - 1) /\ start[i] = 2 * (i - 1)
      BY <3>1
    <3> HIDE DEF start
    <3> QED  BY <3>1, <3>2, <3>3
  <2> HIDE DEF start
  <2> QED  BY <2>1, <2>2 DEF Offsets
<1> HIDE DEF D, start
<1>7. Puts(F, pushed, start, n + 1)
  BY <1>1, <1>5, <1>6, FlattenAt
<1> HIDE DEF F
<1>8. \A k \in 1..n + 1 : start[k] = 2 * (k - 1)
  BY DEF start
<1>9. Len(F) = 2 * n + 1
  <2>1. n + 1 \in 1..n + 1 /\ Len(F) = start[n + 1] + Len(pushed[n + 1])
    BY <1>7 DEF Puts
  <2>2. start[n + 1] = 2 * ((n + 1) - 1) /\ Len(pushed[n + 1]) = 1
    BY <1>3, <1>8, <2>1
  <2> QED  BY <2>1, <2>2
<1>10. ASSUME NEW k \in 1..n + 1 PROVE F[2 * k - 1] = tokens[k]
  <2>1. 1 \in 1..Len(pushed[k])
    <3>1. k <= n \/ k = n + 1
      OBVIOUS
    <3> QED  BY <1>4, <3>1
  <2>2. F[start[k] + 1] = pushed[k][1]
    BY <1>7, <2>1 DEF Puts
  <2>3. start[k] + 1 = 2 * k - 1
    BY <1>8
  <2> QED  BY <1>4, <2>2, <2>3
<1>11. ASSUME NEW k \in 1..n PROVE F[2 * k] = ThreeBytes(tiers[k])
  <2>1. k \in 1..n + 1 /\ k <= n
    OBVIOUS
  <2>2. 2 \in 1..Len(pushed[k]) /\ pushed[k][2] = ThreeBytes(tiers[k])
    BY <1>4, <2>1
  <2>3. F[start[k] + 2] = pushed[k][2]
    BY <1>7, <2>1, <2>2 DEF Puts
  <2>4. start[k] + 2 = 2 * k
    BY <1>8, <2>1
  <2> QED  BY <2>2, <2>3, <2>4
<1> QED  BY <1>9, <1>10, <1>11 DEF PathHolds, F

Backwards(s, t, n) == s = [k \in 1..n |-> t[n + 1 - k]]

(* v3_path and slipstream_path, in both directions.                        *)
LEMMA TieredPathHolds ==
  ASSUME NEW n \in Nat, NEW tokens, Len(tokens) = n + 1, NEW tiers, DOMAIN tiers = 1..n
  PROVE  /\ PathHolds(TieredPath(tokens, tiers, FALSE), n, tokens, tiers)
         /\ \A ts, bs :
              Backwards(ts, tokens, n + 1) /\ Backwards(bs, tiers, n)
              => PathHolds(TieredPath(tokens, tiers, TRUE), n, ts, bs)
<1> DEFINE Push(i, tier) == IF tier \in DOMAIN tiers
                            THEN <<tokens[i], ThreeBytes(tiers[tier])>> ELSE <<tokens[i]>>
<1>1. PathHolds(TieredPath(tokens, tiers, FALSE), n, tokens, tiers)
  <2> DEFINE pushed == [k \in 1..n + 1 |-> Push(k, k)]
             paired == [k \in 1..n + 1 |-> IF k <= n THEN <<tokens[k], ThreeBytes(tiers[k])>>
                                           ELSE <<tokens[k]>>]
  <2>1. TieredPath(tokens, tiers, FALSE) = FlattenSeq(pushed)
    BY DEF TieredPath
  <2>2. \A k \in 1..n + 1 : k \in DOMAIN tiers <=> k <= n
    OBVIOUS
  <2>3. pushed = paired
    BY <2>2
  <2>4. PathHolds(FlattenSeq(paired), n, tokens, tiers)
    <3> HIDE DEF paired
    <3>1. paired = [k \in 1..n + 1 |-> IF k <= n THEN <<tokens[k], ThreeBytes(tiers[k])>>
                                       ELSE <<tokens[k]>>]
      BY DEF paired
    <3> QED  BY <3>1, PairsJoin
  <2> HIDE DEF pushed, paired
  <2> QED  BY <2>1, <2>3, <2>4
<1>2. ASSUME NEW us, NEW cs, Backwards(us, tokens, n + 1), Backwards(cs, tiers, n)
      PROVE  PathHolds(TieredPath(tokens, tiers, TRUE), n, us, cs)
  <2> DEFINE ts == [k \in 1..n + 1 |-> tokens[n + 2 - k]]
             bs == [k \in 1..n |-> tiers[n + 1 - k]]
             pushed == [k \in 1..n + 1 |-> Push(n + 2 - k, n + 1 - k)]
             paired == [k \in 1..n + 1 |-> IF k <= n THEN <<ts[k], ThreeBytes(bs[k])>>
                                           ELSE <<ts[k]>>]
  <2>1. TieredPath(tokens, tiers, TRUE) = FlattenSeq(pushed)
    <3>1. \A k \in 1..n + 1 : (n + 1) + 1 - k = n + 2 - k
      OBVIOUS
    <3>2. TieredPath(tokens, tiers, TRUE)
            = FlattenSeq([k \in 1..n + 1 |-> Push((n + 1) + 1 - k, (n + 1) - k)])
      BY DEF TieredPath
    <3>3. [k \in 1..n + 1 |-> Push((n + 1) + 1 - k, (n + 1) - k)] = pushed
      <4> HIDE DEF Push
      <4> QED  BY <3>1
    <3> QED  BY <3>2, <3>3
  <2>2. \A k \in 1..n + 1 : n + 1 - k \in DOMAIN tiers <=> k <= n
    OBVIOUS
  <2>3. ASSUME NEW k \in 1..n + 1
        PROVE  Push(n + 2 - k, n + 1 - k)
                 = IF k <= n THEN <<ts[k], ThreeBytes(bs[k])>> ELSE <<ts[k]>>
    <3>1. ts[k] = tokens[n + 2 - k]
      OBVIOUS
    <3>2. CASE k <= n
      <4>1. bs[k] = tiers[n + 1 - k]
        BY <3>2
      <4> HIDE DEF ts, bs
      <4> QED  BY <2>2, <3>1, <3>2, <4>1
    <3>3. CASE ~(k <= n)
      <4> HIDE DEF ts, bs
      <4> QED  BY <2>2, <3>1, <3>3
    <3> QED  BY <3>2, <3>3
  <2>4. pushed = paired
    <3> HIDE DEF ts, bs, Push
    <3> QED  BY <2>3
  <2>5. PathHolds(FlattenSeq(paired), n, ts, bs)
    <3> HIDE DEF ts, bs, paired
    <3>1. paired = [k \in 1..n + 1 |-> IF k <= n THEN <<ts[k], ThreeBytes(bs[k])>> ELSE <<ts[k]>>]
      BY DEF paired
    <3> QED  BY <3>1, PairsJoin
  <2>6. us = ts /\ cs = bs
    <3>1. \A k \in 1..n + 1 : (n + 1) + 1 - k = n + 2 - k
      OBVIOUS
    <3>2. us = ts
      BY <1>2, <3>1 DEF Backwards
    <3> QED  BY <1>2, <3>2 DEF Backwards
  <2> HIDE DEF pushed, paired, ts, bs
  <2> QED  BY <2>1, <2>4, <2>5, <2>6
<1> QED  BY <1>1, <1>2

(* The pools of a way, each trading the assets next to it.                 *)
Way(pools, tokens, n) ==
  /\ n \in Nat
  /\ \A k \in 1..n : Trades(pools[k], tokens[k], tokens[k + 1])
Walked(pools, tokens, n) == [k \in 1..n |-> Leg({pools[k]}, tokens[k], tokens[k + 1])]

TiersAlong(tiers, pools, n) == tiers = [k \in 1..n |-> TierOf[pools[k]]]

(* What an encoder hands to TieredPath.                                    *)
TieredWay(pools, tokens, tiers, n, kind) ==
  /\ Way(pools, tokens, n) /\ Len(tokens) = n + 1
  /\ TiersAlong(tiers, pools, n) /\ \A k \in 1..n : KindOf[pools[k]] = kind

(* The router reads the path of a way.                                     *)
LEMMA TieredWalk ==
  ASSUME NEW pools, NEW tokens, NEW tiers, NEW n, NEW kind,
         TieredWay(pools, tokens, tiers, n, kind)
  PROVE  /\ TieredLegs(kind, TieredPath(tokens, tiers, FALSE), FALSE) = Walked(pools, tokens, n)
         /\ TieredLegs(kind, TieredPath(tokens, tiers, TRUE), TRUE) = Walked(pools, tokens, n)
<1>1. n \in Nat /\ Len(tokens) = n + 1 /\ Way(pools, tokens, n)
  BY DEF Way, TieredWay
<1>2. /\ DOMAIN tiers = 1..n /\ \A k \in 1..n : tiers[k] = TierOf[pools[k]]
      /\ \A k \in 1..n : KindOf[pools[k]] = kind
  BY DEF TiersAlong, TieredWay
<1>3. ASSUME NEW k \in 1..n
      PROVE  PoolsOf(kind, {tokens[k], tokens[k + 1]}, Int24(ThreeBytes(tiers[k]))) = {pools[k]}
  <2>1. tiers[k] = TierOf[pools[k]] /\ KindOf[pools[k]] = kind
    BY <1>2
  <2>2. Trades(pools[k], tokens[k], tokens[k + 1])
    BY <1>1 DEF Way
  <2>3. Found(pools[k], tokens[k], tokens[k + 1])
    BY <2>2, PairPool
  <2> QED  BY <2>1, <2>3 DEF Found
<1>4. TieredLegs(kind, TieredPath(tokens, tiers, FALSE), FALSE) = Walked(pools, tokens, n)
<2> DEFINE path == TieredPath(tokens, tiers, FALSE)
             hops == (Len(path) - 1) \div 2
             LegAt(k) == PoolsOf(kind, {path[2 * k - 1], path[2 * k + 1]}, Int24(path[2 * k]))
             legs == TieredLegs(kind, path, FALSE)
  <2>1. PathHolds(path, n, tokens, tiers)
    BY <1>1, <1>2, TieredPathHolds
  <2> HIDE DEF path
  <2>2. hops = n
    BY <1>1, <2>1 DEF PathHolds
  <2>3. legs = [k \in 1..hops |-> Leg(LegAt(k), path[2 * k - 1], path[2 * k + 1])]
    BY DEF TieredLegs
  <2>4. ASSUME NEW k \in 1..n
        PROVE  Leg(LegAt(k), path[2 * k - 1], path[2 * k + 1])
                 = Leg({pools[k]}, tokens[k], tokens[k + 1])
    <3>1. k \in 1..n + 1 /\ k + 1 \in 1..n + 1 /\ 2 * (k + 1) - 1 = 2 * k + 1
      BY <1>1
    <3>2. /\ path[2 * k - 1] = tokens[k] /\ path[2 * k + 1] = tokens[k + 1]
          /\ path[2 * k] = ThreeBytes(tiers[k])
      BY <2>1, <3>1 DEF PathHolds
    <3> QED  BY <1>3, <3>2
  <2> HIDE DEF LegAt, hops, legs
  <2> QED  BY <2>2, <2>3, <2>4 DEF Walked, legs, path
<1>5. TieredLegs(kind, TieredPath(tokens, tiers, TRUE), TRUE) = Walked(pools, tokens, n)
<2> DEFINE path == TieredPath(tokens, tiers, TRUE)
             hops == (Len(path) - 1) \div 2
             LegAt(k) == PoolsOf(kind, {path[2 * k - 1], path[2 * k + 1]}, Int24(path[2 * k]))
             legs == TieredLegs(kind, path, TRUE)
  <2> DEFINE ts == [k \in 1..n + 1 |-> tokens[n + 2 - k]]
             bs == [k \in 1..n |-> tiers[n + 1 - k]]
  <2>1. PathHolds(path, n, ts, bs)
    <3>1. PathHolds(TieredPath(tokens, tiers, TRUE), n, ts, bs)
      <4>1. DOMAIN tiers = 1..n
        BY <1>2
      <4>2. Backwards(ts, tokens, n + 1) /\ Backwards(bs, tiers, n)
        <5>1. \A k \in 1..n + 1 : (n + 1) + 1 - k = n + 2 - k
          BY <1>1
        <5> QED  BY <5>1 DEF Backwards
      <4> HIDE DEF ts, bs
      <4> QED  BY <1>1, <4>1, <4>2, TieredPathHolds
    <3> HIDE DEF ts, bs
    <3> QED  BY <3>1
  <2> HIDE DEF path
  <2>2. hops = n
    BY <1>1, <2>1 DEF PathHolds
  <2>3. legs = [k \in 1..hops |->
                  Leg(LegAt(hops + 1 - k), path[2 * (hops + 1 - k) + 1], path[2 * (hops + 1 - k) - 1])]
    BY DEF TieredLegs
  <2>4. ASSUME NEW k \in 1..n
        PROVE  Leg(LegAt(n + 1 - k), path[2 * (n + 1 - k) + 1], path[2 * (n + 1 - k) - 1])
                 = Leg({pools[k]}, tokens[k], tokens[k + 1])
    <3> DEFINE back == n + 1 - k
    <3>1. /\ back \in 1..n /\ back \in 1..n + 1 /\ back + 1 \in 1..n + 1
          /\ 2 * (back + 1) - 1 = 2 * back + 1
          /\ n + 2 - back = k + 1 /\ n + 2 - (back + 1) = k /\ n + 1 - back = k
      BY <1>1
    <3>2. ts[back] = tokens[k + 1] /\ ts[back + 1] = tokens[k] /\ bs[back] = tiers[k]
      <4> HIDE DEF back
      <4> QED  BY <3>1
    <3> HIDE DEF ts, bs, back
    <3>3. /\ path[2 * back - 1] = ts[back] /\ path[2 * back + 1] = ts[back + 1]
          /\ path[2 * back] = ThreeBytes(bs[back])
      BY <2>1, <3>1 DEF PathHolds
    <3>4. {ts[back], ts[back + 1]} = {tokens[k], tokens[k + 1]}
      BY <3>2
    <3>5. LegAt(back) = {pools[k]}
      BY <1>3, <3>2, <3>3, <3>4
    <3> QED  BY <3>2, <3>3, <3>5 DEF back
  <2> HIDE DEF ts, bs, LegAt, hops, legs
  <2> QED  BY <2>2, <2>3, <2>4 DEF Walked, legs, path
<1> QED  BY <1>4, <1>5

(* A path of V2 is found pair by pair.                                     *)
LEMMA PairWalk ==
  ASSUME NEW pools, NEW tokens, NEW n, Way(pools, tokens, n), Len(tokens) = n + 1,
         \A k \in 1..n : KindOf[pools[k]] = "UniswapV2"
  PROVE  PairLegs(tokens) = Walked(pools, tokens, n)
<1>1. n \in Nat /\ Len(tokens) - 1 = n
  BY DEF Way
<1>2. ASSUME NEW k \in 1..n
      PROVE  PoolsOf("UniswapV2", {tokens[k], tokens[k + 1]}, 0) = {pools[k]}
  <2>1. Trades(pools[k], tokens[k], tokens[k + 1])
    BY DEF Way
  <2>2. Found(pools[k], tokens[k], tokens[k + 1])
    BY <2>1, PairPool
  <2>3. KindOf[pools[k]] = "UniswapV2" /\ pools[k] \in Pool
    BY <2>1 DEF Trades
  <2>4. TierOf[pools[k]] = 0
    BY <2>3, PathsAssumption
  <2> QED  BY <2>2, <2>3, <2>4 DEF Found
<1>3. PairLegs(tokens)
        = [k \in 1..n |-> Leg(PoolsOf("UniswapV2", {tokens[k], tokens[k + 1]}, 0),
                              tokens[k], tokens[k + 1])]
  BY <1>1 DEF PairLegs
<1> QED  BY <1>2, <1>3 DEF Walked

(* So are the routes of Aerodrome, of their own curve.                     *)
RoutesAlong(routes, pools, tokens, n) ==
  routes = [k \in 1..n |-> [from |-> tokens[k], to |-> tokens[k + 1],
                            stable |-> KindOf[pools[k]] = "AerodromeStable"]]

LEMMA RouteWalk ==
  ASSUME NEW pools, NEW tokens, NEW n, Way(pools, tokens, n),
         \A k \in 1..n : KindOf[pools[k]] \in {"AerodromeVolatile", "AerodromeStable"},
         NEW routes, RoutesAlong(routes, pools, tokens, n)
  PROVE  AerodromeLegs(routes) = Walked(pools, tokens, n)
<1> DEFINE Answers(k) == PoolsOf(IF routes[k].stable THEN "AerodromeStable" ELSE "AerodromeVolatile",
                                 {routes[k].from, routes[k].to}, 0)
<1>0. routes = [k \in 1..n |-> [from |-> tokens[k], to |-> tokens[k + 1],
                                stable |-> KindOf[pools[k]] = "AerodromeStable"]]
  BY DEF RoutesAlong
<1>1. n \in Nat /\ Len(routes) = n
  BY <1>0 DEF Way
<1>2. ASSUME NEW k \in 1..n
      PROVE  /\ Answers(k) = {pools[k]}
             /\ routes[k].from = tokens[k] /\ routes[k].to = tokens[k + 1]
  <2>1. Trades(pools[k], tokens[k], tokens[k + 1])
    BY DEF Way
  <2>2. Found(pools[k], tokens[k], tokens[k + 1])
    BY <2>1, PairPool
  <2>3. KindOf[pools[k]] \in {"AerodromeVolatile", "AerodromeStable"} /\ pools[k] \in Pool
    BY <2>1 DEF Trades
  <2>4. TierOf[pools[k]] = 0
    BY <2>3, PathsAssumption
  <2>5. /\ routes[k].from = tokens[k] /\ routes[k].to = tokens[k + 1]
        /\ routes[k].stable = (KindOf[pools[k]] = "AerodromeStable")
    BY <1>0
  <2>6. (IF routes[k].stable THEN "AerodromeStable" ELSE "AerodromeVolatile") = KindOf[pools[k]]
    BY <2>3, <2>5
  <2>7. Answers(k) = PoolsOf(KindOf[pools[k]], {tokens[k], tokens[k + 1]}, TierOf[pools[k]])
    BY <2>4, <2>5, <2>6
  <2> QED  BY <2>2, <2>5, <2>7 DEF Found
<1>3. AerodromeLegs(routes)
        = [k \in 1..n |-> Leg(Answers(k), routes[k].from, routes[k].to)]
  BY <1>1 DEF AerodromeLegs
<1> HIDE DEF Answers
<1> QED  BY <1>2, <1>3 DEF Walked

(* A V4 key names its pool and the direction.                              *)
LEMMA KeyWalk ==
  ASSUME NEW pool, NEW x, NEW y, Trades(pool, x, y), KindOf[pool] = "UniswapV4"
  PROVE  V4Leg(pool, x) = Leg({pool}, x, y)
<1>1. pool \in Pool /\ x # y /\ Found(pool, x, y) /\ RouterKindOf(pool) # "Curve"
  BY PairPool DEF Trades
<1> DEFINE key == PoolKey(pool)
           pools == {other \in Pool : KindOf[other] = "UniswapV4" /\ PoolKey(other) = key}
<1>2. key.c0 = Coins[pool][1] /\ key.c1 = Coins[pool][2] /\ key.tier = TierOf[pool]
  BY DEF PoolKey
<1>3. ASSUME NEW other \in Pool, KindOf[other] = "UniswapV4", PoolKey(other) = key
      PROVE  other = pool
  <2>1. /\ Coins[other][1] = Coins[pool][1] /\ Coins[other][2] = Coins[pool][2]
        /\ TierOf[other] = TierOf[pool]
    BY <1>2, <1>3 DEF PoolKey
  <2>2. RouterKindOf(other) # "Curve"
    BY <1>3 DEF RouterKindOf
  <2>3. DOMAIN Coins[other] = 1..2 /\ Range(Coins[other]) = AssetsOf[other]
    BY <2>2, PathsAssumption
  <2>4. DOMAIN Coins[pool] = 1..2 /\ Range(Coins[pool]) = AssetsOf[pool]
    BY <1>1, PathsAssumption
  <2>5. AssetsOf[other] = AssetsOf[pool]
    <3>1. \A i : i \in 1..2 <=> i = 1 \/ i = 2
      OBVIOUS
    <3> QED  BY <2>1, <2>3, <2>4, <3>1 DEF Range
  <2> QED  BY <1>1, <1>3, <2>1, <2>5, PathsAssumption
<1>4. pools = {pool}
  <2> HIDE DEF key
  <2>1. pool \in pools
    BY <1>1 DEF key
  <2> QED  BY <1>3, <2>1
<1> HIDE DEF pools
<1>5. V4Leg(pool, x) = Leg(pools, IF x = key.c0 THEN key.c0 ELSE key.c1,
                           IF x = key.c0 THEN key.c1 ELSE key.c0)
  BY DEF V4Leg, KeyLeg, ZeroForOne, pools
<1> HIDE DEF key
<1>6. {key.c0, key.c1} = {x, y}
  BY <1>1, <1>2 DEF Found
<1>7. CASE x = key.c0
  <2>1. y = key.c1
    BY <1>1, <1>6, <1>7
  <2> QED  BY <1>4, <1>5, <1>7, <2>1
<1>8. CASE x # key.c0
  <2>1. x = key.c1 /\ y = key.c0
    BY <1>1, <1>6, <1>8
  <2> QED  BY <1>4, <1>5, <1>8, <2>1
<1> QED  BY <1>7, <1>8

(* Coins are told to a Curve pool by their places.                         *)
LEMMA CoinAt ==
  ASSUME NEW pool \in Pool, NEW x \in AssetsOf[pool]
  PROVE  CoinIndex(pool, x) \in DOMAIN Coins[pool] /\ Coins[pool][CoinIndex(pool, x)] = x
<1>1. \E i \in DOMAIN Coins[pool] : Coins[pool][i] = x
  BY PathsAssumption DEF Range
<1> QED  BY <1>1 DEF CoinIndex

LEMMA CoinWalk ==
  ASSUME NEW pool \in Pool, NEW x \in AssetsOf[pool], NEW y \in AssetsOf[pool]
  PROVE  ExchangeLeg(pool, CoinIndex(pool, x), CoinIndex(pool, y)) = Leg({pool}, x, y)
<1>1. Coins[pool][CoinIndex(pool, x)] = x /\ Coins[pool][CoinIndex(pool, y)] = y
  BY CoinAt
<1> HIDE DEF CoinIndex
<1> QED  BY <1>1 DEF ExchangeLeg

(* The pools of the call's span and the assets between them.               *)
PoolsOnWay == [k \in 1..Hops |-> Call.pools[Hop(k)]]
TokensOnWay == SpanTokens(Call)
TheWay == [k \in 1..Hops |-> Leg({Call.pools[Hop(k)]}, Call.path[Hop(k)], Call.path[Hop(k) + 1])]

LEMMA WayTokens ==
  ASSUME ask \in Calls
  PROVE  /\ Len(TokensOnWay) = Hops + 1 /\ Hops \in Nat \ {0}
         /\ \A k \in 1..Hops + 1 : TokensOnWay[k] = Call.path[Hop(k)]
         /\ \A k \in 1..Hops : Hop(k + 1) = Hop(k) + 1
         /\ SpanIn(Call) = Call.path[Hop(1)] /\ SpanOut(Call) = Call.path[Hop(Hops) + 1]
         /\ LastPool(Call) = Call.pools[Hop(Hops)]
<1> DEFINE s == Call.span.start
           e == Call.span.end
           path == Call.path
<1>1. s \in Nat /\ e \in Nat /\ Hops \in Nat \ {0} /\ Hops = e - s
  BY OneHop
<1>2. path \in Seq(Asset) /\ e + 1 \in DOMAIN path
  <2>1. Call.path = ask.call.path /\ Call.span = ask.call.span
    BY EdgeTypes
  <2>2. ask.call \in EncoderCall /\ AsksForASpan(ask.call)
    BY SettlementAssumption, CallsAssumption
  <2> QED  BY <2>1, <2>2 DEF EncoderCall, AsksForASpan
<1>3. TokensOnWay = SubSeq(path, s + 1, e + 1)
  BY DEF TokensOnWay, SpanTokens
<1>4. \A k : Hop(k) = s + k
  BY DEF Hop
<1>5. SpanIn(Call) = path[s + 1] /\ SpanOut(Call) = path[e + 1] /\ LastPool(Call) = Call.pools[e]
  BY DEF SpanIn, SpanOut, LastPool
<1> HIDE DEF s, e, path
<1>6. /\ Len(TokensOnWay) = Hops + 1
      /\ \A k \in 1..Hops + 1 : TokensOnWay[k] = path[s + k]
  <2>1. Len(path) \in Nat /\ e + 1 \in 1..Len(path)
    BY <1>2
  <2>2. Len(SubSeq(path, s + 1, e + 1)) = Hops + 1
    BY <1>1, <1>2, <2>1
  <2>3. ASSUME NEW k \in 1..Hops + 1 PROVE SubSeq(path, s + 1, e + 1)[k] = path[s + k]
    <3>1. k \in 1..(e + 1) - (s + 1) + 1 /\ (s + 1) + k - 1 = s + k
      BY <1>1
    <3> QED  BY <1>1, <1>2, <2>1, <3>1
  <2> QED  BY <1>3, <2>2, <2>3
<1>7. Hop(Hops) = e /\ Hop(1) = s + 1 /\ \A k \in 1..Hops : Hop(k + 1) = Hop(k) + 1
  BY <1>1, <1>4
<1> QED  BY <1>1, <1>4, <1>5, <1>6, <1>7 DEF path

LEMMA SpanWay ==
  ASSUME ask \in Calls, Call.span.kind # "Curve"
  PROVE  Way(PoolsOnWay, TokensOnWay, Hops)
<1>1. Hops \in Nat
  BY OneHop
<1>2. ASSUME NEW k \in 1..Hops
      PROVE  Trades(PoolsOnWay[k], TokensOnWay[k], TokensOnWay[k + 1])
  <2>1. /\ Call.pools[Hop(k)] \in Pool /\ HopJoined(Call, Hop(k))
        /\ RouterKindOf(Call.pools[Hop(k)]) # "Curve"
    BY OneHop
  <2>2. k \in 1..Hops + 1 /\ k + 1 \in 1..Hops + 1
    BY <1>1
  <2>3. /\ TokensOnWay[k] = Call.path[Hop(k)] /\ TokensOnWay[k + 1] = Call.path[Hop(k) + 1]
        /\ PoolsOnWay[k] = Call.pools[Hop(k)]
    BY <2>2, WayTokens DEF PoolsOnWay
  <2> QED  BY <2>1, <2>3 DEF Trades, HopJoined
<1> QED  BY <1>1, <1>2 DEF Way

LEMMA WalkedTheWay ==
  ASSUME ask \in Calls
  PROVE  /\ Walked(PoolsOnWay, TokensOnWay, Hops) = TheWay
         /\ TheWay = [k \in 1..SpanLen(Call.span) |->
                        LET i == Call.span.start + k
                        IN  Leg({Call.pools[i]}, Call.path[i], Call.path[i + 1])]
<1>1. Hops \in Nat
  BY OneHop
<1>2. ASSUME NEW k \in 1..Hops
      PROVE  /\ TokensOnWay[k] = Call.path[Hop(k)] /\ TokensOnWay[k + 1] = Call.path[Hop(k) + 1]
             /\ PoolsOnWay[k] = Call.pools[Hop(k)]
  <2>1. k \in 1..Hops + 1 /\ k + 1 \in 1..Hops + 1
    BY <1>1
  <2> QED  BY <2>1, WayTokens DEF PoolsOnWay
<1>3. Walked(PoolsOnWay, TokensOnWay, Hops) = TheWay
  BY <1>2 DEF Walked, TheWay
<1> QED  BY <1>3 DEF TheWay, Hop, Hops

(* Away from V4 a native edge is one in WETH.                              *)
LEMMA WETHEdges ==
  ASSUME ask \in Calls, KindOf[FirstPool(Call)] # "UniswapV4", Hops = 1
  PROVE  Sold(Call, WETH) = Call.path[Hop(1)] /\ Bought(Call, WETH) = Call.path[Hop(1) + 1]
<1>1. SpanIn(Call) = Call.path[Hop(1)] /\ SpanOut(Call) = Call.path[Hop(1) + 1]
  BY WayTokens
<1>2. /\ FirstPool(Call) \in Pool
      /\ {SpanIn(Call), SpanOut(Call)} \subseteq AssetsOf[FirstPool(Call)]
  <2>1. 1 \in 1..Hops
    OBVIOUS
  <2>2. Call.pools[Hop(1)] \in Pool /\ HopJoined(Call, Hop(1))
    BY <2>1, OneHop
  <2> QED  BY <1>1, <2>2, FirstPoolIs DEF HopJoined
<1>3. NATIVE \notin AssetsOf[FirstPool(Call)]
  BY <1>2, CallsAssumption
<1>4. SpanIn(Call) # NATIVE /\ SpanOut(Call) # NATIVE
  BY <1>2, <1>3
<1>5. /\ Call.nativeIn => SpanIn(Call) \in {WETH, NATIVE}
      /\ Call.nativeOut => SpanOut(Call) \in {WETH, NATIVE}
  <2>1. NativeIsETH(ask.call)
    BY CallsAssumption
  <2>2. /\ Call.path = ask.call.path /\ Call.span = ask.call.span
        /\ Call.nativeIn = ask.call.nativeIn /\ Call.nativeOut = ask.call.nativeOut
    <3>1. ask.call \in EncoderCall
      BY SettlementAssumption
    <3> QED  BY <3>1 DEF Call, EncoderCall
  <2> QED  BY <2>1, <2>2 DEF NativeIsETH, SpanIn, SpanOut
<1> QED  BY <1>1, <1>4, <1>5 DEF Sold, Bought

(* A native edge of a V4 pool is the side of it that the path means: a     *)
(* pool that trades ETH and WETH refuses to be sold one for itself.        *)
LEMMA V4Edge ==
  ASSUME ask \in Calls, PoolAccepted, KindOf[FirstPool(Call)] = "UniswapV4"
  PROVE  V4Sold(Call) = SpanIn(Call) /\ Trades(FirstPool(Call), SpanIn(Call), SpanOut(Call))
<1> DEFINE pool == FirstPool(Call)
           x == SpanIn(Call)
           y == SpanOut(Call)
<1>1. x = Call.path[Hop(1)] /\ y = Call.path[Hop(1) + 1] /\ Hops = 1
  BY WayTokens DEF PoolAccepted
<1>2. Trades(pool, x, y)
  <2>1. 1 \in 1..Hops
    BY <1>1
  <2>2. Call.pools[Hop(1)] \in Pool /\ HopJoined(Call, Hop(1))
    BY <2>1, OneHop
  <2>3. RouterKindOf(pool) # "Curve"
    BY DEF RouterKindOf
  <2> QED  BY <1>1, <2>2, <2>3, FirstPoolIs DEF HopJoined, Trades
<1>3. AssetsOf[pool] = {x, y} /\ x # y
  BY <1>2, PairPool DEF Found, Trades
<1>4. V4Sold(Call) # V4Bought(Call) /\ WETH # NATIVE
  BY V4Trades, Distinct
<1>5. /\ Call.nativeIn => x \in {WETH, NATIVE}
      /\ Call.nativeOut => y \in {WETH, NATIVE}
      /\ Call.nativeIn \in BOOLEAN /\ Call.nativeOut \in BOOLEAN
      /\ ~(Call.nativeIn /\ Call.nativeOut)
  <2>1. NativeIsETH(ask.call)
    BY CallsAssumption
  <2>2. /\ Call.path = ask.call.path /\ Call.span = ask.call.span
        /\ Call.nativeIn = ask.call.nativeIn /\ Call.nativeOut = ask.call.nativeOut
    <3>1. ask.call \in EncoderCall
      BY SettlementAssumption
    <3> QED  BY <3>1 DEF Call, EncoderCall
  <2> QED  BY <2>1, <2>2, EdgeTypes DEF NativeIsETH, SpanIn, SpanOut, PoolAccepted
<1>6. /\ V4Sold(Call) = IF Call.nativeIn THEN V4NativeAsset(Call) ELSE x
      /\ V4Bought(Call) = IF Call.nativeOut THEN V4NativeAsset(Call) ELSE y
  BY DEF V4Sold, V4Bought, Sold, Bought
<1>7. V4Sold(Call) = x
  <2>1. CASE ~Call.nativeIn
    BY <1>6, <2>1
  <2>2. CASE Call.nativeIn
    <3>1. Native(Call) /\ ~Call.nativeOut
      BY <1>5, <2>2 DEF Native
    <3>2. V4Bought(Call) = y
      BY <1>6, <3>1
    <3>3. CASE IsWrapCase(Call)
      <4>1. NATIVE \notin AssetsOf[pool] /\ V4NativeAsset(Call) = WETH
        BY <3>3 DEF IsWrapCase, V4NativeAsset
      <4>2. x = WETH
        BY <1>3, <1>5, <2>2, <4>1
      <4> QED  BY <1>6, <2>2, <4>1, <4>2
    <3>4. CASE ~IsWrapCase(Call)
      <4>1. V4NativeAsset(Call) = NATIVE /\ (WETH \notin AssetsOf[pool] \/ NATIVE \in AssetsOf[pool])
        BY <3>1, <3>4 DEF IsWrapCase, V4NativeAsset
      <4>2. V4Sold(Call) = NATIVE /\ y # NATIVE
        BY <1>4, <1>6, <2>2, <3>2, <4>1
      <4>3. x = NATIVE
        <5> HIDE DEF pool, x, y
        <5> QED  BY <1>3, <1>5, <2>2, <4>1, <4>2
      <4> QED  BY <4>2, <4>3
    <3> QED  BY <3>3, <3>4
  <2> QED  BY <1>5, <2>1, <2>2
<1> QED  BY <1>2, <1>7

(* The encoder of a single pool. *)
LEMMA PoolWalk ==
  ASSUME ask \in Calls, PoolAccepted
  PROVE  PoolLegs(Call) = TheWay
<1> DEFINE pool == FirstPool(Call)
           kind == KindOf[pool]
           x == Call.path[Hop(1)]
           y == Call.path[Hop(1) + 1]
           sold == Sold(Call, WETH)
           bought == Bought(Call, WETH)
<1>1. Hops = 1 /\ SpanIn(Call) = x /\ SpanOut(Call) = y
  BY WayTokens DEF PoolAccepted
<1>2. /\ pool \in Pool /\ x # y /\ {x, y} \subseteq AssetsOf[pool]
      /\ pool = Call.pools[Hop(1)] /\ RouterKindOf(pool) \in RouterKind
  <2>1. 1 \in 1..Hops
    BY <1>1
  <2>2. Call.pools[Hop(1)] \in Pool /\ HopJoined(Call, Hop(1))
    BY <2>1, OneHop
  <2> QED  BY <2>2, FirstPoolIs DEF HopJoined
<1>3. TheWay = << Leg({pool}, x, y) >>
  <2>1. TheWay = [k \in 1..1 |-> Leg({Call.pools[Hop(k)]}, Call.path[Hop(k)], Call.path[Hop(k) + 1])]
    BY <1>1 DEF TheWay
  <2> DEFINE P(k) == Leg({Call.pools[Hop(k)]}, Call.path[Hop(k)], Call.path[Hop(k) + 1])
  <2>2. P(1) = Leg({pool}, x, y)
    BY <1>2
  <2>3. [k \in 1..1 |-> P(k)] = << P(1) >>
    <3> HIDE DEF P
    <3>1. \A k \in 1..1 : k = 1
      OBVIOUS
    <3> QED  BY <3>1
  <2> HIDE DEF pool, x, y
  <2> QED  BY <2>1, <2>2, <2>3
<1>4. kind # "UniswapV4" => sold = x /\ bought = y
  BY <1>1, WETHEdges
<1> DEFINE one == [k \in 1..1 |-> pool]
           pair == << x, y >>
           walked == Walked(one, pair, 1)
<1>5. walked = << Leg({pool}, x, y) >>
  <2> HIDE DEF pool, x, y
  <2>1. \A k \in 1..1 : k = 1 /\ one[k] = pool /\ pair[k] = x /\ pair[k + 1] = y
    OBVIOUS
  <2> HIDE DEF one, pair
  <2>2. walked = [k \in 1..1 |-> Leg({pool}, x, y)]
    BY <2>1 DEF Walked
  <2> QED  BY <2>2
<1>6. /\ Len(pair) = 1 + 1 /\ one[1] = pool
      /\ RouterKindOf(pool) # "Curve" => Way(one, pair, 1)
  <2>1. pair[1] = x /\ pair[2] = y /\ Len(pair) = 2
    OBVIOUS
  <2>2. one[1] = pool
    OBVIOUS
  <2> HIDE DEF pair, one, pool, x, y
  <2>3. \A k \in 1..1 : k = 1 /\ k + 1 = 2
    OBVIOUS
  <2> QED  BY <1>2, <2>1, <2>2, <2>3 DEF Way, Trades
<1>7. \A k \in 1..1 : KindOf[one[k]] = kind
  OBVIOUS
<1>8. CASE kind = "UniswapV2"
  <2>1. RouterKindOf(pool) # "Curve"
    BY <1>8 DEF RouterKindOf
  <2>2. PoolLegs(Call) = PairLegs(pair)
    BY <1>4, <1>8 DEF PoolLegs
  <2> HIDE DEF pool, one, pair, walked
  <2>3. PairLegs(pair) = walked
    BY <1>6, <1>7, <1>8, <2>1, PairWalk DEF walked
  <2> QED  BY <1>3, <1>5, <2>2, <2>3
<1>9. CASE kind \in {"UniswapV3", "Slipstream"}
  <2>1. RouterKindOf(pool) # "Curve"
    BY <1>9 DEF RouterKindOf
  <2>2. PoolLegs(Call) = TieredStructLegs(Call)
    BY <1>9 DEF PoolLegs
  <2>3. TieredStructLegs(Call)
          = << Leg(PoolsOf(KindOf[pool], {x, y}, Int24(ThreeBytes(TierOf[pool]))), x, y) >>
    BY <1>4, <1>9 DEF TieredStructLegs
  <2> HIDE DEF x, y
  <2>4. Found(pool, x, y)
    BY <1>2, <2>1, PairPool DEF Trades
  <2>5. PoolsOf(KindOf[pool], {x, y}, Int24(ThreeBytes(TierOf[pool]))) = {pool}
    BY <2>4 DEF Found
  <2> QED  BY <1>3, <2>2, <2>3, <2>5
<1>10. CASE kind = "UniswapV4"
  <2>1. PoolLegs(Call) = << V4Leg(pool, V4Sold(Call)) >>
    BY <1>10 DEF PoolLegs
  <2>2. V4Sold(Call) = x /\ Trades(pool, x, y)
    BY <1>1, <1>10, V4Edge
  <2> HIDE DEF pool, x, y
  <2>3. V4Leg(pool, x) = Leg({pool}, x, y)
    BY <1>10, <2>2, KeyWalk
  <2> QED  BY <1>3, <2>1, <2>2, <2>3
<1>11. CASE kind \in {"AerodromeVolatile", "AerodromeStable"}
  <2>1. RouterKindOf(pool) # "Curve" /\ kind # "UniswapV4"
    BY <1>11 DEF RouterKindOf
  <2> DEFINE route == [from |-> x, to |-> y, stable |-> kind = "AerodromeStable"]
             routes == [k \in 1..1 |-> [from |-> pair[k], to |-> pair[k + 1],
                                        stable |-> KindOf[one[k]] = "AerodromeStable"]]
  <2>2. PoolLegs(Call) = AerodromeLegs(<< route >>)
    <3>1. PoolLegs(Call) = AerodromeLegs(<< [from |-> sold, to |-> bought,
                                             stable |-> kind = "AerodromeStable"] >>)
      BY <1>11 DEF PoolLegs
    <3> QED  BY <1>4, <2>1, <3>1
  <2>3. routes = << route >>
    <3>1. one[1] = pool /\ pair[1] = x /\ pair[2] = y
      OBVIOUS
    <3> HIDE DEF pool, x, y, one, pair
    <3>2. \A k \in 1..1 : k = 1 /\ k + 1 = 2
      OBVIOUS
    <3>3. \A k \in 1..1 : [from |-> pair[k], to |-> pair[k + 1],
                           stable |-> KindOf[one[k]] = "AerodromeStable"] = route
      BY <3>1, <3>2
    <3> HIDE DEF route
    <3>4. routes = [k \in 1..1 |-> route]
      BY <3>3
    <3> QED  BY <3>4
  <2>4. AerodromeLegs(routes) = walked
    <3>1. RoutesAlong(routes, one, pair, 1)
      BY DEF RoutesAlong
    <3> HIDE DEF pool, one, pair, routes
    <3> QED  BY <1>6, <1>7, <1>11, <2>1, <3>1, RouteWalk
  <2> HIDE DEF route, routes, walked
  <2> QED  BY <1>3, <1>5, <2>2, <2>3, <2>4
<1>12. CASE kind \notin {"UniswapV2", "UniswapV3", "Slipstream", "UniswapV4",
                         "AerodromeVolatile", "AerodromeStable"}
  <2>1. PoolLegs(Call)
          = << ExchangeLeg(pool, CoinIndex(pool, sold), CoinIndex(pool, bought)) >>
    BY <1>12 DEF PoolLegs
  <2>2. sold = x /\ bought = y
    BY <1>4, <1>12
  <2>3. ExchangeLeg(pool, CoinIndex(pool, x), CoinIndex(pool, y)) = Leg({pool}, x, y)
    BY <1>2, CoinWalk
  <2> HIDE DEF pool, x, y, sold, bought
  <2> QED  BY <1>3, <2>1, <2>2, <2>3
<1> QED  BY <1>8, <1>9, <1>10, <1>11, <1>12

(* One leg per instruction, joined.                                        *)
Singles(seqs, elements, n) == seqs = [k \in 1..n |-> << elements[k] >>]

LEMMA SinglesJoin ==
  ASSUME NEW n \in Nat \ {0}, NEW elements, NEW seqs, Singles(seqs, elements, n)
  PROVE  FlattenSeq(seqs) = [k \in 1..n |-> elements[k]]
<1> DEFINE D == {elements[k] : k \in 1..n}
           S == Seq(D)
           start == [k \in 1..n |-> k - 1]
           F == FlattenSeq(seqs)
<1>1. Len(seqs) = n /\ DOMAIN seqs = 1..n /\ \A k \in 1..n : seqs[k] = << elements[k] >>
  BY DEF Singles
<1>2. seqs \in Seq(S)
  <2>1. \A k \in 1..n : elements[k] \in D
    OBVIOUS
  <2> HIDE DEF D
  <2>2. \A k \in 1..n : seqs[k] \in S
    BY <1>1, <2>1
  <2> HIDE DEF S
  <2>3. seqs \in [1..n -> S] /\ n \in Nat
    BY <2>2 DEF Singles
  <2> QED  BY <2>3, SeqDef
<1>3. ASSUME NEW k \in 1..n
      PROVE  Len(seqs[k]) = 1 /\ seqs[k][1] = elements[k] /\ start[k] = k - 1
  <2>1. seqs[k] = << elements[k] >>
    BY <1>1
  <2>2. start[k] = k - 1
    OBVIOUS
  <2> HIDE DEF start
  <2> QED  BY <2>1, <2>2
<1>4. Offsets(start, seqs)
  <2>1. start[1] = 0
    OBVIOUS
  <2>2. ASSUME NEW i \in 1..Len(seqs) - 1 PROVE start[i + 1] = start[i] + Len(seqs[i])
    <3>1. i \in 1..n /\ i + 1 \in 1..n
      BY <1>1
    <3> HIDE DEF start
    <3>2. start[i + 1] = (i + 1) - 1 /\ start[i] = i - 1 /\ Len(seqs[i]) = 1
      BY <1>3, <3>1
    <3> QED  BY <3>1, <3>2
  <2> HIDE DEF start
  <2> QED  BY <2>1, <2>2 DEF Offsets
<1>5. FlattenSeq(seqs) \in Seq(D)
  BY <1>2, FlattenLists
<1> HIDE DEF D, start
<1>6. Puts(F, seqs, start, n)
  <2>1. Len(seqs) # 0
    BY <1>1
  <2> QED  BY <1>1, <1>2, <1>4, <2>1, FlattenAt DEF S
<1>7. Len(F) = n
  <2>1. Len(F) = start[n] + Len(seqs[n]) /\ n \in 1..n
    BY <1>6 DEF Puts
  <2>2. start[n] = n - 1 /\ Len(seqs[n]) = 1
    BY <1>3, <2>1
  <2> HIDE DEF F
  <2> QED  BY <2>1, <2>2
<1>8. ASSUME NEW k \in 1..n PROVE F[k] = elements[k]
  <2>1. 1 \in 1..Len(seqs[k]) /\ seqs[k][1] = elements[k] /\ start[k] + 1 = k
    BY <1>3
  <2>2. F[start[k] + 1] = seqs[k][1]
    BY <1>6, <2>1 DEF Puts
  <2> HIDE DEF F
  <2> QED  BY <2>1, <2>2
<1>9. F \in Seq(D)
  BY <1>5
<1> HIDE DEF F
<1>10. F = [k \in 1..n |-> elements[k]]
  BY <1>7, <1>8, <1>9
<1> QED  BY <1>10 DEF F

(* A way of one pool. *)
LEMMA OneStep ==
  ASSUME NEW pool, NEW x, NEW y, Trades(pool, x, y),
         NEW one, one = [k \in 1..1 |-> pool]
  PROVE  /\ Way(one, << x, y >>, 1) /\ Walked(one, << x, y >>, 1) = << Leg({pool}, x, y) >>
         /\ Len(<< x, y >>) = 1 + 1 /\ TiersAlong(<< TierOf[pool] >>, one, 1)
<1> DEFINE pair == << x, y >>
<1>1. pair[1] = x /\ pair[2] = y /\ Len(pair) = 2 /\ one[1] = pool
  OBVIOUS
<1>2. \A k \in 1..1 : k = 1 /\ k + 1 = 2
  OBVIOUS
<1> HIDE DEF pair
<1>3. Way(one, pair, 1)
  BY <1>1, <1>2 DEF Way
<1>4. Walked(one, pair, 1) = << Leg({pool}, x, y) >>
  <2>1. Walked(one, pair, 1) = [k \in 1..1 |-> Leg({pool}, x, y)]
    BY <1>1, <1>2 DEF Walked
  <2> QED  BY <2>1
<1>5. TiersAlong(<< TierOf[pool] >>, one, 1)
  <2>1. [k \in 1..1 |-> TierOf[one[k]]] = [k \in 1..1 |-> TierOf[pool]]
    BY <1>1, <1>2
  <2> QED  BY <2>1 DEF TiersAlong
<1> QED  BY <1>1, <1>3, <1>4, <1>5 DEF pair

(* One command of build_uniswap_span.                                      *)
LEMMA HopWalk ==
  ASSUME ask \in Calls, Call.span.kind = "UniswapUniversal", NEW k \in 1..Hops
  PROVE  UniswapHopLegs(Call, Hop(k))
           = << Leg({Call.pools[Hop(k)]}, Call.path[Hop(k)], Call.path[Hop(k) + 1]) >>
<1> DEFINE pool == Call.pools[Hop(k)]
           x == Call.path[Hop(k)]
           y == Call.path[Hop(k) + 1]
           one == [j \in 1..1 |-> pool]
           hop == << x, y >>
<1>1. RouterKindOf(pool) = "UniswapUniversal" /\ pool \in Pool /\ HopJoined(Call, Hop(k))
  BY OneHop
<1>2. Trades(pool, x, y) /\ KindOf[pool] \in {"UniswapV2", "UniswapV3", "UniswapV4"}
  BY <1>1 DEF Trades, HopJoined, RouterKindOf
<1>3. /\ Way(one, hop, 1) /\ Walked(one, hop, 1) = << Leg({pool}, x, y) >>
      /\ Len(hop) = 1 + 1 /\ TiersAlong(<< TierOf[pool] >>, one, 1)
  <2>1. one = [j \in 1..1 |-> pool]
    OBVIOUS
  <2> HIDE DEF one, pool, x, y
  <2> QED  BY <1>2, <2>1, OneStep
<1>4. \A j \in 1..1 : KindOf[one[j]] = KindOf[pool]
  OBVIOUS
<1>5. CASE KindOf[pool] = "UniswapV2"
  <2>1. UniswapHopLegs(Call, Hop(k)) = PairLegs(hop)
    BY <1>5 DEF UniswapHopLegs
  <2> HIDE DEF one, pool, hop, x, y
  <2>2. PairLegs(hop) = Walked(one, hop, 1)
    BY <1>3, <1>4, <1>5, PairWalk
  <2> QED  BY <1>3, <2>1, <2>2 DEF pool, x, y
<1>6. CASE KindOf[pool] = "UniswapV3"
  <2> DEFINE tiers == << TierOf[pool] >>
  <2>1. UniswapHopLegs(Call, Hop(k))
          = TieredLegs("UniswapV3", TieredPath(hop, tiers, FALSE), FALSE)
    BY <1>6 DEF UniswapHopLegs
  <2>2. TiersAlong(tiers, one, 1)
    BY <1>3
  <2> HIDE DEF one, pool, hop, x, y, tiers
  <2>3. TieredWay(one, hop, tiers, 1, "UniswapV3")
    BY <1>3, <1>4, <1>6, <2>2 DEF TieredWay
  <2>4. TieredLegs("UniswapV3", TieredPath(hop, tiers, FALSE), FALSE) = Walked(one, hop, 1)
    BY <2>3, TieredWalk
  <2> QED  BY <1>3, <2>1, <2>4 DEF pool, x, y
<1>7. CASE KindOf[pool] = "UniswapV4"
  <2>1. UniswapHopLegs(Call, Hop(k)) = << V4Leg(pool, x) >>
    BY <1>7 DEF UniswapHopLegs
  <2> HIDE DEF pool, x, y
  <2>2. V4Leg(pool, x) = Leg({pool}, x, y)
    BY <1>2, <1>7, KeyWalk
  <2> QED  BY <2>1, <2>2 DEF pool, x, y
<1> QED  BY <1>2, <1>5, <1>6, <1>7

LEMMA UniswapWalk ==
  ASSUME ask \in Calls, Call.span.kind = "UniswapUniversal"
  PROVE  UniswapLegs(Call) = TheWay
<1> DEFINE e == [k \in 1..Hops |-> Leg({Call.pools[Hop(k)]}, Call.path[Hop(k)], Call.path[Hop(k) + 1])]
           seqs == [k \in 1..Hops |-> UniswapHopLegs(Call, Hop(k))]
<1>1. Hops \in Nat \ {0}
  BY OneHop
<1>2. UniswapLegs(Call) = FlattenSeq(seqs)
  BY DEF UniswapLegs, Hops, Hop
<1>3. \A k \in 1..Hops : seqs[k] = << e[k] >>
  BY HopWalk
<1>4. Singles(seqs, e, Hops)
  <2>1. DOMAIN seqs = 1..Hops /\ seqs = [k \in DOMAIN seqs |-> seqs[k]]
    OBVIOUS
  <2> HIDE DEF seqs, e
  <2> QED  BY <1>3, <2>1 DEF Singles
<1>5. e = TheWay /\ [k \in 1..Hops |-> e[k]] = e
  BY DEF TheWay
<1> HIDE DEF seqs, e
<1>6. FlattenSeq(seqs) = [k \in 1..Hops |-> e[k]]
  BY <1>1, <1>4, SinglesJoin
<1> QED  BY <1>2, <1>5, <1>6

LEMMA WayTiers ==
  ASSUME ask \in Calls, Call.span.kind # "Curve",
         NEW kind, \A k \in 1..Hops : KindOf[Call.pools[Hop(k)]] = kind
  PROVE  TieredWay(PoolsOnWay, TokensOnWay, SpanTiers(Call), Hops, kind)
<1>1. Way(PoolsOnWay, TokensOnWay, Hops) /\ Len(TokensOnWay) = Hops + 1
  BY SpanWay, WayTokens
<1>2. \A k \in 1..Hops : PoolsOnWay[k] = Call.pools[Hop(k)]
  BY DEF PoolsOnWay
<1>3. SpanTiers(Call) = [k \in 1..Hops |-> TierOf[Call.pools[Hop(k)]]]
  BY DEF SpanTiers, Hops, Hop
<1>4. TiersAlong(SpanTiers(Call), PoolsOnWay, Hops)
  BY <1>2, <1>3 DEF TiersAlong
<1> QED  BY <1>1, <1>2, <1>4 DEF TieredWay

LEMMA SlipstreamWalk ==
  ASSUME ask \in Calls, Call.span.kind = "Slipstream", NEW exactOut \in BOOLEAN
  PROVE  SlipstreamLegs(Call, exactOut) = TheWay
<1>1. \A k \in 1..Hops : KindOf[Call.pools[Hop(k)]] = "Slipstream"
  BY OneHop DEF RouterKindOf
<1>2. TieredWay(PoolsOnWay, TokensOnWay, SpanTiers(Call), Hops, "Slipstream")
  BY <1>1, WayTiers
<1> DEFINE tokens == TokensOnWay
           tiers == SpanTiers(Call)
           legs == Walked(PoolsOnWay, TokensOnWay, Hops)
<1>3. SlipstreamLegs(Call, exactOut)
        = TieredLegs("Slipstream", TieredPath(tokens, tiers, exactOut), exactOut)
  BY DEF SlipstreamLegs, SlipstreamPath, TokensOnWay
<1>4. /\ TieredLegs("Slipstream", TieredPath(tokens, tiers, FALSE), FALSE) = legs
      /\ TieredLegs("Slipstream", TieredPath(tokens, tiers, TRUE), TRUE) = legs
  BY <1>2, TieredWalk
<1>5. legs = TheWay
  BY WalkedTheWay
<1> HIDE DEF tokens, tiers, legs
<1>6. CASE exactOut = TRUE
  BY <1>3, <1>4, <1>5, <1>6
<1>7. CASE exactOut = FALSE
  BY <1>3, <1>4, <1>5, <1>7
<1> QED  BY <1>6, <1>7

LEMMA AerodromeWalk ==
  ASSUME ask \in Calls, Call.span.kind = "Aerodrome"
  PROVE  AerodromeLegs([k \in 1..SpanLen(Call.span) |-> AerodromeRoute(Call, Call.span.start + k)])
           = TheWay
<1> DEFINE routes == [k \in 1..SpanLen(Call.span) |-> AerodromeRoute(Call, Call.span.start + k)]
<1>1. Way(PoolsOnWay, TokensOnWay, Hops) /\ Hops \in Nat
  BY SpanWay, OneHop
<1>2. \A k \in 1..Hops : KindOf[PoolsOnWay[k]] \in {"AerodromeVolatile", "AerodromeStable"}
  BY OneHop DEF RouterKindOf, PoolsOnWay
<1>3. RoutesAlong(routes, PoolsOnWay, TokensOnWay, Hops)
  <2>1. routes = [k \in 1..Hops |-> AerodromeRoute(Call, Hop(k))]
    BY DEF Hops, Hop
  <2>2. ASSUME NEW k \in 1..Hops
        PROVE  AerodromeRoute(Call, Hop(k))
                 = [from |-> TokensOnWay[k], to |-> TokensOnWay[k + 1],
                    stable |-> KindOf[PoolsOnWay[k]] = "AerodromeStable"]
    <3>1. k \in 1..Hops + 1 /\ k + 1 \in 1..Hops + 1
      BY <1>1
    <3>2. TokensOnWay[k] = Call.path[Hop(k)] /\ TokensOnWay[k + 1] = Call.path[Hop(k) + 1]
      BY <3>1, WayTokens
    <3> QED  BY <3>2 DEF AerodromeRoute, PoolsOnWay
  <2> HIDE DEF routes
  <2> QED  BY <2>1, <2>2 DEF RoutesAlong
<1> HIDE DEF routes
<1>4. AerodromeLegs(routes) = Walked(PoolsOnWay, TokensOnWay, Hops)
  BY <1>1, <1>2, <1>3, RouteWalk
<1> QED  BY <1>4, WalkedTheWay DEF routes

(* An exact output of Uniswap is of one version, and of one pool if V4.    *)
LEMMA ExactOutAccepted ==
  ASSUME ask \in Calls, Call.span.kind = "UniswapUniversal", ExactOutVerdict(Call) = "Ok"
  PROVE  /\ \A k \in 1..Hops : KindOf[Call.pools[Hop(k)]] = KindOf[FirstPool(Call)]
         /\ KindOf[FirstPool(Call)] = "UniswapV4" => Hops = 1
<1> DEFINE verdicts == UniswapExactOutChecks(Call)
           kinds == {KindOf[Call.pools[i]] : i \in SpanPools(Call)}
           v4 == kinds = {"UniswapV4"}
           native == Reject(Native(Call), "UnsupportedProtocol")
           one == Reject(Cardinality(kinds) > 1, "UnsupportedExactOut")
           single == Reject(v4 /\ SpanLen(Call.span) > 1, "UnsupportedExactOut")
<1>1. FirstError(verdicts) = "Ok"
  BY DEF ExactOutVerdict
<1>2. PICK d, e, f, g : verdicts = << native, one, single, d, e, f, g >>
  BY Zenon DEF UniswapExactOutChecks
<1>3. Len(verdicts) = 7 /\ verdicts[2] = one /\ verdicts[3] = single
  <2> HIDE DEF verdicts, native, one, single
  <2> QED  BY <1>2
<1>4. one = "Ok" /\ single = "Ok"
  <2> HIDE DEF verdicts, native, one, single
  <2>1. Len(verdicts) \in Nat /\ {2, 3} \subseteq 1..Len(verdicts)
    BY <1>3
  <2> QED  BY <1>1, <1>3, <2>1, AllOk
<1>5. ~(Cardinality(kinds) > 1) /\ ~(v4 /\ SpanLen(Call.span) > 1)
  <2> HIDE DEF kinds, v4
  <2> QED  BY <1>4, RejectOk
<1>6. /\ Hops \in Nat \ {0} /\ \A k \in 1..Hops : Hop(k) \in SpanPools(Call)
      /\ SpanLen(Call.span) = Hops
  BY OneHop DEF Hop, Hops, SpanPools
<1>7. IsFiniteSet(kinds)
  <2> DEFINE uniswap == {"UniswapV2"} \cup {"UniswapV3"} \cup {"UniswapV4"}
  <2>1. IsFiniteSet(uniswap)
    BY FS_Singleton, FS_Union
  <2>2. ASSUME NEW i \in SpanPools(Call) PROVE KindOf[Call.pools[i]] \in uniswap
    <3>1. i - Call.span.start \in 1..Hops /\ Hop(i - Call.span.start) = i
      BY OneHop DEF SpanPools, Hop
    <3>2. RouterKindOf(Call.pools[i]) = "UniswapUniversal"
      BY <3>1, OneHop
    <3> QED  BY <3>2 DEF RouterKindOf
  <2>3. kinds \subseteq uniswap
    BY <2>2
  <2> HIDE DEF kinds, uniswap
  <2> QED  BY <2>1, <2>3, FS_Subset
<1>8. \A k \in 1..Hops : KindOf[Call.pools[Hop(k)]] \in kinds
  BY <1>6
<1>9. KindOf[FirstPool(Call)] \in kinds
  BY <1>6, <1>8, FirstPoolIs
<1> HIDE DEF kinds
<1>10. \A kind \in kinds : kind = KindOf[FirstPool(Call)]
  <2> SUFFICES ASSUME NEW kind \in kinds, kind # KindOf[FirstPool(Call)] PROVE FALSE
    OBVIOUS
  <2> DEFINE two == {kind, KindOf[FirstPool(Call)]}
  <2>1. two \subseteq kinds
    BY <1>9
  <2>2. Cardinality(two) = 2
    <3>1. IsFiniteSet({kind}) /\ Cardinality({kind}) = 1
      BY FS_Singleton
    <3>2. Cardinality({kind} \cup {KindOf[FirstPool(Call)]}) = 1 + 1
      BY <3>1, FS_AddElement
    <3>3. two = {kind} \cup {KindOf[FirstPool(Call)]}
      OBVIOUS
    <3> QED  BY <3>2, <3>3
  <2>3. Cardinality(two) <= Cardinality(kinds)
    BY <1>7, <2>1, FS_Subset
  <2>4. Cardinality(kinds) \in Nat
    BY <1>7, FS_CardinalityType
  <2> QED  BY <1>5, <2>2, <2>3, <2>4
<1>11. KindOf[FirstPool(Call)] = "UniswapV4" => v4
  BY <1>9, <1>10
<1> HIDE DEF v4
<1> QED  BY <1>5, <1>6, <1>8, <1>10, <1>11

LEMMA UniswapOutWalk ==
  ASSUME ask \in Calls, Call.span.kind = "UniswapUniversal", ExactOutVerdict(Call) = "Ok"
  PROVE  UniswapLegsExactOut(Call) = TheWay
<1> DEFINE kind == KindOf[FirstPool(Call)]
<1>1. \A k \in 1..Hops : KindOf[Call.pools[Hop(k)]] = kind
  BY ExactOutAccepted
<1>2. kind \in {"UniswapV2", "UniswapV3", "UniswapV4"}
  BY FirstPoolIs DEF RouterKindOf
<1>3. CASE kind = "UniswapV2"
  <2>1. UniswapLegsExactOut(Call) = PairLegs(TokensOnWay)
    BY <1>3 DEF UniswapLegsExactOut, TokensOnWay
  <2>2. \A k \in 1..Hops : KindOf[PoolsOnWay[k]] = "UniswapV2"
    BY <1>1, <1>3 DEF PoolsOnWay
  <2>3. PairLegs(TokensOnWay) = Walked(PoolsOnWay, TokensOnWay, Hops)
    BY <2>2, SpanWay, WayTokens, PairWalk
  <2> QED  BY <2>1, <2>3, WalkedTheWay
<1>4. CASE kind = "UniswapV3"
  <2> DEFINE tiers == SpanTiers(Call)
             tokens == TokensOnWay
  <2>1. UniswapLegsExactOut(Call) = TieredLegs("UniswapV3", TieredPath(tokens, tiers, TRUE), TRUE)
    BY <1>4 DEF UniswapLegsExactOut, TokensOnWay
  <2>2. \A k \in 1..Hops : KindOf[Call.pools[Hop(k)]] = "UniswapV3"
    BY <1>1, <1>4
  <2>3. TieredWay(PoolsOnWay, tokens, tiers, Hops, "UniswapV3")
    BY <2>2, WayTiers
  <2>4. TieredLegs("UniswapV3", TieredPath(tokens, tiers, TRUE), TRUE)
          = Walked(PoolsOnWay, tokens, Hops)
    BY <2>3, TieredWalk
  <2> QED  BY <2>1, <2>4, WalkedTheWay
<1>5. CASE kind = "UniswapV4"
  <2>1. UniswapLegsExactOut(Call) = << V4Leg(FirstPool(Call), SpanIn(Call)) >>
    BY <1>5 DEF UniswapLegsExactOut
  <2>2. Hops = 1 /\ SpanIn(Call) = Call.path[Hop(1)] /\ FirstPool(Call) = Call.pools[Hop(1)]
    BY <1>5, ExactOutAccepted, WayTokens, FirstPoolIs
  <2>3. Trades(FirstPool(Call), SpanIn(Call), Call.path[Hop(1) + 1])
    <3>1. 1 \in 1..Hops
      BY <2>2
    <3>2. Call.pools[Hop(1)] \in Pool /\ HopJoined(Call, Hop(1))
      BY <3>1, OneHop
    <3>3. RouterKindOf(FirstPool(Call)) # "Curve"
      BY FirstPoolIs
    <3> QED  BY <2>2, <3>2, <3>3 DEF Trades, HopJoined
  <2>4. V4Leg(FirstPool(Call), SpanIn(Call))
          = Leg({FirstPool(Call)}, SpanIn(Call), Call.path[Hop(1) + 1])
    BY <1>5, <2>3, KeyWalk
  <2> DEFINE P(k) == Leg({Call.pools[Hop(k)]}, Call.path[Hop(k)], Call.path[Hop(k) + 1])
  <2>5. TheWay = [k \in 1..1 |-> P(k)]
    BY <2>2 DEF TheWay
  <2>6. P(1) = V4Leg(FirstPool(Call), SpanIn(Call))
    BY <2>2, <2>4
  <2> HIDE DEF P
  <2>7. [k \in 1..1 |-> P(k)] = << P(1) >>
    <3>1. \A k \in 1..1 : k = 1
      OBVIOUS
    <3> QED  BY <3>1
  <2> QED  BY <2>1, <2>5, <2>6, <2>7
<1> QED  BY <1>2, <1>3, <1>4, <1>5

(* A span of Curve holds pools of known interfaces alone.                  *)
LEMMA CurveAccepted ==
  ASSUME ask \in Calls, Call.span.kind = "Curve", Hops # 1, ExactInVerdict(Call) = "Ok"
  PROVE  \A k \in 1..Hops : InterfaceOf[Call.pools[Hop(k)]] \in CurveInterface
<1> DEFINE verdicts == CurveSpanChecks(Call)
           unknown == \E i \in SpanPools(Call) : InterfaceOf[Call.pools[i]] = "None"
           named == Reject(unknown, "UnsupportedProtocol")
<1>1. FirstError(verdicts) = "Ok"
  <2>1. SpanLen(Call.span) # 1
    BY DEF Hops
  <2> QED  BY <2>1 DEF ExactInVerdict
<1>2. PICK a, b, c, d, e : verdicts = << a, b, c, d, e, named >>
  BY Zenon DEF CurveSpanChecks
<1>3. Len(verdicts) = 6 /\ verdicts[6] = named
  <2> HIDE DEF verdicts, named
  <2> QED  BY <1>2
<1>4. named = "Ok"
  <2> HIDE DEF verdicts, named
  <2>1. Len(verdicts) \in Nat /\ 6 \in 1..Len(verdicts)
    BY <1>3
  <2> QED  BY <1>1, <1>3, <2>1, AllOk
<1>5. ~unknown
  <2> HIDE DEF unknown
  <2> QED  BY <1>4, RejectOk
<1>6. ASSUME NEW k \in 1..Hops PROVE InterfaceOf[Call.pools[Hop(k)]] \in CurveInterface
  <2>1. Hop(k) \in SpanPools(Call) /\ Call.pools[Hop(k)] \in Pool
    BY OneHop DEF Hop, SpanPools
  <2>2. InterfaceOf[Call.pools[Hop(k)]] # "None"
    BY <1>5, <2>1
  <2> QED  BY <2>1, <2>2, BuildersAssumption
<1> QED  BY <1>6

(* The router knows each interface by the type it is told.                 *)
LEMMA TypeReadBack ==
  ASSUME NEW interface \in CurveInterface, NEW n
  PROVE  InterfaceOfType(CurvePoolType(interface, n)) = interface
BY DEF CurveInterface, CurvePoolType, InterfaceOfType

(* What _route holds. *)
LEMMA CurveRouteIs ==
  ASSUME ask \in Calls, Call.span.kind = "Curve"
  PROVE  /\ Hops \in 1..5
         /\ \A k \in 1..Hops : CurveRoute(Call)[2 * k] = Call.pools[Hop(k)]
         /\ \A k \in Hops + 1..5 : CurveRoute(Call)[2 * k] = AddressZero
<1> DEFINE route == CurveRoute(Call)
           Endpoint(k) ==
             IF \/ k = 0 /\ Call.nativeIn
                \/ k = SpanLen(Call.span) /\ Call.nativeOut
             THEN EthSentinel ELSE SpanTokens(Call)[k + 1]
           SlotAt(slot) == IF slot > 2 * SpanLen(Call.span) + 1 THEN AddressZero
                       ELSE IF slot % 2 = 1 THEN Endpoint(slot \div 2)
                       ELSE Call.pools[Call.span.start + slot \div 2]
<1>1. route = [slot \in 1..RouteSlots |-> SlotAt(slot)]
  BY Zenon DEF CurveRoute
<1>2. Hops \in 1..5
  <2>1. AsksForASpan(ask.call) /\ Call.span = ask.call.span
    BY CallsAssumption, EdgeTypes
  <2>2. Hops <= CURVE_MAX_HOPS
    BY <2>1 DEF AsksForASpan, Hops
  <2>3. CURVE_MAX_HOPS \in Nat /\ 2 * CURVE_MAX_HOPS + 1 <= 11
    BY CurveAssumption, RoutingAssumption DEF RouteSlots
  <2> QED  BY <2>2, <2>3, OneHop
<1>3. ASSUME NEW k \in 1..5
      PROVE  /\ 2 * k \in 1..RouteSlots /\ (2 * k) % 2 # 1 /\ (2 * k) \div 2 = k
             /\ 2 * k > 2 * Hops + 1 <=> k > Hops
  BY <1>2 DEF RouteSlots
<1> HIDE DEF Endpoint, route
<1>4. ASSUME NEW k \in 1..Hops PROVE route[2 * k] = Call.pools[Hop(k)]
  <2>1. k \in 1..5 /\ ~(k > Hops)
    BY <1>2
  <2>2. route[2 * k] = SlotAt(2 * k)
    <3> HIDE DEF SlotAt
    <3> QED  BY <1>1, <1>3, <2>1
  <2>3. ~(2 * k > 2 * SpanLen(Call.span) + 1)
    BY <1>3, <2>1 DEF Hops
  <2>4. SlotAt(2 * k) = Call.pools[Call.span.start + (2 * k) \div 2]
    BY <1>3, <2>1, <2>3
  <2> QED  BY <1>3, <2>1, <2>2, <2>4 DEF Hop
<1>5. ASSUME NEW k \in Hops + 1..5 PROVE route[2 * k] = AddressZero
  <2>1. k \in 1..5 /\ k > Hops
    BY <1>2
  <2>2. route[2 * k] = SlotAt(2 * k)
    <3> HIDE DEF SlotAt
    <3> QED  BY <1>1, <1>3, <2>1
  <2>3. 2 * k > 2 * SpanLen(Call.span) + 1
    BY <1>3, <2>1 DEF Hops
  <2> QED  BY <2>2, <2>3
<1> QED  BY <1>2, <1>4, <1>5 DEF route

LEMMA CurveWalk ==
  ASSUME ask \in Calls, Call.span.kind = "Curve", Hops # 1, ExactInVerdict(Call) = "Ok"
  PROVE  CurveLegs(CurveRoute(Call), SwapParams(Call)) = TheWay
<1> DEFINE route == CurveRoute(Call)
           params == SwapParams(Call)
           seen == {k \in 1..5 : \A l \in 1..k : route[2 * l] # AddressZero}
           Answers(k) == {route[2 * k]} \cap
                         {pool \in Pool : InterfaceOf[pool] = InterfaceOfType(params[k].poolType)}
           Went(k) == Leg(Answers(k), Coins[route[2 * k]][params[k].i], Coins[route[2 * k]][params[k].j])
<1>1. /\ Hops \in 1..5
      /\ \A k \in 1..Hops : route[2 * k] = Call.pools[Hop(k)]
      /\ \A k \in Hops + 1..5 : route[2 * k] = AddressZero
  BY CurveRouteIs
<1>2. \A k \in 1..Hops :
        /\ Call.pools[Hop(k)] \in Pool /\ Call.pools[Hop(k)] # AddressZero
        /\ HopJoined(Call, Hop(k))
  BY OneHop, CurveAssumption
<1>3. CurveLegs(route, params) = [k \in 1..Cardinality(seen) |-> Went(k)]
  BY DEF CurveLegs
<1> HIDE DEF route, params
<1>4. seen = 1..Hops
  <2>1. ASSUME NEW k \in seen PROVE k \in 1..Hops
    <3> SUFFICES ASSUME k > Hops PROVE FALSE
      BY <1>1
    <3>1. Hops + 1 \in 1..k /\ Hops + 1 \in Hops + 1..5
      BY <1>1
    <3> QED  BY <1>1, <3>1
  <2>2. ASSUME NEW k \in 1..Hops PROVE k \in seen
    <3>1. k \in 1..5 /\ \A l \in 1..k : l \in 1..Hops
      BY <1>1
    <3>2. \A l \in 1..Hops : route[2 * l] # AddressZero
      BY <1>1, <1>2
    <3> QED  BY <3>1, <3>2
  <2> HIDE DEF seen
  <2> QED  BY <2>1, <2>2
<1>5. Cardinality(seen) = Hops
  <2>1. Cardinality(1..Hops) = IF 1 > Hops THEN 0 ELSE Hops - 1 + 1
    BY <1>1, FS_Interval
  <2> HIDE DEF seen
  <2> QED  BY <1>1, <1>4, <2>1
<1>6. ASSUME NEW k \in 1..Hops
      PROVE  Went(k) = Leg({Call.pools[Hop(k)]}, Call.path[Hop(k)], Call.path[Hop(k) + 1])
  <2> DEFINE pool == Call.pools[Hop(k)]
             x == Call.path[Hop(k)]
             y == Call.path[Hop(k) + 1]
  <2>1. pool \in Pool /\ x \in AssetsOf[pool] /\ y \in AssetsOf[pool] /\ route[2 * k] = pool
    BY <1>1, <1>2 DEF HopJoined
  <2>2. SpanTokens(Call)[k] = x /\ SpanTokens(Call)[k + 1] = y
    <3>1. k \in 1..Hops + 1 /\ k + 1 \in 1..Hops + 1 /\ Hop(k + 1) = Hop(k) + 1
      BY <1>1, WayTokens
    <3> QED  BY <3>1, WayTokens DEF TokensOnWay
  <2>3. /\ params[k].i = CoinIndex(pool, x) /\ params[k].j = CoinIndex(pool, y)
        /\ params[k].poolType = CurvePoolType(InterfaceOf[pool], Len(Coins[pool]))
    <3> DEFINE Param(l) ==
          LET at == Call.pools[Call.span.start + l]
          IN  [i |-> CoinIndex(at, SpanTokens(Call)[l]), j |-> CoinIndex(at, SpanTokens(Call)[l + 1]),
               poolType |-> CurvePoolType(InterfaceOf[at], Len(Coins[at]))]
    <3>1. params = [l \in 1..Hops |-> Param(l)]
      BY Zenon DEF params, SwapParams, Hops
    <3>2. params[k] = Param(k)
      <4> HIDE DEF Param
      <4> QED  BY <3>1
    <3>3. Call.pools[Call.span.start + k] = pool
      BY DEF Hop
    <3> HIDE DEF pool, x, y
    <3> QED  BY <2>2, <3>2, <3>3
  <2>4. InterfaceOf[pool] \in CurveInterface
    BY CurveAccepted
  <2> HIDE DEF pool, x, y
  <2>5. InterfaceOfType(params[k].poolType) = InterfaceOf[pool]
    BY <2>3, <2>4, TypeReadBack
  <2>6. Answers(k) = {pool}
    BY <2>1, <2>5
  <2>7. Coins[pool][CoinIndex(pool, x)] = x /\ Coins[pool][CoinIndex(pool, y)] = y
    BY <2>1, CoinAt
  <2> HIDE DEF Answers
  <2>8. Went(k) = Leg({pool}, x, y)
    BY <2>1, <2>3, <2>6, <2>7
  <2> QED  BY <2>8 DEF pool, x, y
<1> HIDE DEF seen, Went, Answers
<1> QED  BY <1>3, <1>5, <1>6 DEF TheWay, route, params

(* A transaction that runs is one its encoder found nothing wrong with.    *)
Accepted == status = "Running" => EncoderVerdict = "Ok"

LEMMA AcceptedKept ==
  ASSUME SettleInv, Accepted, [Next]_vars
  PROVE  Accepted'
<1>1. ASSUME UNCHANGED <<ask, opts>> PROVE EncoderVerdict' = EncoderVerdict
  BY <1>1 DEF EncoderVerdict, Call
<1>2. ASSUME UNCHANGED <<ask, opts>>, status' = "Running" => status = "Running"
      PROVE  Accepted'
  BY <1>1, <1>2 DEF Accepted
<1>3. CASE UNCHANGED vars
  BY <1>2, <1>3 DEF vars
<1>4. CASE Next /\ status = "Running"
  <2>1. CASE Late
    BY <1>2, <1>4, <2>1, LateExpires DEF Revert
  <2>2. CASE ~Late
    <3>1. Serving /\ Stage(tx, resolves, pc, funds, delta, allowance)
      BY <1>4, <2>2, StagedIs DEF SettleInv, Serving, WellSent, HandedOver
    <3>2. Moves \/ Settles
      BY <1>4, <3>1, StageMoves
    <3> QED  BY <1>2, <1>4, <3>2 DEF Moves, Settles, Advances, FailsRightly, Revert
  <2> QED  BY <2>1, <2>2
<1>5. CASE Next /\ status # "Running"
  <2>1. HandOver \/ Tick \/ Refuse \/ Send
    BY <1>5, IdleSteps
  <2>2. CASE Send
    <3>1. EncoderVerdict = "Ok" /\ UNCHANGED <<ask, opts>>
      BY <2>2 DEF Send
    <3> QED  BY <1>1, <3>1 DEF Accepted
  <2>3. CASE HandOver \/ Tick \/ Refuse
    <3>1. status' # "Running"
      BY <1>5, <2>3 DEF HandOver, Tick, Refuse
    <3> QED  BY <3>1 DEF Accepted
  <2> QED  BY <2>1, <2>2, <2>3
<1> QED  BY <1>3, <1>4, <1>5

LEMMA AcceptedAlways == Spec => []Accepted
<1>1. Init => Accepted
  BY DEF Init, Accepted
<1>2. SettleInv /\ Accepted /\ [Next]_vars => Accepted'
  BY AcceptedKept
<1> QED  BY <1>1, <1>2, SettleInvAlways, PTL DEF Spec

(* RouterWalksTheSpan, for every span of every router, and for one pool of *)
(* every kind: what the encoder accepted is enough to find each pool again *)
(* from the tokens, tiers, keys or coins the transaction names it by.      *)
THEOREM RouterWalksTheSpanAlways == Spec => []RouterWalksTheSpan
<1>1. SettleInv /\ Accepted => RouterWalksTheSpan
  <2> SUFFICES ASSUME SettleInv, Accepted, status = "Running"
               PROVE  (IF Direct THEN PoolLegs(Call) ELSE SpanLegs(Call, ask.exactOut)) = TheWay
    BY WalkedTheWay DEF RouterWalksTheSpan, SettleInv, HandedOver
  <2>1. /\ ask \in Calls /\ opts \in EncoderOptions /\ EncoderVerdict = "Ok"
        /\ Call.payee \in Account /\ ~(Call.nativeIn /\ Call.nativeOut)
        /\ ask.exactOut \in BOOLEAN
    BY EdgeTypes DEF SettleInv, HandedOver, Accepted, WellSent, Addressed
  <2>2. CASE Direct
    <3>1. PoolAccepted
      BY <2>1, <2>2, DirectAccepted
    <3> QED  BY <2>1, <2>2, <3>1, PoolWalk
  <2>3. CASE ~Direct /\ ~ask.exactOut /\ Hops = 1
    <3>1. SinglePoolVerdict(Call) = "Ok"
      BY <2>1, <2>3 DEF EncoderVerdict, ExactInVerdict, Hops, Direct
    <3>2. PoolAccepted
      BY <2>1, <2>3, <3>1 DEF PoolAccepted
    <3>3. SpanLegs(Call, ask.exactOut) = PoolLegs(Call)
      BY <2>3 DEF SpanLegs, Hops
    <3> QED  BY <2>1, <2>3, <3>2, <3>3, PoolWalk
  <2>4. CASE ~Direct /\ ~ask.exactOut /\ Hops # 1
    <3>0. ask.exactOut = FALSE /\ SpanLen(Call.span) # 1 /\ ExactInVerdict(Call) = "Ok"
      BY <2>1, <2>4 DEF EncoderVerdict, Hops, Direct
    <3>1. CASE Call.span.kind = "UniswapUniversal"
      <4>1. SpanLegs(Call, ask.exactOut) = UniswapLegs(Call)
        BY <3>0, <3>1 DEF SpanLegs
      <4> QED  BY <2>1, <2>4, <3>1, <4>1, UniswapWalk
    <3>2. CASE Call.span.kind = "Slipstream"
      <4>1. SpanLegs(Call, ask.exactOut) = SlipstreamLegs(Call, ask.exactOut)
        BY <3>0, <3>2 DEF SpanLegs
      <4> QED  BY <2>1, <2>4, <3>2, <4>1, SlipstreamWalk
    <3>3. CASE Call.span.kind = "Aerodrome"
      <4> DEFINE routes == [k \in 1..SpanLen(Call.span) |->
                              AerodromeRoute(Call, Call.span.start + k)]
      <4>1. SpanLegs(Call, ask.exactOut) = AerodromeLegs(routes)
        BY <3>0, <3>3 DEF SpanLegs
      <4> QED  BY <2>1, <2>4, <3>3, <4>1, AerodromeWalk
    <3>4. CASE Call.span.kind = "Curve"
      <4>1. SpanLegs(Call, ask.exactOut) = CurveLegs(CurveRoute(Call), SwapParams(Call))
        BY <3>0, <3>4 DEF SpanLegs
      <4> QED  BY <2>1, <2>4, <3>0, <3>4, <4>1, CurveWalk
    <3>5. Call.span.kind \in RouterKind
      BY <2>1, OneHop
    <3> QED  BY <3>1, <3>2, <3>3, <3>4, <3>5 DEF RouterKind
  <2>5. CASE ~Direct /\ ask.exactOut
    <3>0. ask.exactOut = TRUE /\ ExactOutVerdict(Call) = "Ok"
      BY <2>1, <2>5 DEF EncoderVerdict, Direct
    <3>1. CASE Call.span.kind = "UniswapUniversal"
      <4>1. SpanLegs(Call, ask.exactOut) = UniswapLegsExactOut(Call)
        BY <3>0, <3>1 DEF SpanLegs
      <4> QED  BY <2>1, <2>5, <3>0, <3>1, <4>1, UniswapOutWalk
    <3>2. CASE Call.span.kind = "Slipstream"
      <4>1. SpanLegs(Call, ask.exactOut) = SlipstreamLegs(Call, ask.exactOut)
        BY <3>0, <3>2 DEF SpanLegs
      <4> QED  BY <2>1, <2>5, <3>2, <4>1, SlipstreamWalk
    <3>3. CASE Call.span.kind \notin {"UniswapUniversal", "Slipstream"}
      <4> DEFINE refused == << "UnsupportedProtocol" >>
      <4>1. FirstError(refused) = "Ok"
        BY <3>0, <3>3 DEF ExactOutVerdict
      <4>2. Len(refused) = 1 /\ refused[1] # "Ok"
        OBVIOUS
      <4> HIDE DEF refused
      <4> QED  BY <4>1, <4>2, AllOk
    <3> QED  BY <3>1, <3>2, <3>3
  <2> QED  BY <2>2, <2>3, <2>4, <2>5
<1> QED  BY <1>1, SettleInvAlways, AcceptedAlways, PTL
=============================================================================
