-------------------------------- MODULE Plan --------------------------------
(***************************************************************************)
(* The multi-hop executor of amm-rpc: plan() partitions and quotes a       *)
(* route, and next_tx() emits one transaction per span, taking the input   *)
(* of every span after the first from what the caller observed of the one  *)
(* before.  Around it: the caller who funds and drives the plan, the chain *)
(* that settles transactions, and the clock.                               *)
(***************************************************************************)
EXTENDS Quoting, SpanBuilders

CONSTANTS
  Account, Sender,  \* the signer of the plan is one of the accounts
  Requests,         \* the arguments plan() may be called with
  Savings,          \* what every account holds of every asset beforehand
  MaxSurplus,       \* bound: how far above its floor a span may settle
  MaxClock          \* bound: how far the chain's clock runs

Request == [ pools : Seq(Pool), path : Seq(Asset), exactOut : BOOLEAN,
             strict : BOOLEAN, amount : Amount,
             native : {"None", "Input", "Output"}, tol : Nat,
             recipient : Account, ctx : SUBSET RouterKey,
             priceLimit : SUBSET Asset, absolute : BOOLEAN, deadline : Nat ]

(* What the span builders ask of their caller (uniswap_ur.rs, doc of      *)
(* build_uniswap_span): a native edge is given as WETH in the path.  Only  *)
(* the encoder of a single pool takes the native asset itself.             *)
NativeEdgeIs(req, i) ==
  \/ req.path[i] = WETH
  \/ req.path[i] = NATIVE /\ Len(req.pools) = 1
EdgesWrapped(req) ==
  Validate(req) = "Ok" =>
    /\ req.native = "Input" => NativeEdgeIs(req, 1)
    /\ req.native = "Output" => NativeEdgeIs(req, Len(req.path))

ASSUME PlanAssumption ==
  /\ Sender \in Account
  /\ Requests \subseteq Request
  /\ \A req \in Requests : EdgesWrapped(req)
  /\ Savings \in Nat /\ MaxSurplus \in Nat /\ MaxClock \in Nat
  /\ None \notin BOOLEAN

VARIABLES
  request,  \* what the caller asked for
  phase,    \* "Asked", "Refused" or "Planned" by plan(), then "Funded"
  plan,     \* the Plan, None before plan() returns one
  cursor,   \* Plan.cursor: how many spans have been emitted
  answer,   \* what the last call returned: an error, "Prepared", "Done"
  pending,  \* the transactions emitted and not settled, in order
  receipts, \* what the settled transactions took and paid, in order
  wallet,   \* what each account holds of each asset
  clock     \* the chain's time

vars == <<request, phase, plan, cursor, answer, pending, receipts, wallet, clock>>

-----------------------------------------------------------------------------
(* plan() *)

IsStrict(req) == req.exactOut /\ req.strict

(* The boundary amounts of the plan and its realised shape.                *)
PlanOf(req) ==
  LET required == QuotePathExactOut(req, req.amount)
  IN  [ spans   |-> Partition(req.pools),
        amounts |-> IF ~req.exactOut THEN QuotePathAmounts(req, req.amount)
                    ELSE IF req.strict THEN required
                    ELSE QuotePathAmounts(req, required[0]),
        strict  |-> IsStrict(req),
        \* final_floor_override, and amount_in_max
        floor   |-> IF req.exactOut /\ ~req.strict THEN req.amount ELSE None,
        maxIn   |-> IF IsStrict(req) THEN MaxAmountIn(required[0], req.tol)
                    ELSE None ]

QuoteVerdict(req) ==
  LET required == QuotePathExactOut(req, req.amount)
  IN  IF req.exactOut /\ ~Quoted(required) THEN ExactOutError(req, required)
      ELSE Reject(~Quoted(PlanOf(req).amounts), "UnsupportedProtocol")

(* exact_out_strict_supported *)
StrictVerdict(req) ==
  LET spans == Partition(req.pools)
  IN  Reject(/\ IsStrict(req)
             /\ \/ Len(spans) # 1
                \/ spans[1].kind \notin {"UniswapUniversal", "Slipstream"},
             "UnsupportedExactOut")

PlanVerdict(req) ==
  IF Validate(req) # "Ok" THEN Validate(req)
  ELSE IF ~Classifiable(req.pools) THEN "UnsupportedProtocol"
  ELSE FirstError(<< QuoteVerdict(req), StrictVerdict(req),
                     Reject(~req.absolute, "UnresolvedDeadline") >>)

MakePlan ==
  /\ phase = "Asked"
  /\ LET verdict == PlanVerdict(request)
     IN  IF verdict = "Ok"
         THEN phase' = "Planned" /\ plan' = PlanOf(request) /\ answer' = "Planned"
         ELSE phase' = "Refused" /\ answer' = verdict /\ UNCHANGED plan
  /\ UNCHANGED <<request, cursor, pending, receipts, wallet, clock>>

-----------------------------------------------------------------------------
(* next_tx() *)

Spans == plan.spans
Current == Spans[cursor + 1]
IsFinal == cursor + 1 = Len(Spans)

\* Mutant of SpanAmount: every span sells its quoted boundary amount.
SpanAmountQuoted(observed) == plan.amounts[Current.start]

(* resolve_span_amount *)
SpanAmount(observed) == IF cursor = 0 THEN plan.amounts[0] ELSE observed

\* Mutant of SpanRecipient: every span pays the caller's recipient.
SpanRecipientAlways == request.recipient

(* resolve_span_recipient *)
SpanRecipient == IF IsFinal THEN request.recipient ELSE Sender

\* Mutants of SpanFloor: the exact-out target is not enforced; the boundary
\* before the span is taken for the one after it.
SpanFloorNoTarget ==
  MinAmountOut(plan.amounts[Current.end], Compound(request.tol, SpanLen(Current)))
SpanFloorOfInput ==
  IF IsFinal /\ plan.floor # None THEN plan.floor
  ELSE MinAmountOut(plan.amounts[Current.start],
                    Compound(request.tol, SpanLen(Current)))

(* min_out of an exact-in span: the target of an OrBetter plan on its last *)
(* span, the quote less the compounded tolerance otherwise.                *)
SpanFloor ==
  IF IsFinal /\ plan.floor # None THEN plan.floor
  ELSE MinAmountOut(plan.amounts[Current.end],
                    Compound(request.tol, SpanLen(Current)))

SpanCall(observed) ==
  [ pools |-> request.pools, path |-> request.path, span |-> Current,
    ctx |-> request.ctx, priceLimit |-> request.priceLimit,
    amountIn |-> IF plan.strict THEN plan.maxIn ELSE SpanAmount(observed),
    minOut   |-> IF plan.strict THEN request.amount ELSE SpanFloor,
    payee |-> SpanRecipient, sender |-> Sender,
    nativeIn  |-> request.native = "Input" /\ cursor = 0,
    nativeOut |-> request.native = "Output" /\ IsFinal ]

SpanVerdict(observed) ==
  IF plan.strict THEN ExactOutVerdict(SpanCall(observed))
  ELSE ExactInVerdict(SpanCall(observed))

Exhausted ==
  /\ cursor = Len(Spans)
  /\ answer' = "Done"
  /\ UNCHANGED <<cursor, pending>>

MissingObserved(observed) ==
  /\ cursor \in 1..Len(Spans) - 1
  /\ observed = None
  /\ answer' = "MissingObservedAmount"
  /\ UNCHANGED <<cursor, pending>>

Buildable(observed) == cursor < Len(Spans) /\ (cursor > 0 => observed # None)

BuildFails(observed) ==
  /\ Buildable(observed)
  /\ SpanVerdict(observed) # "Ok"
  /\ answer' = SpanVerdict(observed)
  /\ UNCHANGED <<cursor, pending>>

\* Mutants of Emit: the cursor advances by hops; the cursor does not advance.
EmitByHops(observed) ==
  /\ Buildable(observed)
  /\ SpanVerdict(observed) = "Ok"
  /\ answer' = "Prepared"
  /\ pending' = Append(pending, Prepared(SpanCall(observed), plan.strict,
                                         request.deadline))
  /\ cursor' = cursor + SpanLen(Current)
EmitInPlace(observed) ==
  /\ Buildable(observed)
  /\ SpanVerdict(observed) = "Ok"
  /\ answer' = "Prepared"
  /\ pending' = Append(pending, Prepared(SpanCall(observed), plan.strict,
                                         request.deadline))
  /\ UNCHANGED cursor

Emit(observed) ==
  /\ Buildable(observed)
  /\ SpanVerdict(observed) = "Ok"
  /\ answer' = "Prepared"
  /\ pending' = Append(pending, Prepared(SpanCall(observed), plan.strict,
                                         request.deadline))
  /\ cursor' = cursor + 1

NextTx(observed) ==
  /\ phase = "Funded"
  /\ \/ Exhausted
     \/ MissingObserved(observed)
     \/ BuildFails(observed)
     \/ Emit(observed)
  /\ UNCHANGED <<request, phase, plan, receipts, wallet, clock>>

-----------------------------------------------------------------------------
(* The caller and the chain. *)

(* What crosses boundary i, native ETH at a native edge.                   *)
Edge(i) ==
  IF \/ request.native = "Input" /\ i = 0
     \/ request.native = "Output" /\ i = Len(request.pools)
  THEN NATIVE ELSE request.path[i + 1]

Credit(w, who, asset, raw) == [w EXCEPT ![who][asset] = @ + raw]
Debit(w, who, asset, raw) == [w EXCEPT ![who][asset] = @ - raw]

FirstInput == IF plan.strict THEN plan.maxIn ELSE plan.amounts[0]

(* The caller has what the first transaction takes, and nothing else       *)
(* beyond its savings.                                                     *)
Fund ==
  /\ phase = "Planned"
  /\ phase' = "Funded"
  /\ wallet' = Credit(wallet, Sender, Edge(0), FirstInput)
  /\ UNCHANGED <<request, plan, cursor, answer, pending, receipts, clock>>

(* The amounts a transaction may settle for: an exact-in swap takes its    *)
(* whole input, or less of it if it may stop at a price limit, and pays at *)
(* least its floor; an exact-out swap pays its target and takes at most    *)
(* its ceiling.  Anything else reverts and leaves no trace.                *)
Fills(tx) ==
  IF tx.exactOut
  THEN [got : {tx.minOut}, spent : 0..tx.amountIn]
  ELSE [got : Amount \cap (tx.minOut .. tx.minOut + MaxSurplus),
        spent : IF tx.mayStop THEN 0..tx.amountIn ELSE {tx.amountIn}]

InTime(tx) == tx.expires => clock <= tx.deadline

Settle(k) ==
  LET tx == pending[k]
  IN  /\ InTime(tx)
      /\ \E fill \in Fills(tx) :
           /\ wallet[Sender][tx.sells] >= fill.spent
           /\ wallet' = Credit(Debit(wallet, Sender, tx.sells, fill.spent),
                               tx.payee, tx.buys, fill.got)
           /\ receipts' = Append(receipts, [tx |-> tx, got |-> fill.got,
                                            spent |-> fill.spent])
      /\ pending' = SubSeq(pending, 1, k - 1) \o SubSeq(pending, k + 1, Len(pending))
      /\ UNCHANGED <<request, phase, plan, cursor, answer, clock>>

Tick ==
  /\ clock < MaxClock
  /\ clock' = clock + 1
  /\ UNCHANGED <<request, phase, plan, cursor, answer, pending, receipts, wallet>>

(* The measured output of the transaction settled last.                    *)
Measured ==
  IF receipts = <<>> THEN None ELSE receipts[Len(receipts)].got

(* A disciplined driver waits for each transaction to settle and passes    *)
(* its measured output on (docs of next_tx; tests/support/runner.rs).      *)
DrivenNextTx == pending = <<>> /\ NextTx(Measured)

(* A careless one calls whenever it likes, with any amount or none.        *)
CarelessNextTx == \E observed \in Amount \cup {None} : NextTx(observed)

SettleSome == \E k \in 1..Len(pending) : Settle(k)

Init ==
  /\ request \in Requests
  /\ phase = "Asked" /\ plan = None /\ cursor = 0 /\ answer = "Ok"
  /\ pending = <<>> /\ receipts = <<>>
  /\ wallet = [who \in Account |-> [asset \in Asset |-> Savings]]
  /\ clock = 0

Next == MakePlan \/ Fund \/ DrivenNextTx \/ SettleSome \/ Tick
Spec == Init /\ [][Next]_vars

CarelessNext == MakePlan \/ Fund \/ CarelessNextTx \/ SettleSome
CarelessSpec == Init /\ [][CarelessNext]_vars

(* Once it has a plan the caller does fund it and call next_tx(), and a    *)
(* transaction that can settle is eventually included.  Nothing makes the  *)
(* clock stand still.                                                      *)
FairSpec ==
  Spec /\ WF_vars(Fund) /\ WF_vars(DrivenNextTx) /\ WF_vars(SettleSome)
=============================================================================
