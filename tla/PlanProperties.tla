--------------------------- MODULE PlanProperties ---------------------------
(***************************************************************************)
(* What a plan promises: its type, the custody of the funds it moves, the  *)
(* floors it keeps, and that it comes to an end.                           *)
(***************************************************************************)
EXTENDS Plan

Tx == [ sells : Asset, buys : Asset, amountIn : Amount, minOut : Amount,
        exactOut : BOOLEAN, mayStop : BOOLEAN, payee : Account, expires : BOOLEAN,
        deadline : Nat, label : Asset, start : Nat, end : Nat ]
Receipt == [tx : Tx, got : Amount, spent : Amount]
PlanRecord ==
  [ spans : Seq([kind : RouterKind, start : Nat, end : Nat]),
    amounts : [0..Len(request.pools) -> Amount],
    strict : BOOLEAN, floor : Amount \cup {None}, maxIn : Amount \cup {None} ]

(* The state keeps its shape: a plan exists exactly from plan()'s success  *)
(* on, its cursor never runs past its spans, and a strict plan has a       *)
(* ceiling.                                                                *)
TypeOK ==
  /\ request \in Request
  /\ phase \in {"Asked", "Refused", "Planned", "Funded"}
  /\ IF phase \in {"Asked", "Refused"} THEN plan = None /\ cursor = 0
     ELSE /\ plan \in PlanRecord
          /\ cursor \in 0..Len(Spans)
          /\ plan.strict <=> plan.maxIn # None
  /\ answer \in Verdict \cup {"Planned", "Prepared", "Done"}
  /\ pending \in Seq(Tx)
  /\ receipts \in Seq(Receipt)
  /\ wallet \in [Account -> [Asset -> Nat]]
  /\ clock \in 0..MaxClock

-----------------------------------------------------------------------------
Base == [who \in Account |-> [asset \in Asset |-> Savings]]
Only(who, asset, raw) == Credit(Base, who, asset, raw)

Legs == Len(receipts)
Delivered == phase = "Funded" /\ Legs = Len(Spans)
Latest == receipts[Legs]

(* What the first transaction left of the caller's input.                  *)
Change == FirstInput - receipts[1].spent

(* Driven with measured outputs, plan and chain stay in step: all that was *)
(* emitted is settled but for at most one transaction, and that one takes  *)
(* exactly what the trade now holds, where it holds it.                    *)
InStep ==
  phase = "Funded" =>
    /\ cursor = Legs + Len(pending)
    /\ Len(pending) <= 1
    /\ pending # <<>> =>
         LET tx == pending[1]
         IN  /\ tx.sells = Edge(Spans[cursor].start)
             /\ tx.buys = Edge(Spans[cursor].end)
             /\ tx.amountIn = IF Legs = 0 THEN FirstInput ELSE Latest.got
             /\ tx.payee = IF cursor = Len(Spans) THEN request.recipient ELSE Sender

(* All the trade holds is one amount of one asset in one account, and the  *)
(* change of its first transaction.                                        *)
Held ==
  wallet =
    IF phase # "Funded" THEN Base
    ELSE IF Legs = 0 THEN Only(Sender, Edge(0), FirstInput)
    ELSE Credit(Only(IF Delivered THEN request.recipient ELSE Sender,
                     Edge(Spans[Legs].end), Latest.got),
                Sender, Edge(0), Change)

(* Driven with measured outputs, a trade never splits: beyond savings,     *)
(* everything it moved is one amount of one asset in one account.  That    *)
(* account is the sender's, at the boundary after the last settled span,   *)
(* until the final span has paid the recipient; only an exact-out swap     *)
(* leaves change.  No span takes more than the one before delivered, or    *)
(* leaves some behind (docs of next_tx and of Recipients in plan.rs).  A   *)
(* price limit may stop a swap early, so such trades are set aside.        *)
OneHolding == request.priceLimit = {} => Held

(* What the caller may count on receiving. *)
Guarantee ==
  IF request.exactOut THEN request.amount
  ELSE LET n == Len(request.pools)
       IN  MinAmountOut(plan.amounts[n], Compound(request.tol, n))

(* A completed trade delivered what was agreed: at least the target of an  *)
(* OrBetter exact-out; exactly the target, for no more than the input's    *)
(* slippage ceiling, of a Strict one; and for an exact-in at least the     *)
(* quote less the tolerance compounded over the whole route, although each *)
(* span was guarded on its own.                                            *)
DeliversAsAgreed ==
  Delivered =>
    /\ Latest.got >= Guarantee
    /\ plan.strict =>
         /\ Latest.got = request.amount
         /\ Latest.spent <= MaxAmountIn(plan.amounts[0], request.tol)

(* What the pools between two boundaries quote for an input.               *)
QuoteSpan(start, end, x) ==
  LET out[i \in start..end] ==
        IF i = start THEN x
        ELSE IF out[i - 1] = None THEN None
        ELSE Quote(request.pools[i], request.path[i], request.path[i + 1], out[i - 1])
  IN  out[end]

(* What path/mod.rs and plan() ask of their pools, and tests/properties.rs *)
(* asserts of the pools of the library: a larger input never yields a      *)
(* smaller output, and the input solved for an output, or more than that,  *)
(* brings it, where the pool can quote at all.                             *)
QuotesGrow ==
  \A pool \in Pool, from \in Asset, to \in Asset, x \in Amount, more \in Amount :
    LET out == Quote(pool, from, to, x)
        outOfMore == Quote(pool, from, to, more)
    IN  x <= more /\ out # None /\ outOfMore # None => out <= outOfMore
InputsReach ==
  \A pool \in HasExactOut, from \in Asset, to \in Asset, y \in Amount, x \in Amount :
    LET solved == QuoteExactOut(pool, from, to, y)
        out == Quote(pool, from, to, x)
    IN  solved # None /\ x >= solved /\ out # None => out >= y

(* A plan never asks for more than its own pools quote: as long as every   *)
(* settled span delivered its quoted amount or more, the next transaction  *)
(* settles at unchanged prices.  For OrBetter this says that the input     *)
(* solved backward does reach the target forward (plan.rs, OrBetter).      *)
FeasibleUnlessSlipped ==
  (\A k \in 1..Legs : receipts[k].got >= plan.amounts[receipts[k].tx.end]) =>
    \A k \in 1..Len(pending) :
      LET tx == pending[k]
          out == QuoteSpan(tx.start, tx.end, tx.amountIn)
      IN  out # None => out >= tx.minOut

-----------------------------------------------------------------------------
(* Whatever amounts a caller passes as observed, and whenever it calls,    *)
(* an account other than the sender is only ever paid by the final span:   *)
(* the recipient, in the route's output asset, no less than the guarantee. *)
RecipientProtected ==
  \A who \in Account \ {Sender}, asset \in Asset :
    wallet[who][asset] # Savings =>
      /\ who = request.recipient
      /\ asset = Edge(Len(request.pools))
      /\ cursor = Len(Spans)
      /\ wallet[who][asset] >= Savings + Guarantee

(* The route's input is spent once: on a route that does not come back to  *)
(* its first asset, one settled transaction takes it, and no more than the *)
(* plan's input or ceiling, however next_tx was called.                    *)
SpendsInputOnce ==
  (/\ phase = "Funded"
   /\ \A i \in 1..Len(request.pools) : Edge(i) # Edge(0)) =>
    \A j, k \in 1..Legs :
      (/\ receipts[j].tx.sells = Edge(0)
       /\ receipts[k].tx.sells = Edge(0)) =>
        j = k /\ receipts[j].spent <= FirstInput

-----------------------------------------------------------------------------
Expired == clock > request.deadline

(* A planned trade comes to an end: it is delivered, or next_tx reports    *)
(* why a span cannot be built, or its deadline passes.  It never waits for *)
(* funds that the previous span did not deliver.                           *)
PlanEnds ==
  phase = "Planned" ~> Delivered \/ answer \in BuildError \/ Expired

Promised ==
  [ payee |-> request.recipient, asset |-> Edge(Len(request.pools)),
    atLeast |-> Guarantee, exact |-> plan.strict,
    whole |-> ~plan.strict /\ request.priceLimit = {} ]

PromiseOf == IF phase = "Funded" THEN Promised ELSE None
PurseOf ==
  IF phase # "Funded" THEN None
  ELSE IF Legs = 0
    THEN [who |-> Sender, asset |-> Edge(0), raw |-> FirstInput, change |-> 0]
  ELSE [who |-> Latest.tx.payee, asset |-> Latest.tx.buys, raw |-> Latest.got,
        change |-> Change]

Promise == INSTANCE SwapPromise WITH
  Nothing <- None, promise <- PromiseOf, purse <- PurseOf, kept <- Delivered

ASSUME PromiseAssumption == None \notin Promise!Promised

(* A driven plan implements SwapPromise.                                   *)
KeepsPromise == Promise!Spec
=============================================================================
