----------------------------- MODULE PlanClaims -----------------------------
(***************************************************************************)
(* What comments of the repository say of a plan and the code does not do. *)
(* Each is checked on its own, and found violated.                         *)
(***************************************************************************)
EXTENDS PlanProperties

(* "multi-hop (hops != 2) + a limit is UnsupportedProtocol" (common.rs)    *)
(* and "multi-hop rejection lives in the planner" (swaprouter02.rs): under *)
(* a price limit next_tx emits nothing but the single-pool swaps whose     *)
(* routers take one.                                                       *)
PriceLimitHonoured ==
  request.priceLimit # {} =>
    \A k \in 1..Len(pending) :
      /\ pending[k].end = pending[k].start + 1
      /\ KindOf[request.pools[pending[k].end]] \in {"UniswapV3", "Slipstream"}

(* "`plan` already proved this is a single atomic span of a family with an *)
(* exact-out builder" (next_tx, plan.rs): a Strict plan that plan() let    *)
(* through is never refused as an unsupported exact-out afterwards.        *)
StrictProvenByPlan ==
  phase = "Funded" /\ plan.strict => answer # "UnsupportedExactOut"
=============================================================================
