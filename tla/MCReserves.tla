----------------------------- MODULE MCReserves -----------------------------
(***************************************************************************)
(* Small pools of every kind and pair of reserves for ReserveQuotes.       *)
(***************************************************************************)
EXTENDS ReserveQuotes

CONSTANT MaxInput  \* bound on the inputs that curve-math looks through

MakePool(kind, r0, r1, fee, u0, u1) ==
  [ kind |-> kind, reserves |-> [side \in Side |-> IF side = 0 THEN r0 ELSE r1],
    fee |-> fee, units |-> [side \in Side |-> IF side = 0 THEN u0 ELSE u1] ]

(* Of stable pools, tokens with few decimals of those that the fixed point *)
(* has, as USDC's six of eighteen.                                         *)
MCPools ==
  { MakePool(kind, r0, r1, fee, 1, 1) : kind \in {"V2", "Volatile"},
      r0 \in 0..7, r1 \in {0, 1, 4, 6, 9}, fee \in {0, 1, 3, BPS_ONE} }
    \cup { MakePool("Stable", r0, r1, fee, u, 4) :
             r0 \in 0..6, r1 \in {1, 3, 6}, fee \in {0, 1}, u \in {2, 4} }
    \cup { MakePool("Curve", r0, r1, fee, u, 1) :
             r0 \in {0, 2, 5, 8}, r1 \in {0, 1, 4, 9}, fee \in {0, 1, 3}, u \in {1, 2} }

(* A pool as curve-math may have it: its fee is taken from what comes out, *)
(* a unit always stays, an input for an output is a few units too high,    *)
(* and some pools, those of two units here, know no spot price.            *)
MCCurveOut(p, from, x) ==
  LET gross == (x * p.reserves[1 - from]) \div (p.reserves[from] + x) - 1
  IN  IF Empty(p) \/ gross < 0 THEN Refused
      ELSE gross - CeilDiv(gross * p.fee, BPS_ONE)

MCCurveIn(p, from, y) ==
  LET enough == { x \in 1..MaxInput :
                    MCCurveOut(p, from, x) # Refused /\ MCCurveOut(p, from, x) >= y }
  IN  IF enough = {} THEN Refused
      ELSE (CHOOSE x \in enough : \A z \in enough : x <= z) + (y % 4)

MCCurveSpot(p, from) ==
  IF Empty(p) \/ p.units[0] = 2 THEN Refused
  ELSE <<p.reserves[1 - from], p.reserves[from]>>

(* The pools at first are such as minimal_exact_out_input takes for        *)
(* granted, whatever their kind.                                           *)
ASSUME ForwardsGrow ==
  \A p \in MCPools, from \in Side, y \in Amounts \ {0} :
    p.kind # "V2" => ForwardGrows(p, from, y)
=============================================================================
