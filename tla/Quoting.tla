------------------------------- MODULE Quoting ------------------------------
(***************************************************************************)
(* The multi-hop quotes of amm-core's path module: the amounts at the      *)
(* boundaries of a route, solved forward from an input or backward from a  *)
(* desired output, through whatever pools the caller holds.                *)
(***************************************************************************)
EXTENDS Routing, Slippage

CONSTANTS
  None,                    \* the absent value of an Option, a failed quote
  Quote(_, _, _, _),       \* pool, input asset, output asset, input amount
  QuoteExactOut(_, _, _, _), \* pool, input asset, output asset, output amount
  HasExactOut              \* the pools that provide ExactOut

ASSUME QuotingAssumption ==
  /\ None \notin Amount
  /\ HasExactOut \subseteq Pool
  /\ \A pool \in Pool, from \in Asset, to \in Asset, x \in Amount :
       /\ Quote(pool, from, to, x) \in Amount \cup {None}
       /\ QuoteExactOut(pool, from, to, x) \in Amount \cup {None}

(* quote_path_amounts: what enters each boundary, None from the first hop  *)
(* on that cannot quote.                                                   *)
QuotePathAmounts(route, start) ==
  LET amounts[i \in 0..Len(route.pools)] ==
        IF i = 0 THEN start
        ELSE IF amounts[i - 1] = None THEN None
        ELSE Quote(route.pools[i], route.path[i], route.path[i + 1], amounts[i - 1])
  IN  amounts

(* quote_path_exact_out: what each boundary must carry for the last one to *)
(* carry the target.                                                       *)
QuotePathExactOut(route, target) ==
  LET required[i \in 0..Len(route.pools)] ==
        IF i = Len(route.pools) THEN target
        ELSE IF required[i + 1] = None \/ route.pools[i + 1] \notin HasExactOut
          THEN None
        ELSE QuoteExactOut(route.pools[i + 1], route.path[i + 1],
                           route.path[i + 2], required[i + 1])
  IN  required

Quoted(amounts) == \A i \in DOMAIN amounts : amounts[i] # None

(* map_quote_err of the hop at which the backward solve stopped.           *)
ExactOutError(route, required) ==
  LET stopped == CHOOSE i \in DOMAIN required :
                   /\ required[i] = None
                   /\ i + 1 \in DOMAIN required /\ required[i + 1] # None
  IN  IF route.pools[stopped + 1] \notin HasExactOut
      THEN "ExactOutUnavailable" ELSE "UnsupportedProtocol"
=============================================================================
