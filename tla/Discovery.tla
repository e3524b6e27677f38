------------------------------ MODULE Discovery ------------------------------
(***************************************************************************)
(* discover() of the six state sources of amm-rpc: four ask a factory for  *)
(* the pool of every pair of the given assets, in every tier (fee tiers,   *)
(* tick spacings or stable flags), in one batch of reads; two return the   *)
(* pools they were configured with.  An asset is its token, a number.      *)
(***************************************************************************)
EXTENDS Integers, Sequences, SequencesExt, FiniteSets, Filtering

CONSTANTS
  FeeTiers, TickSpacings,   \* what Uniswap V3 and Slipstream look through
  MaxI24,                   \* bound of a tick spacing's width
  V2Fee,                    \* basis points the pairs of the V2 factory take
  Configured,               \* the pools that Curve and Uniswap V4 were given
  HasFactory,               \* the sources that were given a factory
  NoPool, NoFactory         \* the zero address; the error without a factory

ASSUME DiscoveryAssumption ==
  /\ {FeeTiers, TickSpacings} \subseteq Seq(Nat) /\ {MaxI24, V2Fee} \subseteq Nat
  /\ HasFactory \subseteq {"UniswapV2", "Aerodrome", "UniswapV3", "Slipstream"}
  /\ "Aerodrome" \in HasFactory
  /\ HasFactory \cap DOMAIN Configured = {}
  /\ NoPool \notin [tokens : SUBSET Nat, tier : Nat]   \* nobody's address

-----------------------------------------------------------------------------
Sorted(a, b) == IF a < b THEN <<a, b>> ELSE <<b, a>>

\* Mutant of SortedPairs: each asset with the next one only.
SortedPairsOfNeighbours(assets) ==
  [ k \in 1..(IF assets = <<>> THEN 0 ELSE Len(assets) - 1) |->
      Sorted(assets[k], assets[k + 1]) ]

(* sorted_pairs of discover.rs: each asset with all those after it.        *)
SortedPairs(assets) ==
  FlattenSeq([ i \in DOMAIN assets |->
    [ k \in 1..(Len(assets) - i) |-> Sorted(assets[i], assets[i + k]) ] ])

(* A spacing that does not fit its type is passed over; 0 and 1 stand for  *)
(* Aerodrome's flags.                                                      *)
Tiers(from) ==
  CASE from = "UniswapV2" -> <<0>>
    [] from = "Aerodrome" -> <<0, 1>>
    [] from = "UniswapV3" -> FeeTiers
    [] from = "Slipstream" -> Passing(TickSpacings, 0..MaxI24)

(* What is asked of the factory, in order. *)
Questions(from, assets) ==
  LET pairs == SortedPairs(assets)
      tiers == Tiers(from)
  IN  FlattenSeq([ p \in DOMAIN pairs |->
        [ t \in DOMAIN tiers |-> [assets |-> pairs[p], tier |-> tiers[t]] ] ])

(* The factory knows a pool by its two tokens, in either order.            *)
PoolOf(deployed, question) ==
  LET pool == [tokens |-> ToSet(question.assets), tier |-> question.tier]
  IN  IF pool \in deployed THEN pool ELSE NoPool

(* A read that failed is taken for the absence of a pool.                  *)
DecodePoolAddress(deployed, question, failed) ==
  IF failed THEN NoPool ELSE PoolOf(deployed, question)

(* PoolKey.fee_bps: pips become basis points; the others do not know it.   *)
FeeBps(from, tier) ==
  CASE from = "UniswapV2" -> <<V2Fee>>
    [] from \in {"UniswapV3", "UniswapV4"} -> <<tier \div 100>>
    [] OTHER -> <<>>

Key(from, address, assets, tier) ==
  [exchange |-> from, address |-> address, assets |-> assets, fee |-> FeeBps(from, tier)]

\* Mutant of Found: answers without a pool are dropped before they are
\* paired with what was asked.
FoundCompacted(from, deployed, asked, lost) ==
  LET answers == [k \in DOMAIN asked |-> DecodePoolAddress(deployed, asked[k], k \in lost)]
      pools == Passing(answers, ToSet(answers) \ {NoPool})
  IN  [k \in DOMAIN pools |-> Key(from, pools[k], asked[k].assets, asked[k].tier)]

(* Answers are paired with what was asked by position, then those without  *)
(* a pool are dropped.                                                     *)
Found(from, deployed, asked, lost) ==
  LET keys == [ k \in DOMAIN asked |->
        Key(from, DecodePoolAddress(deployed, asked[k], k \in lost),
            asked[k].assets, asked[k].tier) ]
  IN  Passing(keys, {key \in ToSet(keys) : key.address # NoPool})

(* The configured pools, whatever the assets. *)
ConfiguredKeys(from) ==
  [ i \in DOMAIN Configured[from] |->
      LET pool == Configured[from][i]
      IN  Key(from, pool.address, pool.assets, pool.tier) ]

Discover(from, assets, deployed, lost) ==
  IF from \in DOMAIN Configured THEN ConfiguredKeys(from)
  ELSE IF from \notin HasFactory THEN NoFactory
  ELSE Found(from, deployed, Questions(from, assets), lost)
=============================================================================
