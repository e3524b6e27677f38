----------------------------- MODULE TickSource -----------------------------
(***************************************************************************)
(* A refresh of tick pools (amm-rpc, protocols/uniswap_v3.rs,              *)
(* uniswap_v4.rs and slipstream.rs): a round of reads for the price and    *)
(* liquidity of every requested pool, a second round for the ticks around  *)
(* the price the first one found, and the snapshots built from both.  A    *)
(* read may fail on its own, or a whole round; between the rounds the      *)
(* chain moves on.  How the words of V4's storage are found and taken      *)
(* apart is in PoolStorage; here they are answers as of the other two.     *)
(***************************************************************************)
EXTENDS TickEngine, SequencesExt, Filtering

CONSTANTS
  PoolId,
  Chain,        \* what a pool may be on the chain
  Requests,     \* [source, keys, heads]: the source refreshed, the keys, and
                \* their pools at first
  Parsed,       \* the pools whose key holds an address, or is configured
  TwoAssets,    \* the pools whose key names two assets
  Hooked,       \* the V4 pools configured with hooks that cannot be quoted
  TickWindow,   \* spacings fetched on each side of the active tick
  NextChains(_),\* what a pool may become from one block to the next
  MaxLost       \* bound: how many reads of a round fail

(* Net liquidity of the initialized ticks. *)
IsNets(nets) == DOMAIN nets \subseteq Tick /\ nets \in [DOMAIN nets -> Int]

(* A swap leaves the price short of the ends of the range; having fallen   *)
(* onto a boundary it leaves the tick below it.                            *)
IsChain(chain) ==
  /\ chain.assets \in Asset \X Asset
  /\ chain.price \in SqrtAt(MinTick) + 1 .. SqrtAt(MaxTick) - 1
  /\ chain.tick \in Tick
  /\ chain.tick = TickAt(chain.price) \/ chain.price = SqrtAt(chain.tick + 1)
  /\ chain.liquidity \in 0..MaxLiquidity
  /\ chain.fee \in [BOOLEAN -> Nat]
  /\ IsNets(chain.nets)

SameFee(chain) == chain.fee[TRUE] = chain.fee[FALSE]

ASSUME SourceAssumption ==
  /\ Parsed \subseteq PoolId /\ TwoAssets \subseteq PoolId /\ Hooked \subseteq PoolId
  /\ TickWindow \in Nat \ {0} /\ MaxLost \in Nat
  /\ \A chain \in Chain :
       IsChain(chain) /\ \A next \in NextChains(chain) :
         /\ next \in Chain /\ next.assets = chain.assets
         /\ SameFee(chain) => SameFee(next)
  /\ \A one \in Requests :
       /\ one.source \in {"UniswapV3", "UniswapV4", "Slipstream"}
       /\ one.keys \in Seq(PoolId) /\ one.heads \in [ToSet(one.keys) -> Chain]
       /\ one.source # "UniswapV4" => \A id \in DOMAIN one.heads : SameFee(one.heads[id])

VARIABLES
  source,  \* the source refreshed
  keys,    \* the keys of the refresh, in order
  heads,   \* their pools' states at the chain's head
  at,      \* the block asked for: its states, None for the tag "latest"
  blocks,  \* the block each round has read so far
  states,  \* what round 1 decoded, in order
  built,   \* the snapshots refresh() returned
  stage    \* "Idle", "Round1", then "Built" or "Failed"

sourceVars == <<source, keys, heads, at, blocks, states, built, stage>>
vars == <<source, keys, heads, at, blocks, states, built, stage, pool, ask, swap, answer>>

Block == IF at = None THEN heads ELSE at

(* A batch of reads through Multicall3: those in lost came back as         *)
(* failures, in their place, with nothing that would decode.               *)
Batch(reads, lost) == [k \in DOMAIN reads |-> IF k \in lost THEN None ELSE reads[k]]
Losses(n) == {lost \in SUBSET (1..n) : Cardinality(lost) <= MaxLost}

TransportFails ==
  /\ stage \in {"Idle", "Round1"}
  /\ stage' = "Failed"
  /\ UNCHANGED <<source, keys, heads, at, blocks, states, built, engineVars>>

-----------------------------------------------------------------------------
(* The reads of each pool in round 1, in their order (round1_calls).       *)
UniswapV3Reads == <<"slot0", "liquidity", "fee", "tickSpacing">>
SlipstreamReads == <<"slot0", "fee", "liquidity", "tickSpacing">>
UniswapV4Reads == <<"slot0", "liquidity">>

Reads == CASE source = "UniswapV3"  -> UniswapV3Reads
           [] source = "Slipstream" -> SlipstreamReads
           [] source = "UniswapV4"  -> UniswapV4Reads
Stride == Len(Reads)

(* What the chain answers.  fee() of a pool that has it is the same both   *)
(* ways.                                                                   *)
Answered(read, chain) ==
  CASE read = "slot0"       -> [price |-> chain.price, tick |-> chain.tick, fee |-> chain.fee]
    [] read = "liquidity"   -> chain.liquidity
    [] read = "fee"         -> chain.fee[TRUE]
    [] read = "tickSpacing" -> Spacing

(* A failed read is told from every answer. *)
ASSUME AnswerAssumption ==
  \A read \in {"slot0", "liquidity", "fee", "tickSpacing"} : \A chain \in Chain :
    Answered(read, chain) # None

(* The keys that are read: those that hold an address, of V4 those         *)
(* configured that name two assets (plans).                                *)
Kept == Passing(keys, IF source = "UniswapV4" THEN Parsed \cap TwoAssets ELSE Parsed)

(* The results of a kept key. *)
Slice(results, i) == SubSeq(results, (i - 1) * Stride + 1, i * Stride)

\* Mutant of Decoded: the first pool with a failed read ends the decoding.
DecodedUntilLost(results) ==
  { i \in 1..Len(Kept) :
      \A j \in 1..i : /\ Kept[j] \in TwoAssets
                      /\ \A r \in 1..Stride : Slice(results, j)[r] # None }

(* The keys none of whose reads failed. *)
Decoded(results) ==
  { i \in 1..Len(Kept) : /\ Kept[i] \in TwoAssets
                         /\ \A r \in 1..Stride : Slice(results, i)[r] # None }

UniswapV3State(id, read) ==
  [ id |-> id, price |-> read[1].price, tick |-> read[1].tick,
    liquidity |-> read[2], fee |-> read[3], spacing |-> read[4] ]

SlipstreamState(id, read) ==
  [ id |-> id, price |-> read[1].price, tick |-> read[1].tick,
    liquidity |-> read[3], fee |-> read[2], spacing |-> read[4] ]

(* The spacing is that of the configuration. *)
UniswapV4State(id, read) ==
  [ id |-> id, price |-> read[1].price, tick |-> read[1].tick,
    liquidity |-> read[2], fee |-> read[1].fee, spacing |-> Spacing ]

StateOf(id, read) ==
  CASE source = "UniswapV3"  -> UniswapV3State(id, read)
    [] source = "Slipstream" -> SlipstreamState(id, read)
    [] source = "UniswapV4"  -> UniswapV4State(id, read)

\* Mutant of DecodeStates: the key is taken by the state's own position.
DecodeStatesByPosition(results) ==
  LET order == Passing([i \in 1..Len(Kept) |-> i], Decoded(results))
  IN  [n \in 1..Len(order) |-> StateOf(Kept[n], Slice(results, order[n]))]

(* decode_state of each slice of results; a pool with a failed read is     *)
(* left out.                                                               *)
DecodeStates(results) ==
  LET order == Passing([i \in 1..Len(Kept) |-> i], Decoded(results))
  IN  [n \in 1..Len(order) |-> StateOf(Kept[order[n]], Slice(results, order[n]))]

Round1 ==
  /\ stage = "Idle"
  /\ \E lost \in Losses(Len(Kept) * Stride) :
       LET reads == [ k \in 1..(Len(Kept) * Stride) |->
                        Answered(Reads[((k - 1) % Stride) + 1],
                                 Block[Kept[(k - 1) \div Stride + 1]]) ]
       IN  states' = DecodeStates(Batch(reads, lost))
  /\ blocks' = <<Block>>
  /\ stage' = "Round1"
  /\ UNCHANGED <<source, keys, heads, at, built, engineVars>>

-----------------------------------------------------------------------------
(* round2_calls: the ticks to read, each with the state it is read for.    *)
Refs ==
  FlattenSeq([ i \in 1..Len(states) |->
    [ j \in 1..(2 * TickWindow + 1) |->
        [ state |-> i,
          tick |-> Center(states[i].tick) + (j - TickWindow - 1) * states[i].spacing ] ] ])

(* What ticks(tick) answers; one that is not initialized has no liquidity. *)
Uninitialized == [gross |-> 0, net |-> 0]
TickAnswered(tick, chain) ==
  IF tick \in DOMAIN chain.nets THEN [gross |-> 1, net |-> chain.nets[tick]]
  ELSE Uninitialized

(* tick_windows: the initialized ticks among those read for a state.       *)
Nets(i, results) ==
  LET found == { k \in 1..Len(Refs) : /\ Refs[k].state = i
                                      /\ results[k] \notin {None, Uninitialized} }
  IN  [ t \in {Refs[k].tick : k \in found} |->
          results[CHOOSE k \in found : Refs[k].tick = t].net ]

(* build_pool; a key lists the assets of its pool in their order.          *)
BuildPool(i, results) ==
  LET state == states[i]
  IN  [ id |-> state.id, protocol |-> source,
        supported |-> (source = "UniswapV4" => state.id \notin Hooked),
        assets |-> heads[state.id].assets, price |-> state.price, tick |-> state.tick,
        liquidity |-> state.liquidity, fee |-> state.fee,
        data |-> TickData(Nets(i, results), state.tick, TickWindow) ]

Round2 ==
  /\ stage = "Round1"
  /\ \E lost \in Losses(Len(Refs)) :
       LET reads == [ k \in DOMAIN Refs |->
                        TickAnswered(Refs[k].tick, Block[states[Refs[k].state].id]) ]
           results == Batch(reads, lost)
       IN  built' = [i \in 1..Len(states) |-> BuildPool(i, results)]
  /\ blocks' = Append(blocks, Block)
  /\ stage' = "Built"
  /\ UNCHANGED <<source, keys, heads, at, states, engineVars>>

(* The caller takes one of the pools to quote from.                        *)
TakePool ==
  /\ stage = "Built" /\ pool = None
  /\ \E i \in 1..Len(built) : pool' = built[i]
  /\ UNCHANGED <<sourceVars, ask, swap, answer>>

(* A new block.  The block that a number names stays what it is.           *)
ChainMoves ==
  /\ stage \in {"Idle", "Round1"} /\ at = None
  /\ \E id \in DOMAIN heads : \E next \in NextChains(heads[id]) :
       heads' = [heads EXCEPT ![id] = next]
  /\ UNCHANGED <<source, keys, at, blocks, states, built, stage, engineVars>>

Engine == EngineNext /\ UNCHANGED sourceVars

Init ==
  /\ \E one \in Requests : source = one.source /\ keys = one.keys /\ heads = one.heads
  /\ at \in {None, heads}
  /\ blocks = <<>> /\ states = <<>> /\ built = <<>> /\ stage = "Idle"
  /\ pool = None /\ ask = None /\ swap = None /\ answer = None

Next ==
  \/ ChainMoves \/ Round1 \/ Round2 \/ TransportFails
  \/ TakePool \/ Engine

Spec == Init /\ [][Next]_vars
=============================================================================
