--------------------------- MODULE TickProperties ---------------------------
(***************************************************************************)
(* What a quote over fetched ticks must be, compared with a walk through   *)
(* the chain's own liquidity, one unit of price after the other.           *)
(***************************************************************************)
EXTENDS TickSource

IsSnapshot(p) ==
  /\ p.id \in PoolId /\ p.price \in Int /\ p.tick \in Tick /\ p.liquidity \in Nat
  /\ p.fee \in IF p.protocol = "UniswapV4" THEN [BOOLEAN -> Nat] ELSE Nat
  /\ p.supported \in BOOLEAN /\ p.assets \in Asset \X Asset
  /\ IsNets(p.data.nets) /\ p.data.bits \subseteq Int
  /\ p.data.window \in [low : Tick, high : Tick]
Swap == [ price : Int, tick : Int, liquidity : 0..MaxLiquidity,
          remaining : 0..MaxI256, in : Nat, out : Nat ]
Answer == [ verdict : QuoteError \cup {"Ok"}, in : Nat, out : Nat, limited : BOOLEAN ]

(* The loop never leaves its ranges, and every snapshot is a snapshot.     *)
TypeOK ==
  /\ keys \in Seq(PoolId) /\ \A id \in DOMAIN heads : IsChain(heads[id]) /\ (at # None => IsChain(at[id]))
  /\ Len(blocks) <= 2
  /\ \A i \in 1..Len(states) : states[i].id \in PoolId
  /\ \A i \in 1..Len(built) : IsSnapshot(built[i])
  /\ stage \in {"Idle", "Round1", "Built", "Failed"}
  /\ pool # None => \E i \in 1..Len(built) : pool = built[i]
  /\ ask # None => pool # None /\ ask \in Asks(pool)
  /\ swap \in Swap \cup {None}
  /\ answer \in Answer \cup {None}

-----------------------------------------------------------------------------
(* A snapshot holds the ticks of its own pool and no other's, as they were *)
(* when round 2 read them, and the pools come in the order of the keys:    *)
(* whichever reads failed, no result is taken for another's.               *)
EachItsOwn ==
  /\ \A i \in 1..Len(built) :
       LET was == blocks[1][built[i].id]
           nets == blocks[2][built[i].id].nets
       IN  /\ built[i].price = was.price /\ built[i].liquidity = was.liquidity
           /\ \A down \in BOOLEAN : FeePips(built[i], down) = was.fee[down]
           /\ \A t \in DOMAIN built[i].data.nets :
                t \in DOMAIN nets /\ built[i].data.nets[t] = nets[t]
  /\ \A i, j \in 1..Len(built) :
       i < j => \E k, l \in 1..Len(keys) :
                  k < l /\ keys[k] = built[i].id /\ keys[l] = built[j].id

(* "so one bad pool in a refresh does not sink the rest" (multicall.rs): a *)
(* failed read leaves out one pool at most.                                *)
OneBadPoolSinksNoOther ==
  stage = "Built" =>
    Len(built) + MaxLost >=
      Cardinality({k \in 1..Len(keys) : keys[k] \in Parsed \cap TwoAssets})

-----------------------------------------------------------------------------
(* The ticks between two, the higher one included.                         *)
NetOver(nets, low, high) ==
  LET net[n \in 0..high - low] ==
        IF n = 0 THEN 0
        ELSE net[n - 1] + (IF low + n \in DOMAIN nets THEN nets[low + n] ELSE 0)
  IN  net[high - low]

(* The first asset goes in, which lets the price fall. *)
Falls == ask.from = blocks[1][pool.id].assets[1]

(* At every iteration of the loop the tick is the one of the price, or the *)
(* one below a boundary the price stands on; the liquidity in use is the   *)
(* snapshot's with exactly the ticks between crossed; and the price has    *)
(* moved towards its bound and not past it.                                *)
LoopKeepsTrack ==
  swap # None =>
    LET below == swap.tick <= pool.tick
    IN  /\ \/ swap.tick = TickAt(swap.price)
           \/ swap.price = SqrtAt(swap.tick + 1)
        /\ swap.liquidity = pool.liquidity +
             (IF below THEN -NetOver(pool.data.nets, swap.tick, pool.tick)
              ELSE NetOver(pool.data.nets, pool.tick, swap.tick))
        /\ IF Falls THEN swap.price \in Bind .. pool.price
           ELSE swap.price \in pool.price .. Bind

-----------------------------------------------------------------------------
(* The liquidity in use between prices p and p + 1. *)
LiquidityFrom(chain, p) == NetOver(chain.nets, MinTick - 1, TickAt(p))

(* One unit of price, for what it yields and what it costs: what is left   *)
(* of the amount, what was put in, what came out, and what the unit would  *)
(* have yielded in which an input ran out.                                 *)
OneUnit(here, liquidity, cost, exactIn) ==
  IF here.left = 0 THEN here
  ELSE IF exactIn THEN
    IF here.left >= cost
    THEN [left |-> here.left - cost, in |-> here.in + cost,
          out |-> here.out + liquidity, part |-> 0]
    ELSE [left |-> 0, in |-> here.in + here.left, out |-> here.out, part |-> liquidity]
  ELSE LET got == IF here.left < liquidity THEN here.left ELSE liquidity
       IN  [left |-> here.left - got, in |-> here.in + cost,
            out |-> here.out + got, part |-> 0]

(* The n-th unit of price away from the chain's price: what it yields, and *)
(* what it costs.                                                          *)
Yield(chain, down, n) ==
  LiquidityFrom(chain, IF down THEN chain.price - n ELSE chain.price + n - 1)
Cost(chain, down, n) ==
  InputFor(1, IF down THEN chain.price - n + 1 ELSE chain.price + n - 1,
           down, Yield(chain, down, n), chain.fee[down])

(* How many units a bound is away. *)
Units(chain, down, bound) ==
  IF down THEN IF bound < chain.price THEN chain.price - bound ELSE 0
  ELSE IF chain.price < bound THEN bound - chain.price ELSE 0

(* An amount swapped against the chain, after so many units of price, and  *)
(* what it comes to up to a bound.                                         *)
Path(chain, down, exactIn, amount) ==
  LET walk[n \in 0..Units(chain, down, PriceExtreme(down))] ==
        IF n = 0 THEN [left |-> amount, in |-> 0, out |-> 0, part |-> 0]
        ELSE OneUnit(walk[n - 1], Yield(chain, down, n), Cost(chain, down, n), exactIn)
  IN  walk
Walk(chain, down, exactIn, amount, bound) ==
  Path(chain, down, exactIn, amount)[Units(chain, down, bound)]

(* The liquidity in use is that of the positions around the price, and no  *)
(* price has more than a pool can count; of an input nobody can give more  *)
(* than every pool takes.                                                  *)
ASSUME LiquidityAssumption ==
  \A chain \in Chain :
    /\ chain.liquidity = NetOver(chain.nets, MinTick - 1, chain.tick)
    /\ \A t \in MinTick - 1 .. MaxTick :
         NetOver(chain.nets, MinTick - 1, t) \in 0..MaxLiquidity
    /\ \A down \in BOOLEAN :
         Walk(chain, down, TRUE, MaxI256, PriceExtreme(down)).left # 0

Source == blocks[1][pool.id]
UpTo(bound, amount) == Walk(Source, Falls, ExactIn(ask), amount, bound)

(* The price at which the caller, or the range of prices, has it stop, of  *)
(* the first asset of the pool.                                            *)
Stop ==
  LET asked == IF ask.limit.base = Source.assets[1] THEN ask.limit.at ELSE -ask.limit.at
      low == SqrtAt(MinTick) + 1
      high == SqrtAt(MaxTick) - 1
  IN  IF ask.kind = "WithLimit" THEN Max({low, Min({high, asked})})
      ELSE IF Falls THEN low ELSE high
Truth == UpTo(Stop, Specified(ask))
Edge == WindowEdge(pool.data, Falls)
Reach == IF Falls THEN Max({Edge, Stop}) ELSE Min({Edge, Stop})

(* The two rounds saw the same ticks, and none was lost.                   *)
Whole ==
  /\ blocks[1][pool.id] = blocks[2][pool.id]
  /\ \A t \in DOMAIN Source.nets :
       t \in pool.data.window.low .. pool.data.window.high =>
         t \in DOMAIN pool.data.nets

(* A quote from a whole snapshot is what the chain itself would give, to   *)
(* the unit, in both directions, for an input, for an output and under a   *)
(* price limit.                                                            *)
QuotesAsTheChain ==
  (answer # None /\ answer.verdict = "Ok" /\ ask.kind # "MaxAmountIn" /\ Whole) =>
    /\ answer.in = Truth.in /\ answer.out = Truth.out
    /\ answer.limited <=> \/ Truth.left # 0
                          \/ /\ ask.kind = "WithLimit"
                             /\ IF Falls THEN Stop >= Source.price ELSE Stop <= Source.price

(* A pool answers for its own pair and no other, under a limit that is a   *)
(* price of that pair, if its hooks let it.                                *)
Serves ==
  LET ours == {Source.assets[1], Source.assets[2]}
  IN  /\ {ask.from, ask.to} = ours
      /\ ask.kind = "WithLimit" => {ask.limit.base, ask.limit.quote} = ours
      /\ pool.protocol = "UniswapV4" => pool.id \notin Hooked

(* No refusal without a cause: a pool answers exactly if it serves, unless *)
(* the amount is too large for any; the window is only reported exceeded   *)
(* when the chain has to go beyond it, and liquidity only insufficient     *)
(* when the pool cannot serve the swap at all, or nothing was found around *)
(* its price.  That a swap beyond the window is refused is what the code   *)
(* and README.md:131-134 say; docs/protocols.md:16-19 and                  *)
(* docs/architecture.md:99-102 have it "under-represented" instead.        *)
RefusesForCause ==
  (answer # None /\ Whole) =>
    /\ answer.verdict \in {"Unsupported", "AssetNotInPool"} => ~Serves
    /\ ~Serves => answer.verdict \in {"Unsupported", "AssetNotInPool", "Overflow"}
    /\ answer.verdict = "TickWindowExceeded" => UpTo(Edge, ask.amount).left # 0
    /\ answer.verdict = "InsufficientLiquidity" =>
         DOMAIN pool.data.nets = {} \/ Truth.left # 0
    /\ answer.verdict = "Overflow" => ask.amount > MaxI256

(* max_amount_in is the capacity of the fetched window: all of it can be   *)
(* swapped within the window, and not one unit more.                       *)
MaxIsCapacity ==
  (answer # None /\ answer.verdict = "Ok" /\ ask.kind = "MaxAmountIn" /\ Whole) =>
    UpTo(Reach, answer.in).left = 0 /\ UpTo(Reach, answer.in + 1).left # 0

(* Every iteration that does not end the loop moves on to another tick in  *)
(* the direction of the swap, so the loop ends: it never comes back to a   *)
(* boundary it has just crossed.                                           *)
LoopMovesOn ==
  [][(swap # None /\ swap' # None /\ Running') =>
       IF Falls THEN swap'.tick < swap.tick ELSE swap'.tick > swap.tick]_vars

-----------------------------------------------------------------------------
(* "so a returned quote is never an over-estimate" (README.md): it does    *)
(* not exceed, beyond rounding, what the chain gives at the first of the   *)
(* blocks that the refresh read and at the second.                         *)
NeverOverEstimates ==
  (answer # None /\ answer.verdict = "Ok" /\ ask.kind = "AmountOut") =>
    \E b \in 1..2 :
      LET chain == Walk(blocks[b][pool.id], Falls, TRUE, ask.amount, Stop)
      IN  answer.out <= chain.out + chain.part
=============================================================================
