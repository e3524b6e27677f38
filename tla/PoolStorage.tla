----------------------------- MODULE PoolStorage -----------------------------
(***************************************************************************)
(* A Uniswap V4 pool is read out of the storage of the pool manager, word  *)
(* by word: the source computes where each word lies and takes it apart.   *)
(* What the manager stores, and where, is on the other side (external).    *)
(***************************************************************************)
EXTENDS Integers

CONSTANTS
  \* bounds: the bits of a price (160), a tick (24), a fee of one direction
  \* (12) and an amount of liquidity (128)
  PriceBits, TickBits, HalfFeeBits, LiquidityBits,
  FEE_UNIT    \* the pips of the whole, 1_000_000

FeeBits == 2 * HalfFeeBits

ASSUME StorageAssumption ==
  /\ {PriceBits, TickBits, HalfFeeBits, LiquidityBits, FEE_UNIT} \subseteq Nat \ {0}

Unsigned(bits) == 0..2^bits - 1
Signed(bits) == -2^(bits - 1)..2^(bits - 1) - 1

Field(word, low, bits) == (word \div 2^low) % 2^bits
SignExtended(raw, bits) == IF raw < 2^(bits - 1) THEN raw ELSE raw - 2^bits

-----------------------------------------------------------------------------
(* Slots.  A hash meets no other slot, and is told by what was hashed.     *)
Slot(n) == [hashed |-> <<>>, plus |-> n]
Keccak(key, slot) == [hashed |-> <<key, slot>>, plus |-> 0]

POOLS_SLOT == Slot(6)
LIQUIDITY_OFFSET == 3
TICKS_OFFSET == 4

OffsetSlot(slot, offset) == [slot EXCEPT !.plus = @ + offset]
PoolStateSlot(id) == Keccak(id, POOLS_SLOT)
TickInfoSlot(stateSlot, tick) == Keccak(tick, OffsetSlot(stateSlot, TICKS_OFFSET))

-----------------------------------------------------------------------------
(* The pool manager.  A pool is a record of price, tick, lpFee, fees (the  *)
(* protocol's, of each direction), liquidity and ticks, where each tick    *)
(* has gross and net liquidity.                                            *)

IsPoolState(pool) ==
  /\ pool.price \in Unsigned(PriceBits) /\ pool.tick \in Signed(TickBits)
  /\ pool.lpFee \in Unsigned(FeeBits)
  /\ pool.fees \in Unsigned(HalfFeeBits) \X Unsigned(HalfFeeBits)
  /\ pool.liquidity \in Unsigned(LiquidityBits)
  /\ DOMAIN pool.ticks \subseteq Int
  /\ \A tick \in DOMAIN pool.ticks :
       /\ pool.ticks[tick].gross \in Unsigned(LiquidityBits)
       /\ pool.ticks[tick].net \in Signed(LiquidityBits)

StateLayout == <<"slot0", "feeGrowthGlobal0X128", "feeGrowthGlobal1X128",
                 "liquidity", "ticks", "tickBitmap", "positions">>
PlaceOf(field) == CHOOSE i \in DOMAIN StateLayout : StateLayout[i] = field
StateAt(id, field) == OffsetSlot(Keccak(id, Slot(6)), PlaceOf(field) - 1)

Slot0Word(pool) ==
  pool.price
    + 2^PriceBits * (pool.tick % 2^TickBits)
    + 2^(PriceBits + TickBits) * (pool.fees[1] + 2^HalfFeeBits * pool.fees[2])
    + 2^(PriceBits + TickBits + FeeBits) * pool.lpFee
TickWord(info) == info.gross + 2^LiquidityBits * (info.net % 2^LiquidityBits)

(* extsload(slot): what was never written is zero.                         *)
Word(manager, slot) ==
  LET Holds(id, field) == slot = StateAt(id, field)
      HoldsTick(id, tick) == slot = Keccak(tick, StateAt(id, "ticks"))
      ids == DOMAIN manager
  IN  IF \E id \in ids : Holds(id, "slot0")
      THEN Slot0Word(manager[CHOOSE id \in ids : Holds(id, "slot0")])
      ELSE IF \E id \in ids : Holds(id, "liquidity")
      THEN manager[CHOOSE id \in ids : Holds(id, "liquidity")].liquidity
      ELSE IF \E id \in ids : \E tick \in DOMAIN manager[id].ticks : HoldsTick(id, tick)
      THEN LET id == CHOOSE owner \in ids :
                       \E tick \in DOMAIN manager[owner].ticks : HoldsTick(owner, tick)
           IN  TickWord(manager[id].ticks[CHOOSE tick \in DOMAIN manager[id].ticks :
                                            HoldsTick(id, tick)])
      ELSE 0

-----------------------------------------------------------------------------
(* The source. *)

DecodeSlot0(word) ==
  [price |-> Field(word, 0, PriceBits),
   tick |-> SignExtended(Field(word, PriceBits, TickBits), TickBits),
   protocolFee |-> Field(word, PriceBits + TickBits, FeeBits),
   lpFee |-> Field(word, PriceBits + TickBits + FeeBits, FeeBits)]
DecodeLiquidity(word) == Field(word, 0, LiquidityBits)
DecodeTick(word) ==
  [gross |-> Field(word, 0, LiquidityBits),
   net |-> SignExtended(Field(word, LiquidityBits, LiquidityBits), LiquidityBits)]

(* UniswapV4Pool::combined_fee.                                            *)
CombinedFee(lpFee, protocolFee) ==
  protocolFee + lpFee - (protocolFee * lpFee) \div FEE_UNIT

(* with_tick_window, and the ticks of the second round.                    *)
TickWindow(asked) == IF asked < 1 THEN 1 ELSE asked
TowardsZero(tick, spacing) ==
  IF tick < 0 THEN -((-tick) \div spacing) ELSE tick \div spacing
WindowTicks(tick, spacing, window) ==
  { TowardsZero(tick, spacing) * spacing + step * spacing : step \in -window..window }

\* Mutant of BuildPool: the halves of the protocol fee change places.
BuildPoolHalvesSwapped(manager, id, spacing, window) ==
  LET state == DecodeSlot0(Word(manager, PoolStateSlot(id)))
      infos == [tick \in WindowTicks(state.tick, spacing, window) |->
                  DecodeTick(Word(manager, TickInfoSlot(PoolStateSlot(id), tick)))]
  IN  [ price |-> state.price, tick |-> state.tick,
        liquidity |-> DecodeLiquidity(Word(manager, OffsetSlot(PoolStateSlot(id),
                                                               LIQUIDITY_OFFSET))),
        zeroForOne |-> CombinedFee(state.lpFee, state.protocolFee \div 2^HalfFeeBits),
        oneForZero |-> CombinedFee(state.lpFee, state.protocolFee % 2^HalfFeeBits),
        ticks |-> [tick \in {t \in DOMAIN infos : infos[t].gross # 0} |-> infos[tick].net] ]

(* The two rounds of reads of one pool, and the pool built from them.      *)
BuildPool(manager, id, spacing, window) ==
  LET state == DecodeSlot0(Word(manager, PoolStateSlot(id)))
      infos == [tick \in WindowTicks(state.tick, spacing, window) |->
                  DecodeTick(Word(manager, TickInfoSlot(PoolStateSlot(id), tick)))]
  IN  [ price |-> state.price, tick |-> state.tick,
        liquidity |-> DecodeLiquidity(Word(manager, OffsetSlot(PoolStateSlot(id),
                                                               LIQUIDITY_OFFSET))),
        zeroForOne |-> CombinedFee(state.lpFee, state.protocolFee % 2^HalfFeeBits),
        oneForZero |-> CombinedFee(state.lpFee, state.protocolFee \div 2^HalfFeeBits),
        ticks |-> [tick \in {t \in DOMAIN infos : infos[t].gross # 0} |-> infos[tick].net] ]
=============================================================================
