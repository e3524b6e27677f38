----------------------------- MODULE TickProofs -----------------------------
(***************************************************************************)
(* What a refresh of tick pools fetches, how the swap loop moves over it,  *)
(* and that it comes to what the chain would give, for every chain,        *)
(* request, tick axis and bitmap.                                          *)
(***************************************************************************)
EXTENDS TickProperties, CommonLemmas

(* Multiples of n: their order, and what division makes of them.           *)
LEMMA Multiples ==
  ASSUME NEW n \in Nat \ {0}, NEW i \in Int, NEW j \in Int
  PROVE  /\ n * i \in Int /\ (i < j <=> n * i < n * j) /\ (i <= j <=> n * i <= n * j)
         /\ n * (i + 1) = n * i + n /\ i * n = n * i
<1>1. n * i \in Int /\ n * j \in Int /\ n * (i + 1) = n * i + n /\ i * n = n * i
  OBVIOUS
<1>2. ASSUME NEW k \in Int, NEW l \in Int, k < l PROVE n * k < n * l
  <2>1. \A a \in Nat \ {0} : n * a > 0  OBVIOUS
  <2>2. n * (l - k) > 0  BY <1>2, <2>1
  <2>3. n * (l - k) = n * l - n * k  OBVIOUS
  <2>4. n * l \in Int /\ n * k \in Int  OBVIOUS
  <2> QED  BY <2>2, <2>3, <2>4
<1>3. i < j => n * i < n * j  BY <1>2
<1>4. j < i => n * j < n * i  BY <1>2
<1> QED  BY <1>1, <1>3, <1>4

LEMMA Floors ==
  ASSUME NEW n \in Nat \ {0}, NEW x \in Int
  PROVE  /\ x \div n \in Int /\ n * (x \div n) <= x /\ x < n * (x \div n) + n
         /\ x % n \in 0..n - 1 /\ x = n * (x \div n) + (x % n)
OBVIOUS

LEMMA FloorIs ==
  ASSUME NEW n \in Nat \ {0}, NEW x \in Int, NEW q \in Int, n * q <= x, x < n * q + n
  PROVE  x \div n = q
<1>1. /\ x \div n \in Int /\ n * (x \div n) <= x /\ x < n * (x \div n) + n
  BY Floors
<1> DEFINE d == x \div n
<1> HIDE DEF d
<1>2. d \in Int /\ n * d <= x /\ x < n * d + n  BY <1>1 DEF d
<1>3. /\ n * d \in Int /\ n * q \in Int /\ n * (d + 1) = n * d + n
      /\ n * (q + 1) = n * q + n
  BY <1>2, Multiples
<1>4. ~(d < q)
  <2> SUFFICES ASSUME d < q PROVE FALSE
    OBVIOUS
  <2>1. n * (d + 1) <= n * q  BY <1>2, Multiples
  <2> QED  BY <1>2, <1>3, <2>1
<1>5. ~(q < d)
  <2> SUFFICES ASSUME q < d PROVE FALSE
    OBVIOUS
  <2>1. n * (q + 1) <= n * d  BY <1>2, Multiples
  <2> QED  BY <1>2, <1>3, <2>1
<1>6. d = q  BY <1>2, <1>4, <1>5
<1> QED  BY <1>6 DEF d

(* Where a multiple of the spacing stands in the bitmap.                   *)
LEMMA CompressedIs ==
  ASSUME NEW m \in Int
  PROVE  Compressed(Spacing * m) = m /\ (Spacing * m) \div Spacing = m
<1>0. Spacing \in Nat \ {0}  BY TicksAssumption
<1> DEFINE t == Spacing * m
<1>1. t \in Int /\ t < t + Spacing  BY <1>0
<1>2. t \div Spacing = m  BY <1>0, <1>1, FloorIs
<1>3. t % Spacing = 0
  <2>1. t = Spacing * (t \div Spacing) + (t % Spacing) /\ t % Spacing \in 0..Spacing - 1
    BY <1>0, <1>1, Floors
  <2> QED  BY <1>1, <1>2, <2>1
<1>4. TruncDiv(t, Spacing) = m
  <2>1. CASE t >= 0  BY <1>2, <2>1 DEF TruncDiv
  <2>2. CASE ~(t >= 0)
    <3>1. -m \in Int /\ Spacing * (-m) = -t  BY <1>0
    <3>2. -t \in Int /\ -t < -t + Spacing  BY <1>0, <1>1
    <3> HIDE DEF t
    <3>3. (-t) \div Spacing = -m  BY <1>0, <3>1, <3>2, FloorIs
    <3> QED  BY <2>2, <3>3 DEF TruncDiv
  <2> QED  BY <2>1, <2>2
<1> HIDE DEF t
<1>5. Compressed(t) = m  BY <1>3, <1>4 DEF Compressed
<1> QED  BY <1>2, <1>5 DEF t

LEMMA MaxIs ==
  ASSUME NEW S \in SUBSET Int, S # {}, NEW high \in Int, \A x \in S : x <= high
  PROVE  Max(S) \in S /\ \A x \in S : x <= Max(S)
<1> DEFINE T == {high - x : x \in S}
<1>a. \A x \in S : high - x \in Nat
  <2> SUFFICES ASSUME NEW x \in S PROVE high - x \in Nat
    OBVIOUS
  <2>1. x \in Int /\ x <= high  OBVIOUS
  <2> QED  BY <2>1
<1>1. T \in SUBSET Nat /\ T # {}
  <2>1. PICK x \in S : TRUE  OBVIOUS
  <2>2. high - x \in T  OBVIOUS
  <2>3. \A k \in T : k \in Nat  BY <1>a
  <2> HIDE DEF T
  <2> QED  BY <2>2, <2>3
<1> HIDE DEF T
<1>2. PICK m \in T : \A k \in T : m <= k  BY <1>1, LeastElement
<1>3. PICK top \in S : m = high - top  BY <1>2 DEF T
<1>4. \A x \in S : top >= x
  <2> SUFFICES ASSUME NEW x \in S PROVE top >= x
    OBVIOUS
  <2>1. m <= high - x  BY <1>2 DEF T
  <2>2. x \in Int /\ top \in Int  OBVIOUS
  <2> QED  BY <1>3, <2>1, <2>2
<1>5. Max(S) \in S /\ \A x \in S : Max(S) >= x  BY <1>4 DEF Max
<1> QED  BY <1>5

LEMMA MinIs ==
  ASSUME NEW S \in SUBSET Int, S # {}, NEW low \in Int, \A x \in S : low <= x
  PROVE  Min(S) \in S /\ \A x \in S : Min(S) <= x
<1> DEFINE T == {x - low : x \in S}
<1>a. \A x \in S : x - low \in Nat
  <2> SUFFICES ASSUME NEW x \in S PROVE x - low \in Nat
    OBVIOUS
  <2>1. x \in Int /\ low <= x  OBVIOUS
  <2> QED  BY <2>1
<1>1. T \in SUBSET Nat /\ T # {}
  <2>1. PICK x \in S : TRUE  OBVIOUS
  <2>2. x - low \in T  OBVIOUS
  <2>3. \A k \in T : k \in Nat  BY <1>a
  <2> HIDE DEF T
  <2> QED  BY <2>2, <2>3
<1> HIDE DEF T
<1>2. PICK m \in T : \A k \in T : m <= k  BY <1>1, LeastElement
<1>3. PICK end \in S : m = end - low  BY <1>2 DEF T
<1>4. \A x \in S : end <= x
  <2> SUFFICES ASSUME NEW x \in S PROVE end <= x
    OBVIOUS
  <2>1. m <= x - low  BY <1>2 DEF T
  <2>2. x \in Int /\ end \in Int  OBVIOUS
  <2> QED  BY <1>3, <2>1, <2>2
<1>5. Min(S) \in S /\ \A x \in S : Min(S) <= x  BY <1>4 DEF Min
<1> QED  BY <1>5

-----------------------------------------------------------------------------
(* The bitmap. *)

(* The initialized ticks that were fetched are multiples of the spacing,   *)
(* and the bitmap has a bit for each.                                      *)
Mapped(data) ==
  /\ IsNets(data.nets)
  /\ \A t \in DOMAIN data.nets : \E m \in Int : t = Spacing * m
  /\ data.bits = {Compressed(t) : t \in DOMAIN data.nets}

LEMMA BitsAre ==
  ASSUME NEW data, Mapped(data)
  PROVE  /\ data.bits \subseteq Int
         /\ \A b \in Int : b \in data.bits <=> Spacing * b \in DOMAIN data.nets
         /\ \A t \in DOMAIN data.nets : t \in Tick /\ data.nets[t] \in Int
<1>1. \A t \in DOMAIN data.nets : t \in Tick /\ data.nets[t] \in Int
  BY DEF Mapped, IsNets
<1>2. ASSUME NEW t \in DOMAIN data.nets
      PROVE  Compressed(t) \in Int /\ t = Spacing * Compressed(t)
  <2>1. PICK m \in Int : t = Spacing * m  BY DEF Mapped
  <2> QED  BY <2>1, CompressedIs
<1>3. data.bits \subseteq Int  BY <1>2 DEF Mapped
<1>4. ASSUME NEW b \in Int
      PROVE  b \in data.bits <=> Spacing * b \in DOMAIN data.nets
  <2>1. ASSUME b \in data.bits PROVE Spacing * b \in DOMAIN data.nets
    <3>1. PICK t \in DOMAIN data.nets : b = Compressed(t)  BY <2>1 DEF Mapped
    <3> QED  BY <1>2, <3>1
  <2>2. ASSUME Spacing * b \in DOMAIN data.nets PROVE b \in data.bits
    BY <2>2, CompressedIs DEF Mapped
  <2> QED  BY <2>1, <2>2
<1> QED  BY <1>1, <1>3, <1>4

(* The nearest set bit of the word, or the end of the word; no bit between *)
(* it and the tick is set.                                                 *)
LEMMA NextInWordIs ==
  ASSUME NEW bits \in SUBSET Int, NEW tick \in Int, NEW down \in BOOLEAN
  PROVE  LET next == NextInWord(bits, tick, down)
         IN  /\ \E b \in Int :
                  /\ next.tick = Spacing * b /\ (next.initialized <=> b \in bits)
                  /\ IF down THEN b <= tick \div Spacing ELSE b > tick \div Spacing
                  /\ \A c \in bits : IF down THEN ~(b < c /\ c <= tick \div Spacing)
                                     ELSE ~(tick \div Spacing < c /\ c < b)
             /\ next = [tick |-> next.tick, initialized |-> next.initialized]
             /\ next.initialized \in BOOLEAN
<1> DEFINE from == IF down THEN tick \div Spacing ELSE tick \div Spacing + 1
           word == from \div WordBits
           set == { b \in bits : /\ b \div WordBits = word
                                 /\ IF down THEN b <= from ELSE b >= from }
           next == NextInWord(bits, tick, down)
           end == IF down THEN word * WordBits ELSE word * WordBits + WordBits - 1
<1>0. Spacing \in Nat \ {0} /\ WordBits \in Nat \ {0}  BY TicksAssumption
<1>1. tick \div Spacing \in Int /\ from \in Int  BY <1>0, Floors
<1>2. next = IF set = {} THEN [tick |-> Spacing * end, initialized |-> FALSE]
             ELSE [tick |-> Spacing * (IF down THEN Max(set) ELSE Min(set)),
                   initialized |-> TRUE]
  BY DEF NextInWord
<1>3. /\ word \in Int /\ WordBits * word <= from /\ from < WordBits * word + WordBits
      /\ word * WordBits = WordBits * word /\ end \in Int
  <2> HIDE DEF from
  <2>1. word \in Int /\ WordBits * word <= from /\ from < WordBits * word + WordBits
    BY <1>0, <1>1, Floors
  <2>2. word * WordBits = WordBits * word /\ WordBits * word \in Int  BY <1>0, <2>1, Multiples
  <2> QED  BY <1>0, <2>1, <2>2
<1> DEFINE base == WordBits * word
<1>4. base \in Int /\ base <= from /\ from < base + WordBits
      /\ end = IF down THEN base ELSE base + WordBits - 1
  BY <1>0, <1>3
<1>5. \A b \in Int : base <= b /\ b < base + WordBits => b \div WordBits = word
  BY <1>0, <1>3, FloorIs
<1>6. \A b \in set : b \in Int /\ base <= b /\ b < base + WordBits
  <2> SUFFICES ASSUME NEW b \in set PROVE b \in Int /\ base <= b /\ b < base + WordBits
    OBVIOUS
  <2>1. b \in Int /\ b \div WordBits = word  OBVIOUS
  <2>2. WordBits * (b \div WordBits) <= b /\ b < WordBits * (b \div WordBits) + WordBits
    BY <1>0, <2>1, Floors
  <2> QED  BY <2>1, <2>2
<1>s. /\ set \in SUBSET Int /\ set \subseteq bits
      /\ \A b \in set : IF down THEN b <= from ELSE b >= from
      /\ \A b \in bits : b \div WordBits = word
                           => (b \in set <=> IF down THEN b <= from ELSE b >= from)
  OBVIOUS
<1> DEFINE Nearest(b) ==
             /\ next.tick = Spacing * b /\ (next.initialized <=> b \in bits)
             /\ IF down THEN b <= tick \div Spacing ELSE b > tick \div Spacing
             /\ \A c \in bits : IF down THEN ~(b < c /\ c <= tick \div Spacing)
                                ELSE ~(tick \div Spacing < c /\ c < b)
           quot == tick \div Spacing
<1>q. quot \in Int /\ from = IF down THEN quot ELSE quot + 1  BY <1>1
<1> HIDE DEF from, set, next, end, base, word, quot
<1>7. CASE set = {}
  <2>1. next.tick = Spacing * end /\ next.initialized = FALSE
        /\ next = [tick |-> next.tick, initialized |-> next.initialized]
    BY <1>2, <1>7
  <2>2. \A b \in bits : base <= b /\ b < base + WordBits
                          => ~(IF down THEN b <= from ELSE b >= from)
    BY <1>5, <1>7, <1>s
  <2>3. end \notin bits
    BY <1>0, <1>1, <1>4, <2>2
  <2>4. IF down THEN end <= quot ELSE end > quot
    BY <1>0, <1>1, <1>4, <1>q, <1>3
  <2>5. ASSUME NEW c \in bits
        PROVE  IF down THEN ~(end < c /\ c <= quot) ELSE ~(quot < c /\ c < end)
    BY <1>0, <1>1, <1>3, <1>4, <1>q, <2>2
  <2>6. Nearest(end)  BY <2>1, <2>3, <2>4, <2>5 DEF quot
  <2>7. \E b \in Int : Nearest(b)
    <3> HIDE DEF Nearest
    <3> QED  BY <1>3, <2>6
  <2> QED  BY <2>1, <2>7 DEF next
<1>8. CASE set # {}
  <2> DEFINE best == IF down THEN Max(set) ELSE Min(set)
  <2>1. /\ best \in set /\ best \in Int
        /\ \A b \in set : IF down THEN b <= best ELSE best <= b
    <3>1. CASE down
      <4>1. \A b \in set : b <= from  BY <1>s, <3>1
      <4> QED  BY <1>1, <1>8, <1>s, <3>1, <4>1, MaxIs
    <3>2. CASE ~down
      <4>1. \A b \in set : from <= b  BY <1>1, <1>s, <3>2
      <4> QED  BY <1>1, <1>8, <1>s, <3>2, <4>1, MinIs
    <3> QED  BY <3>1, <3>2
  <2>2. next.tick = Spacing * best /\ next.initialized = TRUE
        /\ next = [tick |-> next.tick, initialized |-> next.initialized]
    BY <1>2, <1>8
  <2> HIDE DEF best
  <2>3. best \in bits /\ base <= best /\ best < base + WordBits
        /\ IF down THEN best <= from ELSE best >= from
    BY <1>6, <1>s, <2>1
  <2>4. IF down THEN best <= quot ELSE best > quot  BY <1>q, <2>1, <2>3
  <2>5. ASSUME NEW c \in bits
        PROVE  IF down THEN ~(best < c /\ c <= quot) ELSE ~(quot < c /\ c < best)
    <3>1. c \in Int  OBVIOUS
    <3>2. CASE base <= c /\ c < base + WordBits
      <4>1. c \in set <=> IF down THEN c <= from ELSE c >= from
        BY <1>5, <1>s, <3>1, <3>2
      <4> QED  BY <1>q, <2>1, <3>1, <4>1
    <3>3. CASE ~(base <= c /\ c < base + WordBits)
      BY <1>0, <1>1, <1>4, <1>q, <2>1, <2>3, <3>1, <3>3
    <3> QED  BY <3>2, <3>3
  <2>6. Nearest(best)  BY <2>2, <2>3, <2>4, <2>5 DEF quot
  <2>7. \E b \in Int : Nearest(b)
    <3> HIDE DEF Nearest
    <3> QED  BY <2>1, <2>6
  <2> QED  BY <2>2, <2>7 DEF next
<1> QED  BY <1>7, <1>8

(* The next tick to step to: in the direction of the swap, with no tick    *)
(* that is initialized passed over, and initialized exactly if it is one   *)
(* of the fetched.                                                         *)
Nexts(nets, next, tick, down) ==
  /\ next.tick \in Tick /\ next.initialized \in BOOLEAN
  /\ IF down THEN next.tick <= tick ELSE next.tick > tick
  /\ next.initialized <=> next.tick \in DOMAIN nets
  /\ \A t \in DOMAIN nets : IF down THEN ~(next.tick < t /\ t <= tick)
                            ELSE ~(tick < t /\ t < next.tick)

LEMMA NextTickIs ==
  ASSUME NEW data, Mapped(data), NEW tick \in Int, NEW down \in BOOLEAN,
         IF down THEN MinTick <= tick /\ tick <= MaxTick
         ELSE MinTick - 1 <= tick /\ tick < MaxTick
  PROVE  Nexts(data.nets, NextTick(data, tick, down), tick, down)
<1> DEFINE raw == NextInWord(data.bits, tick, down)
           next == NextTick(data, tick, down)
           nets == data.nets
           quot == tick \div Spacing
<1>0. /\ Spacing \in Nat \ {0} /\ MinTick \in Int /\ MaxTick \in Int
      /\ MinTick < 0 /\ 0 < MaxTick
  BY TicksAssumption
<1>1. /\ data.bits \in SUBSET Int
      /\ \A b \in Int : b \in data.bits <=> Spacing * b \in DOMAIN nets
      /\ \A t \in DOMAIN nets : t \in Tick /\ nets[t] \in Int
  BY BitsAre
<1>2. PICK b \in Int :
        /\ raw.tick = Spacing * b /\ (raw.initialized <=> b \in data.bits)
        /\ IF down THEN b <= quot ELSE b > quot
        /\ \A c \in data.bits : IF down THEN ~(b < c /\ c <= quot)
                                ELSE ~(quot < c /\ c < b)
  BY <1>1, NextInWordIs
<1>3. raw = [tick |-> raw.tick, initialized |-> raw.initialized]
      /\ raw.initialized \in BOOLEAN
  BY <1>1, NextInWordIs
<1> HIDE DEF raw
<1>4. next.tick = ClampTick(raw.tick) /\ next.initialized = raw.initialized
  BY <1>3 DEF NextTick, raw
<1>5. quot \in Int /\ Spacing * quot <= tick /\ tick < Spacing * quot + Spacing
  BY <1>0, Floors
<1> HIDE DEF next, nets, quot
<1> DEFINE spot == Spacing * b
<1>6. /\ spot \in Int /\ spot = raw.tick
      /\ IF down THEN spot <= tick ELSE spot > tick
  <2>1. spot \in Int  BY <1>0
  <2>2. CASE down
    <3>1. spot <= Spacing * quot  BY <1>0, <1>2, <1>5, <2>2, Multiples
    <3>2. Spacing * quot \in Int  BY <1>0, <1>5
    <3> QED  BY <1>2, <1>5, <2>1, <2>2, <3>1, <3>2
  <2>3. CASE ~down
    <3>1. quot + 1 <= b /\ quot + 1 \in Int  BY <1>2, <1>5, <2>3
    <3>2. Spacing * (quot + 1) <= spot  BY <1>0, <3>1, Multiples
    <3>3. Spacing * (quot + 1) = Spacing * quot + Spacing /\ Spacing * quot \in Int
      BY <1>0, <1>5, Multiples
    <3> QED  BY <1>0, <1>2, <1>5, <2>1, <2>3, <3>2, <3>3
  <2> QED  BY <2>2, <2>3, <2>1, <1>2
<1>7. raw.initialized <=> spot \in DOMAIN nets  BY <1>1, <1>2
<1>8. ASSUME NEW t \in DOMAIN nets
      PROVE  /\ t \in Tick /\ t \in Int
             /\ IF down THEN ~(spot < t /\ t <= tick) ELSE ~(tick < t /\ t < spot)
  <2>1. t \in Tick /\ t \in Int  BY <1>0, <1>1 DEF Tick
  <2>2. PICK m \in Int : t = Spacing * m  BY DEF Mapped, nets
  <2>3. m \in data.bits  BY <1>1, <2>2
  <2>4. /\ spot < t <=> b < m
        /\ t < spot <=> m < b
    BY <1>0, <2>2, Multiples
  <2>5. t <= tick <=> m <= quot
    <3>1. ASSUME m <= quot PROVE t <= tick
      <4>1. t <= Spacing * quot /\ Spacing * quot \in Int
        BY <1>0, <1>5, <2>2, <3>1, Multiples
      <4> QED  BY <1>5, <2>1, <4>1
    <3>2. ASSUME ~(m <= quot) PROVE ~(t <= tick)
      <4>1. quot + 1 <= m /\ quot + 1 \in Int  BY <1>5, <3>2
      <4>2. Spacing * (quot + 1) <= t  BY <1>0, <2>2, <4>1, Multiples
      <4>3. Spacing * (quot + 1) = Spacing * quot + Spacing /\ Spacing * quot \in Int
        BY <1>0, <1>5, Multiples
      <4> QED  BY <1>0, <1>5, <2>1, <4>2, <4>3
    <3> QED  BY <3>1, <3>2
  <2>6. IF down THEN ~(b < m /\ m <= quot) ELSE ~(quot < m /\ m < b)  BY <1>2, <2>3
  <2> HIDE DEF spot
  <2>7. CASE down  BY <2>1, <2>4, <2>5, <2>6, <2>7
  <2>8. CASE ~down
    <3>1. tick < t <=> quot < m  BY <1>5, <2>1, <2>5
    <3> QED  BY <2>1, <2>4, <2>6, <2>8, <3>1
  <2> QED  BY <2>7, <2>8
<1> HIDE DEF spot
<1>9. /\ next.tick \in Int
      /\ next.tick = IF spot < MinTick THEN MinTick ELSE IF spot > MaxTick THEN MaxTick ELSE spot
  BY <1>0, <1>4, <1>6 DEF ClampTick
<1>10. next.tick \in Tick  BY <1>0, <1>6, <1>9 DEF Tick
<1>11. IF down THEN next.tick <= tick ELSE next.tick > tick
  BY <1>0, <1>6, <1>9
<1>12. ASSUME NEW t \in DOMAIN nets
       PROVE  IF down THEN ~(next.tick < t /\ t <= tick) ELSE ~(tick < t /\ t < next.tick)
  <2>1. t \in Int /\ MinTick <= t /\ t <= MaxTick  BY <1>0, <1>8 DEF Tick
  <2>2. IF down THEN ~(spot < t /\ t <= tick) ELSE ~(tick < t /\ t < spot)  BY <1>8
  <2> QED  BY <1>0, <1>6, <1>9, <2>1, <2>2
<1>13. next.initialized <=> next.tick \in DOMAIN nets
  <2>1. CASE spot \in Tick
    <3>1. next.tick = spot  BY <1>0, <1>6, <1>9, <2>1 DEF Tick
    <3> QED  BY <1>4, <1>7, <3>1
  <2>2. CASE spot \notin Tick
    <3>1. spot \notin DOMAIN nets  BY <1>8, <2>2
    <3>2. next.tick \notin DOMAIN nets
      <4> SUFFICES ASSUME next.tick \in DOMAIN nets PROVE FALSE
        OBVIOUS
      <4>1. IF down THEN ~(spot < next.tick /\ next.tick <= tick)
            ELSE ~(tick < next.tick /\ next.tick < spot)
        BY <1>8
      <4>2. IF down THEN spot < MinTick ELSE spot > MaxTick
        BY <1>0, <1>6, <2>2 DEF Tick
      <4> QED  BY <1>0, <1>6, <1>9, <1>11, <4>1, <4>2
    <3> QED  BY <1>4, <1>7, <3>1, <3>2
  <2> QED  BY <2>1, <2>2
<1> QED  BY <1>3, <1>4, <1>10, <1>11, <1>12, <1>13 DEF Nexts, next, nets

-----------------------------------------------------------------------------
(* The liquidity between two ticks. *)

NetAt(nets, t) == IF t \in DOMAIN nets THEN nets[t] ELSE 0

(* g[n] is the net liquidity of the n ticks above low, which is what       *)
(* NetOver adds up.                                                        *)
Sums(g, nets, low, N) ==
  /\ g \in [0..N -> Int] /\ g[0] = 0
  /\ \A i \in 1..N : g[i] = g[i - 1] + NetAt(nets, low + i)

Totals(g, nets, low, N) ==
  Sums(g, nets, low, N) /\ \A n \in 0..N : NetOver(nets, low, low + n) = g[n]

LEMMA NetOverIs ==
  ASSUME NEW nets, IsNets(nets), NEW low \in Int, NEW N \in Nat
  PROVE  \E g : Totals(g, nets, low, N)
<1> DEFINE step == [i \in 1..N |-> [x \in Int |-> x + NetAt(nets, low + i)]]
           Is(f, n) == f = [k \in 0..n |-> IF k = 0 THEN 0
                              ELSE f[k - 1] + (IF low + k \in DOMAIN nets
                                               THEN nets[low + k] ELSE 0)]
<1>1. \A t \in Int : NetAt(nets, t) \in Int  BY DEF NetAt, IsNets
<1>2. PICK g : Climbs(g, N, Int, 0, step)
  <2>1. step \in [1..N -> [Int -> Int]]  BY <1>1
  <2>2. 0 \in Int  OBVIOUS
  <2> HIDE DEF step
  <2> QED  BY <2>1, <2>2, RecursionUp
<1>3. Sums(g, nets, low, N)
  <2>1. ASSUME NEW i \in 1..N PROVE g[i] = g[i - 1] + NetAt(nets, low + i)
    <3>1. i - 1 \in 0..N  OBVIOUS
    <3>2. g[i - 1] \in Int  BY <1>2, <3>1 DEF Climbs
    <3>3. g[i] = step[i][g[i - 1]]  BY <1>2 DEF Climbs
    <3> QED  BY <3>2, <3>3
  <2> HIDE DEF step
  <2> QED  BY <1>2, <2>1 DEF Climbs, Sums
<1>4. ASSUME NEW n \in 0..N PROVE NetOver(nets, low, low + n) = g[n]
  <2>1. (low + n) - low = n  OBVIOUS
  <2> DEFINE short == [k \in 0..n |-> g[k]]
             net == CHOOSE f : Is(f, n)
  <2>2. Is(short, n)
    <3>1. ASSUME NEW k \in 0..n
          PROVE  g[k] = IF k = 0 THEN 0 ELSE short[k - 1] + NetAt(nets, low + k)
      <4>1. CASE k = 0  BY <1>3, <4>1 DEF Sums
      <4>2. CASE k # 0
        <5>1. k \in 1..N /\ k - 1 \in 0..n  BY <4>2
        <5>2. short[k - 1] = g[k - 1]  BY <5>1
        <5> QED  BY <1>3, <4>2, <5>1, <5>2 DEF Sums
      <4> QED  BY <4>1, <4>2
    <3> HIDE DEF short
    <3>2. short = [k \in 0..n |-> g[k]]  BY DEF short
    <3> QED  BY <3>1, <3>2 DEF NetAt
  <2>3. Is(net, n)
    <3>1. \E f : Is(f, n)
      <4> HIDE DEF Is, short
      <4> QED  BY <2>2
    <3> HIDE DEF Is
    <3> QED  BY <3>1
  <2>4. NetOver(nets, low, low + n) = net[n]  BY <2>1 DEF NetOver
  <2> HIDE DEF net
  <2>5. \A k \in 0..n : net[k] = IF k = 0 THEN 0 ELSE net[k - 1] + NetAt(nets, low + k)
    BY <2>3 DEF NetAt
  <2> DEFINE T == {k \in 0..n : net[k] = g[k]}
  <2>6. 0 \in T  BY <1>3, <2>5 DEF Sums
  <2>7. \A k \in 0..n - 1 : k \in T => k + 1 \in T
    <3> SUFFICES ASSUME NEW k \in 0..n - 1, net[k] = g[k] PROVE net[k + 1] = g[k + 1]
      OBVIOUS
    <3>1. k + 1 \in 0..n /\ k + 1 \in 1..N /\ (k + 1) - 1 = k /\ k + 1 # 0  OBVIOUS
    <3>2. net[k + 1] = net[k] + NetAt(nets, low + (k + 1))  BY <2>5, <3>1
    <3>3. g[k + 1] = g[k] + NetAt(nets, low + (k + 1))  BY <1>3, <3>1 DEF Sums
    <3> QED  BY <3>2, <3>3
  <2>8. n \in T
    <3> HIDE DEF T
    <3>1. 0..n \subseteq T  BY <2>6, <2>7, BoundedInduction
    <3> QED  BY <3>1
  <2> QED  BY <2>4, <2>8
<1>5. Totals(g, nets, low, N)  BY <1>3, <1>4 DEF Totals
<1> QED  BY <1>5

(* Over no ticks at all, over one, and over ticks none of which is         *)
(* initialized.                                                            *)
LEMMA NetOverFew ==
  ASSUME NEW nets, IsNets(nets), NEW low \in Int, NEW high \in Int, low <= high
  PROVE  /\ NetOver(nets, low, high) \in Int
         /\ NetOver(nets, low, low) = 0
         /\ NetOver(nets, low, low + 1) = NetAt(nets, low + 1)
         /\ (\A t \in DOMAIN nets : ~(low < t /\ t <= high)) => NetOver(nets, low, high) = 0
<1> DEFINE N == high - low
<1>0. N \in Nat /\ low + N = high  OBVIOUS
<1> HIDE DEF N
<1>t. PICK g : Totals(g, nets, low, N)  BY <1>0, NetOverIs
<1>1. Sums(g, nets, low, N) /\ \A n \in 0..N : NetOver(nets, low, low + n) = g[n]
  BY <1>t DEF Totals
<1>2. NetOver(nets, low, high) = g[N] /\ NetOver(nets, low, high) \in Int
  <2>1. N \in 0..N  BY <1>0
  <2>2. NetOver(nets, low, low + N) = g[N] /\ g[N] \in Int  BY <1>1, <2>1 DEF Sums
  <2> QED  BY <1>0, <2>2
<1>3. NetOver(nets, low, low) = 0
  <2>1. 0 \in 0..N /\ low + 0 = low  BY <1>0
  <2>2. NetOver(nets, low, low + 0) = 0  BY <1>1, <2>1 DEF Sums
  <2> QED  BY <2>1, <2>2
<1>4. NetOver(nets, low, low + 1) = NetAt(nets, low + 1)
  <2>0. 1 \in Nat  OBVIOUS
  <2>t. PICK h : Totals(h, nets, low, 1)  BY <2>0, NetOverIs, Zenon
  <2>1. Sums(h, nets, low, 1) /\ \A n \in 0..1 : NetOver(nets, low, low + n) = h[n]
    BY <2>t DEF Totals
  <2>2. NetOver(nets, low, low + 1) = h[1]  BY <2>1
  <2>3. 1 \in 1..1 /\ 1 - 1 = 0 /\ h[0] = 0  BY <2>1 DEF Sums
  <2>4. h[1] = h[0] + NetAt(nets, low + 1)  BY <2>1, <2>3 DEF Sums
  <2>5. NetAt(nets, low + 1) \in Int  BY DEF NetAt, IsNets
  <2> QED  BY <2>2, <2>3, <2>4, <2>5
<1>5. ASSUME \A t \in DOMAIN nets : ~(low < t /\ t <= high)
      PROVE  NetOver(nets, low, high) = 0
  <2> DEFINE T == {n \in 0..N : g[n] = 0}
  <2>1. 0 \in T  BY <1>0, <1>1 DEF Sums
  <2>2. \A k \in 0..N - 1 : k \in T => k + 1 \in T
    <3> SUFFICES ASSUME NEW k \in 0..N - 1, g[k] = 0 PROVE g[k + 1] = 0
      BY <1>0
    <3>1. k + 1 \in 1..N /\ (k + 1) - 1 = k  BY <1>0
    <3>2. low < low + (k + 1) /\ low + (k + 1) <= high  BY <1>0, <3>1
    <3>3. NetAt(nets, low + (k + 1)) = 0  BY <1>5, <3>2 DEF NetAt
    <3> QED  BY <1>1, <3>1, <3>3 DEF Sums
  <2>3. N \in T
    <3> HIDE DEF T
    <3>1. 0..N \subseteq T  BY <1>0, <2>1, <2>2, BoundedInduction
    <3> QED  BY <1>0, <3>1
  <2> QED  BY <1>2, <2>3
<1> QED  BY <1>2, <1>3, <1>4, <1>5

LEMMA NetOverSplits ==
  ASSUME NEW nets, IsNets(nets), NEW a \in Int, NEW b \in Int, NEW c \in Int,
         a <= b, b <= c
  PROVE  NetOver(nets, a, c) = NetOver(nets, a, b) + NetOver(nets, b, c)
<1> DEFINE M == b - a
           N == c - b
<1>0. /\ M \in Nat /\ N \in Nat /\ M + N \in Nat
      /\ a + M = b /\ b + N = c /\ a + (M + N) = c
  OBVIOUS
<1> HIDE DEF M, N
<1>s. PICK g : Totals(g, nets, a, M + N)  BY <1>0, NetOverIs, Zenon
<1>t. PICK h : Totals(h, nets, b, N)  BY <1>0, NetOverIs, Zenon
<1>1. /\ Sums(g, nets, a, M + N)
      /\ \A n \in 0..M + N : NetOver(nets, a, a + n) = g[n]
  BY <1>s DEF Totals
<1>2. Sums(h, nets, b, N) /\ \A n \in 0..N : NetOver(nets, b, b + n) = h[n]
  BY <1>t DEF Totals
<1> DEFINE T == {n \in 0..N : g[M + n] = g[M] + h[n]}
<1>3. 0 \in T
  <2>1. M + 0 = M /\ M \in 0..M + N  BY <1>0
  <2>2. g[M] \in Int /\ h[0] = 0  BY <1>1, <1>2, <2>1 DEF Sums
  <2> QED  BY <1>0, <2>1, <2>2
<1>4. \A k \in 0..N - 1 : k \in T => k + 1 \in T
  <2> SUFFICES ASSUME NEW k \in 0..N - 1, g[M + k] = g[M] + h[k]
               PROVE  k + 1 \in 0..N /\ g[M + (k + 1)] = g[M] + h[k + 1]
    OBVIOUS
  <2>1. /\ k + 1 \in 1..N /\ (k + 1) - 1 = k /\ M + (k + 1) \in 1..M + N
        /\ (M + (k + 1)) - 1 = M + k /\ a + (M + (k + 1)) = b + (k + 1)
        /\ M \in 0..M + N /\ k \in 0..N
    BY <1>0
  <2>2. g[M + (k + 1)] = g[M + k] + NetAt(nets, b + (k + 1))  BY <1>1, <2>1 DEF Sums
  <2>3. h[k + 1] = h[k] + NetAt(nets, b + (k + 1))  BY <1>2, <2>1 DEF Sums
  <2>4. g[M] \in Int /\ h[k] \in Int  BY <1>1, <1>2, <2>1 DEF Sums
  <2>5. NetAt(nets, b + (k + 1)) \in Int  BY DEF NetAt, IsNets
  <2> QED  BY <2>1, <2>2, <2>3, <2>4, <2>5
<1>5. N \in T
  <2> HIDE DEF T
  <2>1. 0..N \subseteq T  BY <1>0, <1>3, <1>4, BoundedInduction
  <2> QED  BY <1>0, <2>1
<1>6. g[M + N] = g[M] + h[N]  BY <1>5
<1>7. M + N \in 0..M + N /\ M \in 0..M + N /\ N \in 0..N  BY <1>0
<1>8. NetOver(nets, a, a + (M + N)) = g[M + N] /\ NetOver(nets, a, a + M) = g[M]
      /\ NetOver(nets, b, b + N) = h[N]
  BY <1>1, <1>2, <1>7
<1> QED  BY <1>0, <1>6, <1>8

-----------------------------------------------------------------------------
(* One step towards a target: the price ends between, at the target unless *)
(* the amount is used up, and no more than the amount is used.             *)
Stepped(step, price, target, remaining, exactIn) ==
  LET used == IF exactIn THEN step.in ELSE step.out
  IN  /\ step.price \in Int /\ step.in \in Nat /\ step.out \in Nat
      /\ IF price > target THEN target <= step.price /\ step.price <= price
         ELSE price <= step.price /\ step.price <= target
      /\ used <= remaining
      /\ step.price = target \/ used = remaining

(* No way takes no input, and any way a natural number of it.              *)
Costs(price, down, liquidity, fee) ==
  /\ InputFor(0, price, down, liquidity, fee) = 0
  /\ \A units \in Nat : InputFor(units, price, down, liquidity, fee) \in Nat

LEMMA InputIs ==
  ASSUME NEW price \in Int, SqrtAt(MinTick) <= price, price <= SqrtAt(MaxTick),
         NEW down \in BOOLEAN, NEW liquidity \in Nat, NEW fee \in Nat
  PROVE  Costs(price, down, liquidity, fee)
<1>0. SqrtAt(MinTick) \in Int /\ SqrtAt(MaxTick) \in Int
  BY TicksAssumption DEF SqrtAt
<1> DEFINE way == Travelled(price, down)
           rate == liquidity * (1 + fee)
<1>1. way \in Nat
  <2> HIDE DEF rate
  <2> QED  BY <1>0 DEF Travelled
<1>2. \A m, n \in Nat : m * n \in Nat  OBVIOUS
<1>3. rate \in Nat  BY <1>2
<1> DEFINE paid(units) == units * way + (units * (units + 1)) \div 2
<1> HIDE DEF way, rate
<1>4. \A units \in Nat : paid(units) \in Nat
  <2> SUFFICES ASSUME NEW units \in Nat PROVE paid(units) \in Nat
    OBVIOUS
  <2>1. units * way \in Nat /\ units * (units + 1) \in Nat  BY <1>1, <1>2
  <2> DEFINE twice == units * (units + 1)
  <2> HIDE DEF twice
  <2>2. twice \in Nat  BY <2>1 DEF twice
  <2>3. twice \div 2 \in Nat  BY <2>2
  <2> QED  BY <2>1, <2>3 DEF twice
<1>5. paid(0) = 0  BY <1>1
<1> HIDE DEF paid
<1>6. \A units : InputFor(units, price, down, liquidity, fee) = rate * paid(units)
  BY DEF InputFor, rate, way, paid
<1>7. rate * paid(0) = 0  BY <1>3, <1>5
<1> QED  BY <1>2, <1>3, <1>4, <1>6, <1>7 DEF Costs

LEMMA SwapStepIs ==
  ASSUME NEW price \in Int, SqrtAt(MinTick) <= price, price <= SqrtAt(MaxTick),
         NEW target \in Int, NEW liquidity \in Nat, NEW fee \in Nat,
         NEW remaining \in Nat \ {0}, NEW exactIn \in BOOLEAN
  PROVE  Stepped(SwapStep(price, target, liquidity, fee, remaining, exactIn),
                 price, target, remaining, exactIn)
<1> DEFINE down == price > target
           gap == IF down THEN price - target ELSE target - price
           input(units) == InputFor(units, price, down, liquidity, fee)
           affordable == {units \in 0..gap : IF exactIn THEN input(units) <= remaining
                                            ELSE units * liquidity < remaining + liquidity}
           moved == Max(affordable)
           short == exactIn /\ moved < gap
           step == SwapStep(price, target, liquidity, fee, remaining, exactIn)
           out == moved * liquidity
<1>1. step = [ price |-> IF down THEN price - moved ELSE price + moved,
               in    |-> IF short THEN remaining ELSE input(moved),
               out   |-> IF exactIn THEN out ELSE Min({remaining, out}) ]
  BY DEF SwapStep
<1>2. down \in BOOLEAN /\ gap \in Nat /\ gap \in Int  OBVIOUS
<1>3. input(0) = 0 /\ \A units \in Nat : input(units) \in Nat
  <2> HIDE DEF down, gap, affordable, moved, short, step, out
  <2>1. Costs(price, down, liquidity, fee)  BY <1>2, InputIs
  <2> QED  BY <2>1 DEF Costs
<1> HIDE DEF input
<1>4. /\ affordable \subseteq 0..gap
      /\ \A units \in 0..gap :
           units \in affordable <=>
             IF exactIn THEN input(units) <= remaining
             ELSE units * liquidity < remaining + liquidity
  <2> HIDE DEF gap
  <2> QED  OBVIOUS
<1> HIDE DEF affordable, gap
<1>5. 0 \in affordable
  <2>1. 0 * liquidity < remaining + liquidity /\ input(0) <= remaining  BY <1>3
  <2>2. 0 \in 0..gap  BY <1>2
  <2> QED  BY <1>4, <2>1, <2>2
<1>6. moved \in affordable /\ \A units \in affordable : units <= moved
  <2>1. affordable \in SUBSET Int /\ affordable # {} /\ \A units \in affordable : units <= gap
    BY <1>2, <1>4, <1>5
  <2> QED  BY <1>2, <2>1, MaxIs, Zenon
<1> HIDE DEF moved
<1>7. moved \in 0..gap /\ moved \in Nat /\ gap \in Int  BY <1>2, <1>4, <1>6
<1>8. out \in Nat /\ (moved + 1) * liquidity = out + liquidity
  <2>1. \A m \in Nat : m * liquidity \in Nat /\ (m + 1) * liquidity = m * liquidity + liquidity
    OBVIOUS
  <2> QED  BY <1>7, <2>1
<1> DEFINE yield == Min({remaining, out})
<1> HIDE DEF out
<1>9. yield \in Nat /\ yield <= remaining /\ (out >= remaining => yield = remaining)
  <2>1. {remaining, out} \in SUBSET Int /\ {remaining, out} # {}
        /\ \A x \in {remaining, out} : 0 <= x
    BY <1>8
  <2>2. 0 \in Int  OBVIOUS
  <2>3. yield \in {remaining, out} /\ \A x \in {remaining, out} : yield <= x
    BY <2>1, <2>2, MinIs
  <2> HIDE DEF yield
  <2> QED  BY <1>8, <2>3
<1>10. exactIn => input(moved) <= remaining  BY <1>4, <1>6, <1>7
<1>11. ~exactIn /\ moved # gap => out >= remaining
  <2> SUFFICES ASSUME ~exactIn, moved # gap PROVE out >= remaining
    OBVIOUS
  <2>1. moved + 1 \in 0..gap /\ ~(moved + 1 <= moved)  BY <1>7
  <2>2. ~((moved + 1) * liquidity < remaining + liquidity)  BY <1>4, <1>6, <2>1
  <2> QED  BY <1>8, <2>2
<1>12. input(moved) \in Nat  BY <1>3, <1>7
<1> HIDE DEF yield
<1>13. /\ step.price = IF down THEN price - moved ELSE price + moved
       /\ step.in = IF short THEN remaining ELSE input(moved)
       /\ step.out = IF exactIn THEN out ELSE yield
  BY <1>1 DEF yield
<1> HIDE DEF step
<1> DEFINE cost == input(moved)
<1>14. cost \in Nat /\ (exactIn => cost <= remaining)
       /\ step.in = IF short THEN remaining ELSE cost
  BY <1>10, <1>12, <1>13
<1> HIDE DEF cost
<1>15. /\ step.price \in Int /\ step.in \in Nat /\ step.out \in Nat
  BY <1>2, <1>7, <1>8, <1>9, <1>13, <1>14
<1>16. IF price > target THEN target <= step.price /\ step.price <= price
       ELSE price <= step.price /\ step.price <= target
  BY <1>7, <1>13 DEF gap
<1>17. (IF exactIn THEN step.in ELSE step.out) <= remaining
  BY <1>9, <1>13, <1>14
<1>18. step.price = target \/ (IF exactIn THEN step.in ELSE step.out) = remaining
  <2>1. CASE moved = gap
    <3>1. step.price = target  BY <1>13, <2>1 DEF gap
    <3> QED  BY <3>1
  <2>2. CASE moved # gap
    <3>1. moved < gap  BY <1>7, <2>2
    <3> QED  BY <1>9, <1>11, <1>13, <1>14, <2>2, <3>1
  <2> QED  BY <2>1, <2>2
<1> QED  BY <1>15, <1>16, <1>17, <1>18 DEF Stepped, step

-----------------------------------------------------------------------------
(* The first round. *)

(* A block that a refresh can read: a pool for every key, of the assets it *)
(* has at the head, and outside V4 one fee for both directions.            *)
IsBlock(block) ==
  /\ block \in [ToSet(keys) -> Chain]
  /\ \A id \in ToSet(keys) :
       /\ IsChain(block[id]) /\ block[id].assets = heads[id].assets
       /\ source # "UniswapV4" => SameFee(block[id])

Requested ==
  /\ source \in {"UniswapV3", "UniswapV4", "Slipstream"}
  /\ keys \in Seq(PoolId)
  /\ IsBlock(heads) /\ (at # None => IsBlock(at))

(* What round 1 makes of a pool. *)
StateFor(id, chain) ==
  [ id |-> id, price |-> chain.price, tick |-> chain.tick, liquidity |-> chain.liquidity,
    fee |-> IF source = "UniswapV4" THEN chain.fee ELSE chain.fee[TRUE],
    spacing |-> Spacing ]

Quotable == {k \in 1..Len(keys) : keys[k] \in Parsed \cap TwoAssets}

(* The list holds a state for each key that from names, in their order,    *)
(* and no more than MaxLost are missing.                                   *)
Decodes(list, block, from) ==
  /\ Len(list) \in Nat /\ DOMAIN list = 1..Len(list)
  /\ from \in [1..Len(list) -> 1..Len(keys)]
  /\ \A i, j \in 1..Len(list) : i < j => from[i] < from[j]
  /\ \A i \in 1..Len(list) : list[i] = StateFor(keys[from[i]], block[keys[from[i]]])
  /\ Cardinality(Quotable) <= Len(list) + MaxLost

(* The part of a batch that belongs to one of a number of equal slices.    *)
LEMMA SliceAt ==
  ASSUME NEW n \in Nat \ {0}, NEW L \in Nat, NEW i \in 1..L, NEW r \in 1..n
  PROVE  LET k == (i - 1) * n + r
         IN  /\ k \in 1..(L * n) /\ k \in Nat
             /\ (k - 1) \div n + 1 = i /\ ((k - 1) % n) + 1 = r
             /\ (i - 1) * n + 1 \in Int /\ i * n \in Int
             /\ (i - 1) * n + 1 <= i * n
             /\ i * n - ((i - 1) * n + 1) + 1 = n
<1> DEFINE b == (i - 1) * n
           k == b + r
<1>1. i - 1 \in Nat /\ L - i \in Nat /\ L = i + (L - i) /\ i = (i - 1) + 1  OBVIOUS
<1>2. b \in Nat /\ b = n * (i - 1) /\ i * n = b + n
  <2>1. \A m \in Nat : m * n \in Nat /\ m * n = n * m /\ (m + 1) * n = m * n + n
    OBVIOUS
  <2> QED  BY <1>1, <2>1
<1>3. L * n = i * n + (L - i) * n /\ (L - i) * n \in Nat
  <2>1. \A a, c \in Nat : (a + c) * n = a * n + c * n /\ c * n \in Nat  OBVIOUS
  <2>2. i \in Nat  OBVIOUS
  <2>3. (i + (L - i)) * n = i * n + (L - i) * n /\ (L - i) * n \in Nat
    BY <1>1, <2>1, <2>2
  <2> QED  BY <1>1, <2>3
<1> DEFINE total == L * n
           more == (L - i) * n
           top == i * n
<1>4. total = top + more /\ more \in Nat /\ top = b + n  BY <1>2, <1>3
<1> HIDE DEF b, total, more, top
<1>5. k \in 1..total /\ k - 1 \in Int /\ k \in Nat  BY <1>2, <1>4
<1>6. (k - 1) \div n = i - 1
  <2>1. n * (i - 1) <= k - 1 /\ k - 1 < n * (i - 1) + n  BY <1>2
  <2>2. i - 1 \in Int  OBVIOUS
  <2> HIDE DEF k
  <2> QED  BY <1>5, <2>1, <2>2, FloorIs
<1>7. ((k - 1) % n) + 1 = r
  <2> HIDE DEF k
  <2>1. k - 1 = n * ((k - 1) \div n) + ((k - 1) % n) /\ (k - 1) % n \in 0..n - 1
    BY <1>5, Floors
  <2>2. k - 1 = b + ((k - 1) % n)  BY <1>2, <1>6, <2>1
  <2> DEFINE rest == (k - 1) % n
  <2>3. rest \in 0..n - 1 /\ k - 1 = b + rest  BY <2>1, <2>2
  <2> HIDE DEF rest
  <2>4. rest + 1 = r  BY <1>2, <2>3 DEF k
  <2> QED  BY <2>4 DEF rest
<1>8. (k - 1) \div n + 1 = i  BY <1>6
<1>9. b + 1 \in Int /\ top \in Int /\ b + 1 <= top /\ top - (b + 1) + 1 = n
  BY <1>2, <1>4
<1> QED  BY <1>5, <1>7, <1>8, <1>9 DEF b, total, top

(* How many reads a pool takes, and which.                                 *)
LEMMA ReadsAre ==
  ASSUME source \in {"UniswapV3", "UniswapV4", "Slipstream"}
  PROVE  /\ Stride \in Nat \ {0}
         /\ \A r \in 1..Stride :
              Reads[r] \in {"slot0", "liquidity", "fee", "tickSpacing"}
<1>1. CASE source = "UniswapV3"  BY <1>1 DEF Stride, Reads, UniswapV3Reads
<1>2. CASE source = "UniswapV4"  BY <1>2 DEF Stride, Reads, UniswapV4Reads
<1>3. CASE source = "Slipstream"  BY <1>3 DEF Stride, Reads, SlipstreamReads
<1> QED  BY <1>1, <1>2, <1>3

(* The results of a pool none of whose reads failed decode to its state.   *)
LEMMA StateIs ==
  ASSUME source \in {"UniswapV3", "UniswapV4", "Slipstream"}, NEW id, NEW chain \in Chain,
         NEW read, \A r \in 1..Stride : read[r] = Answered(Reads[r], chain)
  PROVE  StateOf(id, read) = StateFor(id, chain)
<1>a. /\ Answered("slot0", chain).price = chain.price
      /\ Answered("slot0", chain).tick = chain.tick
      /\ Answered("slot0", chain).fee = chain.fee
      /\ Answered("liquidity", chain) = chain.liquidity
      /\ Answered("fee", chain) = chain.fee[TRUE]
      /\ Answered("tickSpacing", chain) = Spacing
  BY DEF Answered
<1>1. CASE source = "UniswapV3"
  <2>1. read[1] = Answered("slot0", chain) /\ read[2] = Answered("liquidity", chain)
        /\ read[3] = Answered("fee", chain) /\ read[4] = Answered("tickSpacing", chain)
    BY <1>1 DEF Stride, Reads, UniswapV3Reads
  <2>2. StateOf(id, read) = UniswapV3State(id, read)  BY <1>1 DEF StateOf
  <2>3. StateFor(id, chain).fee = chain.fee[TRUE]
    BY <1>1 DEF StateFor
  <2> QED  BY <1>a, <1>1, <2>1, <2>2, <2>3 DEF UniswapV3State, StateFor
<1>2. CASE source = "UniswapV4"
  <2>1. read[1] = Answered("slot0", chain) /\ read[2] = Answered("liquidity", chain)
    BY <1>2 DEF Stride, Reads, UniswapV4Reads
  <2>2. StateOf(id, read) = UniswapV4State(id, read)  BY <1>2 DEF StateOf
  <2>3. StateFor(id, chain).fee = chain.fee
    BY <1>2 DEF StateFor
  <2> QED  BY <1>a, <1>2, <2>1, <2>2, <2>3 DEF UniswapV4State, StateFor
<1>3. CASE source = "Slipstream"
  <2>1. read[1] = Answered("slot0", chain) /\ read[2] = Answered("fee", chain)
        /\ read[3] = Answered("liquidity", chain) /\ read[4] = Answered("tickSpacing", chain)
    BY <1>3 DEF Stride, Reads, SlipstreamReads
  <2>2. StateOf(id, read) = SlipstreamState(id, read)  BY <1>3 DEF StateOf
  <2>3. StateFor(id, chain).fee = chain.fee[TRUE]
    BY <1>3 DEF StateFor
  <2> QED  BY <1>a, <1>3, <2>1, <2>2, <2>3 DEF SlipstreamState, StateFor
<1> QED  BY <1>1, <1>2, <1>3

(* The reads of round 1, answered from a block. *)
FirstReads(block) ==
  [ k \in 1..(Len(Kept) * Stride) |->
      Answered(Reads[((k - 1) % Stride) + 1], block[Kept[(k - 1) \div Stride + 1]]) ]

(* The slices of the keys that are read, and where in the list of keys     *)
(* they are.                                                               *)
LEMMA KeptAre ==
  ASSUME Requested
  PROVE  /\ Len(Kept) \in Nat
         /\ \E pos : /\ pos \in [1..Len(Kept) -> 1..Len(keys)]
                     /\ \A i, j \in 1..Len(Kept) : i < j => pos[i] < pos[j]
                     /\ \A i \in 1..Len(Kept) : Kept[i] = keys[pos[i]]
                     /\ \A k \in Quotable : \E i \in 1..Len(Kept) : pos[i] = k
<1> DEFINE S == IF source = "UniswapV4" THEN Parsed \cap TwoAssets ELSE Parsed
<1>1. keys \in Seq(PoolId)  BY DEF Requested
<1>2. Kept = Passing(keys, S)  BY DEF Kept
<1>s. Parsed \cap TwoAssets \subseteq S  OBVIOUS
<1> HIDE DEF S
<1>3. Kept \in Seq(PoolId)  BY <1>1, <1>2, PassingPicks
<1>4. PICK pos : Picks(Kept, keys, S, Len(keys), pos)  BY <1>1, <1>2, PassingPicks
<1>5. Len(Kept) \in Nat  BY <1>3, LenProperties
<1> QED  BY <1>4, <1>5, <1>s DEF Picks, Quotable

LEMMA SlicesAre ==
  ASSUME Requested, NEW block, IsBlock(block), NEW lost, NEW i \in 1..Len(Kept)
  PROVE  LET slice == Slice(Batch(FirstReads(block), lost), i)
         IN  \A r \in 1..Stride :
               /\ slice[r] = IF (i - 1) * Stride + r \in lost THEN None
                             ELSE Answered(Reads[r], block[Kept[i]])
               /\ Answered(Reads[r], block[Kept[i]]) # None
<1> DEFINE L == Len(Kept)
           n == Stride
           results == Batch(FirstReads(block), lost)
           D == {results[k] : k \in DOMAIN results}
           low == (i - 1) * n + 1
           high == i * n
<1>1. L \in Nat /\ Kept[i] \in ToSet(keys)
  <2>1. PICK pos : /\ pos \in [1..Len(Kept) -> 1..Len(keys)]
                   /\ \A j \in 1..Len(Kept) : Kept[j] = keys[pos[j]]
    BY KeptAre
  <2>2. keys \in Seq(PoolId)  BY DEF Requested
  <2> QED  BY <2>1, <2>2, KeptAre DEF ToSet
<1>2. n \in Nat \ {0} /\ \A r \in 1..n :
        Reads[r] \in {"slot0", "liquidity", "fee", "tickSpacing"}
  BY ReadsAre DEF Requested
<1>3. block[Kept[i]] \in Chain  BY <1>1 DEF IsBlock
<1>4. /\ DOMAIN results = 1..(L * n)
      /\ \A k \in 1..(L * n) :
           results[k] = IF k \in lost THEN None
                        ELSE Answered(Reads[((k - 1) % n) + 1],
                                      block[Kept[(k - 1) \div n + 1]])
  BY DEF Batch, FirstReads
<1> HIDE DEF results, n, L
<1>5. \A r \in 1..n : LET k == (i - 1) * n + r
         IN  /\ k \in 1..(L * n) /\ k \in Nat
             /\ (k - 1) \div n + 1 = i /\ ((k - 1) % n) + 1 = r
             /\ (i - 1) * n + 1 \in Int /\ i * n \in Int
             /\ (i - 1) * n + 1 <= i * n
             /\ i * n - ((i - 1) * n + 1) + 1 = n
  BY <1>1, <1>2, SliceAt DEF L
<1>6. /\ low \in Int /\ high \in Int /\ high - low + 1 = n /\ low <= high
  <2>1. 1 \in 1..n  BY <1>2
  <2> QED  BY <1>5, <2>1
<1>7. ASSUME NEW k \in low..high PROVE results[k] \in D
  <2> DEFINE r == k - low + 1
             base == (i - 1) * n
  <2>0. base + 1 \in Int  BY <1>6
  <2>1. r \in 1..n  BY <1>2, <1>6
  <2>2. (i - 1) * n + r = k
    <3> HIDE DEF base
    <3>1. base \in Int
      <4>1. \A m \in Nat, j \in Nat : m * j \in Int  OBVIOUS
      <4>2. i - 1 \in Nat  BY <1>1
      <4> QED  BY <1>2, <4>1, <4>2 DEF base
    <3>2. low = base + 1  BY DEF base
    <3> HIDE DEF low
    <3>3. k \in Int  BY <1>6
    <3>4. base + r = k  BY <3>1, <3>2, <3>3
    <3> QED  BY <3>4 DEF base
  <2> HIDE DEF r, low, high
  <2>3. k \in DOMAIN results  BY <1>4, <1>5, <2>1, <2>2
  <2> QED  BY <2>3
<1> HIDE DEF D
<1>8. ASSUME NEW r \in 1..n
      PROVE  Slice(results, i)[r] = results[(i - 1) * n + r]
  <2>1. Slice(results, i) = SubSeq(results, low, high)  BY DEF Slice, n
  <2> DEFINE base == (i - 1) * n
  <2>2. base \in Int /\ low = base + 1  BY <1>6
  <2> HIDE DEF base
  <2>3. low + r - 1 = base + r  BY <1>2, <2>2
  <2> HIDE DEF low, high
  <2>4. \A q \in 1..high - low + 1 : SubSeq(results, low, high)[q] = results[low + q - 1]
    BY <1>6, <1>7, SubSeqProperties
  <2>5. r \in 1..high - low + 1  BY <1>6
  <2> QED  BY <2>1, <2>3, <2>4, <2>5 DEF base
<1>9. ASSUME NEW r \in 1..n
      PROVE  /\ Slice(results, i)[r] = IF (i - 1) * n + r \in lost THEN None
                                       ELSE Answered(Reads[r], block[Kept[i]])
             /\ Answered(Reads[r], block[Kept[i]]) # None
  <2> DEFINE k == (i - 1) * n + r
  <2>1. k \in 1..(L * n) /\ (k - 1) \div n + 1 = i /\ ((k - 1) % n) + 1 = r  BY <1>5
  <2>2. Slice(results, i)[r] = results[k]  BY <1>8
  <2> HIDE DEF k
  <2>3. results[k] = IF k \in lost THEN None ELSE Answered(Reads[r], block[Kept[i]])
    BY <1>4, <2>1
  <2>4. Answered(Reads[r], block[Kept[i]]) # None  BY <1>2, <1>3, AnswerAssumption
  <2> QED  BY <2>2, <2>3, <2>4 DEF k
<1> QED  BY <1>9 DEF results, n

(* A set has at most as many elements as one that stands for all of them.  *)
LEMMA Covered ==
  ASSUME NEW G, NEW T, IsFiniteSet(T), NEW who, \A k \in G : \E t \in T : who[t] = k
  PROVE  IsFiniteSet(G) /\ Cardinality(G) <= Cardinality(T)
<1> DEFINE f == [k \in G |-> CHOOSE t \in T : who[t] = k]
<1>1. \A k \in G : f[k] \in T /\ who[f[k]] = k  OBVIOUS
<1>2. f \in [G -> T]  BY <1>1
<1> HIDE DEF f
<1>3. \A a, b \in G : f[a] = f[b] => a = b
  <2> SUFFICES ASSUME NEW a \in G, NEW b \in G, f[a] = f[b] PROVE a = b
    OBVIOUS
  <2>1. who[f[a]] = a /\ who[f[b]] = b  BY <1>1
  <2> QED  BY <2>1
<1>4. f \in Injection(G, T)  BY <1>2, <1>3 DEF Injection, IsInjective
<1> QED  BY <1>4, FS_Injection

(* At most as many keys are missing as reads failed: each that is missing  *)
(* lost a read of its own slice.                                           *)
Accounted(G, N, here, lost, who) ==
  \A k \in G : (\E i \in 1..N : here[i] = k) \/ (\E x \in lost : who[x] = k)

LEMMA FewMissing ==
  ASSUME NEW G, NEW M \in Nat, NEW lost, IsFiniteSet(lost), Cardinality(lost) <= M,
         NEW N \in Nat, NEW here, NEW who, Accounted(G, N, here, lost, who)
  PROVE  Cardinality(G) <= N + M
<1> DEFINE H == {k \in G : \E i \in 1..N : here[i] = k}
           K == G \ H
<1>1. IsFiniteSet(1..N) /\ Cardinality(1..N) = N
  <2>1. 1 \in Int /\ N \in Int  OBVIOUS
  <2>2. IsFiniteSet(1..N) /\ Cardinality(1..N) = IF 1 > N THEN 0 ELSE N - 1 + 1
    BY <2>1, FS_Interval, Zenon
  <2> QED  BY <2>2
<1>2. \A k \in H : \E i \in 1..N : here[i] = k  OBVIOUS
<1>3. \A k \in K : \E x \in lost : who[x] = k  BY DEF Accounted
<1>4. G = H \cup K /\ H \cap K = {}  OBVIOUS
<1> HIDE DEF H, K
<1>5. IsFiniteSet(H) /\ Cardinality(H) <= N
  <2>1. IsFiniteSet(H) /\ Cardinality(H) <= Cardinality(1..N)
    BY <1>1, <1>2, Covered, Zenon
  <2> QED  BY <1>1, <2>1
<1>6. IsFiniteSet(K) /\ Cardinality(K) <= Cardinality(lost)  BY <1>3, Covered, Zenon
<1>7. Cardinality(H) \in Nat /\ Cardinality(K) \in Nat /\ Cardinality(lost) \in Nat
  BY <1>5, <1>6, FS_CardinalityType
<1>8. Cardinality(H \cup K) = Cardinality(H) + Cardinality(K) - Cardinality({})
  BY <1>4, <1>5, <1>6, FS_Union
<1>9. Cardinality({}) = 0  BY FS_EmptySet
<1> QED  BY <1>4, <1>5, <1>6, <1>7, <1>8, <1>9

LEMMA Round1Decodes ==
  ASSUME Requested, NEW block, IsBlock(block), NEW lost \in Losses(Len(Kept) * Stride)
  PROVE  \E from : Decodes(DecodeStates(Batch(FirstReads(block), lost)), block, from)
<1> DEFINE L == Len(Kept)
           n == Stride
           results == Batch(FirstReads(block), lost)
           all == [i \in 1..L |-> i]
           order == Passing(all, Decoded(results))
           list == DecodeStates(results)
<1>1. PICK pos : /\ pos \in [1..L -> 1..Len(keys)]
                 /\ \A i, j \in 1..L : i < j => pos[i] < pos[j]
                 /\ \A i \in 1..L : Kept[i] = keys[pos[i]]
                 /\ \A k \in Quotable : \E i \in 1..L : pos[i] = k
  BY KeptAre
<1>2. L \in Nat /\ n \in Nat \ {0}  BY KeptAre, ReadsAre DEF Requested
<1>3. \A i \in 1..L : \A r \in 1..n :
        /\ Slice(results, i)[r] = IF (i - 1) * n + r \in lost THEN None
                                  ELSE Answered(Reads[r], block[Kept[i]])
        /\ Answered(Reads[r], block[Kept[i]]) # None
  BY SlicesAre DEF n
<1>4. \A i \in 1..L : Kept[i] \in ToSet(keys) /\ block[Kept[i]] \in Chain
  <2> SUFFICES ASSUME NEW i \in 1..L PROVE Kept[i] \in ToSet(keys) /\ block[Kept[i]] \in Chain
    OBVIOUS
  <2>1. keys \in Seq(PoolId)  BY DEF Requested
  <2>2. Kept[i] \in ToSet(keys)  BY <1>1, <2>1 DEF ToSet
  <2> QED  BY <2>2 DEF IsBlock
<1>5. list = [j \in 1..Len(order) |-> StateOf(Kept[order[j]], Slice(results, order[j]))]
  BY DEF DecodeStates
<1>6. Decoded(results) = { i \in 1..L : /\ Kept[i] \in TwoAssets
                                        /\ \A r \in 1..n : Slice(results, i)[r] # None }
  BY DEF Decoded
<1> HIDE DEF results, L, n
<1>7. all \in Seq(1..L) /\ Len(all) = L /\ \A i \in 1..L : all[i] = i
  <2>1. all \in [1..L -> 1..L]  OBVIOUS
  <2>2. all \in Seq(1..L)
    <3> HIDE DEF all
    <3> QED  BY <1>2, <2>1, SeqDef
  <2> QED  BY <1>2, <2>2, LenProperties
<1> HIDE DEF all
<1>8. order \in Seq(1..L)  BY <1>7, PassingPicks
<1>9. PICK ord : Picks(order, all, Decoded(results), L, ord)
  BY <1>7, PassingPicks
<1>10. Len(order) \in Nat  BY <1>8, LenProperties
<1> HIDE DEF order, list
<1>11. \A j \in 1..Len(order) : order[j] = ord[j] /\ ord[j] \in 1..L /\ ord[j] \in Decoded(results)
  BY <1>7, <1>9 DEF Picks
<1>12. Len(list) = Len(order) /\ DOMAIN list = 1..Len(list)
  <2> DEFINE D == {StateOf(Kept[order[j]], Slice(results, order[j])) : j \in 1..Len(order)}
  <2>1. list \in [1..Len(order) -> D]  BY <1>5
  <2> HIDE DEF D
  <2>2. list \in Seq(D)  BY <1>10, <2>1, SeqDef
  <2> QED  BY <1>5, <1>10, <2>2, LenProperties
<1> DEFINE from == [j \in 1..Len(list) |-> pos[order[j]]]
<1>13. \A j \in 1..Len(list) : from[j] = pos[ord[j]] /\ from[j] \in 1..Len(keys)
  BY <1>1, <1>11, <1>12
<1>14. from \in [1..Len(list) -> 1..Len(keys)]
  <2>1. from = [j \in 1..Len(list) |-> from[j]]  OBVIOUS
  <2> HIDE DEF from
  <2> QED  BY <1>13, <2>1
<1> HIDE DEF from
<1>15. \A i, j \in 1..Len(list) : i < j => from[i] < from[j]
  <2> SUFFICES ASSUME NEW i \in 1..Len(list), NEW j \in 1..Len(list), i < j
               PROVE  from[i] < from[j]
    OBVIOUS
  <2>1. ord[i] < ord[j]  BY <1>9, <1>12 DEF Picks
  <2> QED  BY <1>1, <1>11, <1>12, <1>13, <2>1
<1>16. ASSUME NEW j \in 1..Len(list)
       PROVE  list[j] = StateFor(keys[from[j]], block[keys[from[j]]])
  <2> DEFINE i == ord[j]
             read == Slice(results, i)
  <2>1. i \in 1..L /\ i \in Decoded(results) /\ order[j] = i /\ from[j] = pos[i]
    BY <1>11, <1>12, <1>13
  <2>2. \A r \in 1..n : read[r] # None  BY <1>6, <2>1
  <2>3. list[j] = StateOf(Kept[i], read)  BY <1>5, <1>12, <2>1
  <2> HIDE DEF i
  <2>4. \A r \in 1..n : read[r] = Answered(Reads[r], block[Kept[i]])  BY <1>3, <2>1, <2>2
  <2> HIDE DEF read
  <2>5. StateOf(Kept[i], read) = StateFor(Kept[i], block[Kept[i]])
    BY <1>4, <2>1, <2>4, StateIs DEF Requested, n
  <2>6. Kept[i] = keys[from[j]]  BY <1>1, <2>1
  <2> QED  BY <2>3, <2>5, <2>6
<1>17. Cardinality(Quotable) <= Len(list) + MaxLost
  <2> DEFINE who == [x \in 1..(L * n) |-> pos[(x - 1) \div n + 1]]
  <2>1. IsFiniteSet(lost) /\ Cardinality(lost) <= MaxLost /\ lost \subseteq 1..(L * n)
    <3>1. lost \subseteq 1..(L * n) /\ Cardinality(lost) <= MaxLost  BY DEF Losses, L, n
    <3>2. L * n \in Int
      <4>1. \A a, b \in Nat : a * b \in Int  OBVIOUS
      <4> QED  BY <1>2, <4>1
    <3> DEFINE top == L * n
    <3> HIDE DEF top
    <3>3. top \in Int /\ lost \in SUBSET (1..top)  BY <3>1, <3>2 DEF top
    <3>4. 1 \in Int  OBVIOUS
    <3>5. IsFiniteSet(1..top)  BY <3>3, <3>4, FS_Interval, Zenon
    <3> QED  BY <3>1, <3>3, <3>5, FS_Subset
  <2>2. ASSUME NEW k \in Quotable
        PROVE  \/ \E j \in 1..Len(list) : from[j] = k
               \/ \E x \in lost : who[x] = k
    <3>1. PICK i \in 1..L : pos[i] = k  BY <1>1
    <3>2. Kept[i] \in TwoAssets  BY <1>1, <3>1 DEF Quotable
    <3>3. CASE i \in Decoded(results)
      <4>1. all[i] = i /\ Len(order) = Len(list)  BY <1>7, <1>12
      <4>2. PICK j \in 1..Len(order) : ord[j] = i  BY <1>9, <3>3, <4>1 DEF Picks
      <4> QED  BY <1>12, <1>13, <3>1, <4>2
    <3>4. CASE i \notin Decoded(results)
      <4>1. PICK r \in 1..n : Slice(results, i)[r] = None  BY <1>6, <3>2, <3>4
      <4> DEFINE x == (i - 1) * n + r
      <4>2. x \in lost  BY <1>3, <4>1
      <4>3. x \in 1..(L * n) /\ (x - 1) \div n + 1 = i  BY <1>2, SliceAt
      <4> HIDE DEF x
      <4>4. who[x] = k  BY <3>1, <4>3
      <4> QED  BY <4>2, <4>4
    <3> QED  BY <3>3, <3>4
  <2> HIDE DEF who
  <2>3. MaxLost \in Nat /\ Len(list) \in Nat  BY <1>10, <1>12, SourceAssumption
  <2>4. \A k \in Quotable : \/ \E j \in 1..Len(list) : from[j] = k
                            \/ \E x \in lost : who[x] = k
    BY <2>2
  <2> DEFINE N == Len(list)
  <2>5. N \in Nat /\ Accounted(Quotable, N, from, lost, who)
    BY <2>3, <2>4 DEF Accounted
  <2> HIDE DEF N
  <2>6. Cardinality(Quotable) <= N + MaxLost
    BY <2>1, <2>3, <2>5, FewMissing
  <2> QED  BY <2>6 DEF N
<1>18. Decodes(list, block, from)
  BY <1>10, <1>12, <1>14, <1>15, <1>16, <1>17 DEF Decodes
<1>19. \E f : Decodes(list, block, f)  BY <1>18
<1> QED  BY <1>19 DEF list, results

-----------------------------------------------------------------------------
(* The second round. *)

LEMMA TruncDivIs ==
  ASSUME NEW x \in Int
  PROVE  /\ TruncDiv(x, Spacing) \in Int /\ Center(x) = Spacing * TruncDiv(x, Spacing)
         /\ Center(x) \in Int /\ Center(x) - Spacing < x /\ x < Center(x) + Spacing
<1>0. Spacing \in Nat \ {0}  BY TicksAssumption
<1>1. x \div Spacing \in Int /\ Spacing * (x \div Spacing) <= x
      /\ x < Spacing * (x \div Spacing) + Spacing
  BY <1>0, Floors
<1>2. -x \in Int  OBVIOUS
<1>3. (-x) \div Spacing \in Int /\ Spacing * ((-x) \div Spacing) <= -x
      /\ -x < Spacing * ((-x) \div Spacing) + Spacing
  BY <1>0, <1>2, Floors
<1> DEFINE q == x \div Spacing
           d == (-x) \div Spacing
           t == TruncDiv(x, Spacing)
<1>4. t = IF x >= 0 THEN q ELSE -d  BY DEF TruncDiv
<1>5. Center(x) = t * Spacing  BY DEF Center
<1> HIDE DEF q, d, t
<1>6. q \in Int /\ d \in Int  BY <1>1, <1>3 DEF q, d
<1>7. t \in Int  BY <1>4, <1>6
<1>8. Center(x) = Spacing * t /\ Spacing * t \in Int  BY <1>0, <1>5, <1>7, Multiples
<1>9. Spacing * (-d) = -(Spacing * d) /\ Spacing * d \in Int /\ Spacing * q \in Int
  BY <1>0, <1>6
<1>10. Center(x) - Spacing < x /\ x < Center(x) + Spacing
  <2>1. CASE x >= 0  BY <1>0, <1>1, <1>4, <1>8, <1>9, <2>1 DEF q
  <2>2. CASE ~(x >= 0)
    <3>1. Center(x) = -(Spacing * d)  BY <1>4, <1>8, <1>9, <2>2
    <3> QED  BY <1>0, <1>3, <1>9, <3>1 DEF d
  <2> QED  BY <2>1, <2>2
<1> QED  BY <1>7, <1>8, <1>10 DEF t

(* The states that a refresh goes on with. *)
Continues ==
  /\ Len(states) \in Nat /\ DOMAIN states = 1..Len(states)
  /\ \A i \in 1..Len(states) : states[i].tick \in Int /\ states[i].spacing = Spacing

LEMMA RefsAre ==
  ASSUME Continues
  PROVE  /\ Len(Refs) \in Nat /\ DOMAIN Refs = 1..Len(Refs)
         /\ \A k \in 1..Len(Refs) :
              /\ Refs[k].state \in 1..Len(states)
              /\ \E m \in Int : Refs[k].tick = Spacing * m
<1> DEFINE D == [state : 1..Len(states), tick : {Spacing * m : m \in Int}]
           W == 2 * TickWindow + 1
           row(i) == [ j \in 1..W |->
                         [ state |-> i, tick |-> Center(states[i].tick)
                                          + (j - TickWindow - 1) * states[i].spacing ] ]
           rows == [i \in 1..Len(states) |-> row(i)]
<1>0. Spacing \in Nat \ {0} /\ TickWindow \in Nat \ {0}
  BY TicksAssumption, SourceAssumption
<1>1. W \in Nat  BY <1>0
<1>2. ASSUME NEW i \in 1..Len(states) PROVE row(i) \in Seq(D)
  <2> DEFINE one == row(i)
             q == TruncDiv(states[i].tick, Spacing)
  <2>1. q \in Int /\ Center(states[i].tick) = Spacing * q /\ states[i].spacing = Spacing
    BY TruncDivIs DEF Continues
  <2> HIDE DEF q
  <2>2. ASSUME NEW j \in 1..W PROVE one[j] \in D
    <3> DEFINE n == j - TickWindow - 1
    <3>1. n \in Int  BY <1>0
    <3> HIDE DEF n
    <3>2. Spacing * q + n * Spacing = Spacing * (q + n) /\ q + n \in Int
      <4>1. \A s, a, b \in Int : s * a + b * s = s * (a + b)  OBVIOUS
      <4> QED  BY <1>0, <2>1, <3>1, <4>1
    <3>3. one[j] = [state |-> i, tick |-> Spacing * q + n * Spacing]  BY <2>1 DEF n
    <3> HIDE DEF one
    <3> QED  BY <3>2, <3>3
  <2>3. one \in [1..W -> D]
    <3>1. one = [j \in 1..W |-> one[j]]  OBVIOUS
    <3> HIDE DEF one, D, W
    <3> QED  BY <2>2, <3>1
  <2>4. one \in Seq(D)
    <3> HIDE DEF one, D, W
    <3> QED  BY <1>1, <2>3, SeqDef
  <2> QED  BY <2>4
<1>3. rows \in Seq(Seq(D)) /\ Len(rows) = Len(states)
  <2>1. rows \in [1..Len(states) -> Seq(D)]
    <3> HIDE DEF D, row
    <3> QED  BY <1>2
  <2>2. DOMAIN rows = 1..Len(states)  OBVIOUS
  <2> HIDE DEF rows, D
  <2>3. rows \in Seq(Seq(D))  BY <2>1, SeqDef DEF Continues
  <2> QED  BY <2>2, <2>3, LenProperties DEF Continues
<1>4. Refs = FlattenSeq(rows)  BY DEF Refs
<1> HIDE DEF rows, D
<1>5. Refs \in Seq(D)  BY <1>3, <1>4, FlattenLists
<1>6. Len(Refs) \in Nat /\ DOMAIN Refs = 1..Len(Refs) /\ \A k \in 1..Len(Refs) : Refs[k] \in D
  BY <1>5, LenProperties
<1>7. \A k \in 1..Len(Refs) : /\ Refs[k].state \in 1..Len(states)
                              /\ \E m \in Int : Refs[k].tick = Spacing * m
  <2> SUFFICES ASSUME NEW k \in 1..Len(Refs)
               PROVE  /\ Refs[k].state \in 1..Len(states)
                      /\ \E m \in Int : Refs[k].tick = Spacing * m
    OBVIOUS
  <2>1. Refs[k].state \in 1..Len(states) /\ Refs[k].tick \in {Spacing * m : m \in Int}
    BY <1>6 DEF D
  <2> QED  BY <2>1
<1> QED  BY <1>6, <1>7

(* The ticks of a state: ticks that are initialized, with their liquidity. *)
Within(nets, chain) ==
  \A t \in DOMAIN nets : t \in DOMAIN chain.nets /\ nets[t] = chain.nets[t]

LEMMA NetsAre ==
  ASSUME Continues, NEW i \in 1..Len(states), NEW chain, IsChain(chain), NEW results,
         \A k \in 1..Len(Refs) : Refs[k].state = i =>
           results[k] \in {None, TickAnswered(Refs[k].tick, chain)}
  PROVE  LET nets == Nets(i, results)
         IN  /\ IsNets(nets) /\ Within(nets, chain)
             /\ \A t \in DOMAIN nets : \E m \in Int : t = Spacing * m
<1> DEFINE nets == Nets(i, results)
           found == { k \in 1..Len(Refs) : /\ Refs[k].state = i
                                           /\ results[k] \notin {None, Uninitialized} }
<1>1. nets = [ t \in {Refs[k].tick : k \in found} |->
                 results[CHOOSE k \in found : Refs[k].tick = t].net ]
  BY DEF Nets
<1>2. ASSUME NEW k \in found
      PROVE  Refs[k].tick \in DOMAIN chain.nets /\ results[k].net = chain.nets[Refs[k].tick]
  <2>1. results[k] = TickAnswered(Refs[k].tick, chain) /\ results[k] # Uninitialized
    OBVIOUS
  <2> QED  BY <2>1 DEF TickAnswered
<1>3. \A k \in found : k \in 1..Len(Refs)  OBVIOUS
<1> HIDE DEF found
<1>4. DOMAIN nets = {Refs[k].tick : k \in found}  BY <1>1
<1>5. ASSUME NEW t \in DOMAIN nets
      PROVE  /\ t \in DOMAIN chain.nets /\ nets[t] = chain.nets[t]
             /\ \E m \in Int : t = Spacing * m
  <2> DEFINE k == CHOOSE n \in found : Refs[n].tick = t
  <2>1. \E n \in found : Refs[n].tick = t  BY <1>4
  <2>2. k \in found /\ Refs[k].tick = t  BY <2>1
  <2>3. nets[t] = results[k].net  BY <1>1, <1>4
  <2> HIDE DEF k
  <2>4. \E m \in Int : Refs[k].tick = Spacing * m  BY <1>3, <2>2, RefsAre
  <2> QED  BY <1>2, <2>2, <2>3, <2>4
<1>6. IsNets(chain.nets)  BY DEF IsChain
<1>7. nets = [t \in DOMAIN nets |-> nets[t]]  BY <1>1
<1> HIDE DEF nets
<1>8. IsNets(nets)
  <2>1. DOMAIN nets \subseteq Tick /\ \A t \in DOMAIN nets : nets[t] \in Int
    BY <1>5, <1>6 DEF IsNets
  <2> QED  BY <1>7, <2>1 DEF IsNets
<1>9. Within(nets, chain)  BY <1>5 DEF Within
<1> QED  BY <1>5, <1>8, <1>9 DEF nets

(* A snapshot: of the price, the liquidity and the fee that the first      *)
(* block showed, and of ticks that the second showed around them.          *)
Snapshot(p, id, first, second) ==
  /\ p.id = id /\ p.protocol = source
  /\ p.supported = (source = "UniswapV4" => id \notin Hooked)
  /\ p.assets = first.assets /\ p.price = first.price /\ p.tick = first.tick
  /\ p.liquidity = first.liquidity
  /\ p.fee = IF source = "UniswapV4" THEN first.fee ELSE first.fee[TRUE]
  /\ p.data = TickData(p.data.nets, first.tick, TickWindow)
  /\ Mapped(p.data) /\ Within(p.data.nets, second)

(* The reads of round 2, answered from a block. *)
SecondReads(block) ==
  [ k \in DOMAIN Refs |-> TickAnswered(Refs[k].tick, block[states[Refs[k].state].id]) ]

LEMMA SnapshotIs ==
  ASSUME Requested, NEW first, IsBlock(first), NEW second, IsBlock(second),
         NEW from, Decodes(states, first, from), NEW lost, NEW i \in 1..Len(states)
  PROVE  /\ states[i].id = keys[from[i]] /\ states[i].id \in ToSet(keys)
         /\ Snapshot(BuildPool(i, Batch(SecondReads(second), lost)), states[i].id,
                     first[states[i].id], second[states[i].id])
<1> DEFINE results == Batch(SecondReads(second), lost)
           id == keys[from[i]]
           nets == Nets(i, results)
           p == BuildPool(i, results)
<1>1. keys \in Seq(PoolId)  BY DEF Requested
<1>2. \A j \in 1..Len(states) : /\ keys[from[j]] \in ToSet(keys)
                                /\ states[j] = StateFor(keys[from[j]], first[keys[from[j]]])
  BY <1>1 DEF Decodes, ToSet
<1>3. Continues
  <2> SUFFICES ASSUME NEW j \in 1..Len(states)
               PROVE  states[j].tick \in Int /\ states[j].spacing = Spacing
    BY DEF Continues, Decodes
  <2> DEFINE chain == first[keys[from[j]]]
  <2>1. chain.tick \in Int
    <3>1. IsChain(chain)  BY <1>2 DEF IsBlock
    <3> HIDE DEF chain
    <3>2. chain.tick \in Tick  BY <3>1 DEF IsChain
    <3>3. \A t \in Tick : t \in Int  BY TicksAssumption DEF Tick
    <3> QED  BY <3>2, <3>3
  <2>2. states[j] = StateFor(keys[from[j]], chain)  BY <1>2
  <2> HIDE DEF chain
  <2> QED  BY <2>1, <2>2 DEF StateFor
<1>4. states[i] = StateFor(id, first[id]) /\ id \in ToSet(keys)  BY <1>2
<1>5. states[i].id = id  BY <1>4 DEF StateFor
<1>6. IsChain(second[id]) /\ first[id].assets = heads[id].assets  BY <1>4 DEF IsBlock
<1> HIDE DEF id
<1>7. \A k \in 1..Len(Refs) : Refs[k].state = i =>
        results[k] \in {None, TickAnswered(Refs[k].tick, second[id])}
  <2> SUFFICES ASSUME NEW k \in 1..Len(Refs), Refs[k].state = i
               PROVE  results[k] \in {None, TickAnswered(Refs[k].tick, second[id])}
    OBVIOUS
  <2>1. k \in DOMAIN Refs  BY <1>3, RefsAre
  <2>2. results[k] = IF k \in lost THEN None
                     ELSE TickAnswered(Refs[k].tick, second[states[Refs[k].state].id])
    BY <2>1 DEF Batch, SecondReads
  <2> QED  BY <1>5, <2>2
<1> HIDE DEF results
<1>8. /\ IsNets(nets) /\ Within(nets, second[id])
      /\ \A t \in DOMAIN nets : \E m \in Int : t = Spacing * m
  BY <1>3, <1>6, <1>7, NetsAre
<1>9. p = [ id |-> states[i].id, protocol |-> source,
            supported |-> (source = "UniswapV4" => states[i].id \notin Hooked),
            assets |-> heads[states[i].id].assets, price |-> states[i].price,
            tick |-> states[i].tick, liquidity |-> states[i].liquidity,
            fee |-> states[i].fee, data |-> TickData(nets, states[i].tick, TickWindow) ]
  BY DEF BuildPool
<1> HIDE DEF nets, p
<1>10. /\ p.id = id /\ p.protocol = source
       /\ p.assets = first[id].assets /\ p.price = first[id].price
       /\ p.tick = first[id].tick /\ p.liquidity = first[id].liquidity
       /\ p.data = TickData(nets, first[id].tick, TickWindow)
  BY <1>4, <1>5, <1>6, <1>9 DEF StateFor
<1>11. p.supported = (source = "UniswapV4" => id \notin Hooked)  BY <1>5, <1>9
<1>12. p.fee = IF source = "UniswapV4" THEN first[id].fee ELSE first[id].fee[TRUE]
  BY <1>4, <1>9 DEF StateFor
<1>13. p.data.nets = nets /\ p.data.bits = {Compressed(t) : t \in DOMAIN nets}
  BY <1>10 DEF TickData
<1>14. Mapped(p.data)  BY <1>8, <1>13 DEF Mapped
<1>15. Snapshot(p, id, first[id], second[id])
  BY <1>8, <1>10, <1>11, <1>12, <1>13, <1>14 DEF Snapshot
<1> QED  BY <1>4, <1>5, <1>15 DEF p, results, id

(* Where a refresh stands: which blocks it has read and what it has made   *)
(* of them.                                                                *)
Decoded1(block) == \E from : Decodes(states, block, from)

Rounds ==
  /\ stage \in {"Idle", "Round1", "Built", "Failed"}
  /\ Len(blocks) \in 0..2 /\ \A n \in 1..Len(blocks) : IsBlock(blocks[n])
  /\ stage = "Idle" => blocks = <<>>
  /\ stage = "Round1" => blocks = <<blocks[1]>> /\ Len(blocks) = 1
  /\ stage = "Built" => Len(blocks) = 2
  /\ IF Len(blocks) = 0 THEN states = <<>> ELSE Decoded1(blocks[1])
  /\ IF stage # "Built" THEN built = <<>>
     ELSE /\ Len(built) = Len(states)
          /\ \A i \in 1..Len(states) :
               Snapshot(built[i], states[i].id, blocks[1][states[i].id],
                        blocks[2][states[i].id])

SourceInv == Requested /\ Rounds

LEMMA InitSource == Init => SourceInv
<1> SUFFICES ASSUME Init PROVE SourceInv
  OBVIOUS
<1>1. PICK one \in Requests : source = one.source /\ keys = one.keys /\ heads = one.heads
  BY DEF Init
<1>2. /\ source \in {"UniswapV3", "UniswapV4", "Slipstream"}
      /\ keys \in Seq(PoolId) /\ heads \in [ToSet(keys) -> Chain]
      /\ source # "UniswapV4" => \A id \in DOMAIN heads : SameFee(heads[id])
  BY <1>1, SourceAssumption
<1>3. \A id \in ToSet(keys) : IsChain(heads[id])  BY <1>2, SourceAssumption
<1>4. IsBlock(heads)  BY <1>2, <1>3 DEF IsBlock
<1>5. Requested  BY <1>2, <1>4 DEF Init, Requested
<1>6. Rounds
  <2>1. stage = "Idle" /\ blocks = <<>> /\ states = <<>> /\ built = <<>>  BY DEF Init
  <2> QED  BY <2>1 DEF Rounds
<1> QED  BY <1>5, <1>6 DEF SourceInv

(* What stays as it is as long as the keys and their assets do.            *)
LEMMA BlocksStay ==
  ASSUME source' = source, keys' = keys,
         \A id \in ToSet(keys) : heads'[id].assets = heads[id].assets,
         NEW block, IsBlock(block)
  PROVE  IsBlock(block)'
<1>1. ToSet(keys)' = ToSet(keys)  BY DEF ToSet
<1> QED  BY <1>1 DEF IsBlock, SameFee, IsChain, IsNets

LEMMA DecodedStays ==
  ASSUME UNCHANGED <<keys, source, states, blocks>>, Decoded1(blocks[1])
  PROVE  Decoded1(blocks[1])'
<1>1. PICK from : Decodes(states, blocks[1], from)  BY DEF Decoded1
<1>2. Decodes(states, blocks[1], from)'  BY <1>1 DEF Decodes, StateFor, Quotable
<1> QED  BY <1>2 DEF Decoded1

LEMMA SourceStays ==
  ASSUME SourceInv, UNCHANGED <<source, keys, at, blocks, states, built>>,
         \A id \in ToSet(keys) : heads'[id].assets = heads[id].assets, IsBlock(heads)',
         stage' \in {stage, "Failed"}, stage # "Built" \/ stage' = stage
  PROVE  SourceInv'
<1> USE DEF SourceInv
<1>2. Requested'
  <2>1. at # None => IsBlock(at)'  BY BlocksStay DEF Requested
  <2> QED  BY <2>1 DEF Requested
<1>3. Rounds'
  <2>1. \A n \in 1..Len(blocks) : IsBlock(blocks[n])'  BY BlocksStay DEF Rounds
  <2>2. IF Len(blocks) = 0 THEN states = <<>> ELSE Decoded1(blocks[1])'
    BY DecodedStays DEF Rounds
  <2>3. stage = "Built" =>
          \A i \in 1..Len(states) :
               Snapshot(built[i], states[i].id, blocks[1][states[i].id],
                        blocks[2][states[i].id])'
    BY DEF Rounds, Snapshot
  <2> QED  BY <2>1, <2>2, <2>3 DEF Rounds
<1> QED  BY <1>2, <1>3

LEMMA BlockIs == ASSUME Requested PROVE IsBlock(Block)
BY DEF Requested, Block

LEMMA SourceRound1 == ASSUME SourceInv, Round1 PROVE SourceInv'
<1> USE DEF SourceInv
<1>1. /\ stage = "Idle" /\ blocks' = <<Block>> /\ stage' = "Round1"
      /\ UNCHANGED <<source, keys, heads, at, built>>
  BY DEF Round1
<1>2. PICK lost \in Losses(Len(Kept) * Stride) :
        states' = DecodeStates(Batch(FirstReads(Block), lost))
  BY DEF Round1, FirstReads
<1>3. IsBlock(Block)  BY BlockIs
<1>4. PICK from : Decodes(states', Block, from)
  BY <1>2, <1>3, Round1Decodes
<1>5. Len(blocks') = 1 /\ blocks'[1] = Block /\ blocks' = <<blocks'[1]>>  BY <1>1
<1>6. \A block : IsBlock(block) => IsBlock(block)'  BY <1>1, BlocksStay
<1>7. Requested'  BY <1>1, <1>6 DEF Requested
<1>8. Decoded1(blocks[1])'
  <2>1. Decodes(states, blocks[1], from)'
    BY <1>1, <1>4, <1>5 DEF Decodes, StateFor, Quotable
  <2> QED  BY <2>1 DEF Decoded1
<1>9. \A n \in 1..Len(blocks)' : IsBlock(blocks[n])'
  <2>1. IsBlock(blocks[1])'
    <3>1. Block \in [ToSet(keys) -> Chain]  BY <1>3 DEF IsBlock
    <3>2. ToSet(keys)' = ToSet(keys)  BY <1>1 DEF ToSet
    <3> QED  BY <1>1, <1>3, <1>5, <3>2 DEF IsBlock, SameFee, IsChain, IsNets
  <2> QED  BY <1>5, <2>1
<1>10. Rounds'
  <2>1. built' = <<>>  BY <1>1 DEF Rounds
  <2> QED  BY <1>1, <1>5, <1>8, <1>9, <2>1 DEF Rounds
<1> QED  BY <1>7, <1>10

LEMMA SourceRound2 == ASSUME SourceInv, Round2 PROVE SourceInv'
<1> USE DEF SourceInv
<1>1. /\ stage = "Round1" /\ blocks' = Append(blocks, Block) /\ stage' = "Built"
      /\ UNCHANGED <<source, keys, heads, at, states>>
  BY DEF Round2
<1>2. PICK lost \in Losses(Len(Refs)) :
        built' = [i \in 1..Len(states) |-> BuildPool(i, Batch(SecondReads(Block), lost))]
  BY DEF Round2, SecondReads
<1>3. IsBlock(Block)  BY BlockIs
<1>4. IsBlock(blocks[1]) /\ blocks = <<blocks[1]>> /\ Len(blocks) = 1 /\ Decoded1(blocks[1])
  BY <1>1 DEF Rounds
<1>5. PICK from : Decodes(states, blocks[1], from)  BY <1>4 DEF Decoded1
<1> DEFINE first == blocks[1]
           second == Block
<1>6. Len(blocks') = 2 /\ blocks'[1] = first /\ blocks'[2] = second
  <2>1. blocks' = Append(<<first>>, second)  BY <1>1, <1>4
  <2> HIDE DEF first, second
  <2> QED  BY <2>1
<1>7. ASSUME NEW i \in 1..Len(states)
      PROVE  Snapshot(built'[i], states[i].id, first[states[i].id], second[states[i].id])
  <2>1. built'[i] = BuildPool(i, Batch(SecondReads(Block), lost))  BY <1>2
  <2> QED  BY <1>3, <1>4, <1>5, <2>1, SnapshotIs
<1>8. Len(built') = Len(states)
  <2> DEFINE D == {BuildPool(i, Batch(SecondReads(Block), lost)) : i \in 1..Len(states)}
  <2>1. built' \in [1..Len(states) -> D]  BY <1>2
  <2>2. Len(states) \in Nat  BY <1>5 DEF Decodes
  <2> HIDE DEF D
  <2>3. built' \in Seq(D) /\ DOMAIN built' = 1..Len(states)  BY <2>1, <2>2, SeqDef
  <2> QED  BY <2>2, <2>3, LenProperties
<1>9. \A block : IsBlock(block) => IsBlock(block)'  BY <1>1, BlocksStay
<1>10. Requested'  BY <1>1, <1>9 DEF Requested
<1>11. Decoded1(blocks[1])'
  <2>1. Decodes(states, blocks[1], from)'
    BY <1>1, <1>5, <1>6 DEF Decodes, StateFor, Quotable
  <2> QED  BY <2>1 DEF Decoded1
<1>12. \A n \in 1..Len(blocks)' : IsBlock(blocks[n])'
  <2>1. ToSet(keys)' = ToSet(keys)  BY <1>1 DEF ToSet
  <2>2. IsBlock(blocks[1])'
    BY <1>1, <1>4, <1>6, <2>1 DEF IsBlock, SameFee, IsChain, IsNets
  <2>3. IsBlock(blocks[2])'
    BY <1>1, <1>3, <1>6, <2>1 DEF IsBlock, SameFee, IsChain, IsNets
  <2>4. \A n \in 1..Len(blocks)' : n = 1 \/ n = 2  BY <1>6
  <2> QED  BY <2>2, <2>3, <2>4
<1>13. (\A i \in 1..Len(states) :
          Snapshot(built[i], states[i].id, blocks[1][states[i].id],
                   blocks[2][states[i].id]))'
  <2> SUFFICES ASSUME NEW i \in 1..Len(states)
               PROVE  Snapshot(built[i], states[i].id, blocks[1][states[i].id],
                               blocks[2][states[i].id])'
    BY <1>1
  <2>1. Snapshot(built'[i], states[i].id, first[states[i].id], second[states[i].id])
    BY <1>7
  <2>2. /\ blocks'[1] = first /\ blocks'[2] = second
        /\ states' = states /\ source' = source
    BY <1>1, <1>6
  <2> HIDE DEF first, second
  <2> QED  BY <2>1, <2>2 DEF Snapshot
<1>14. Rounds'
  <2>1. stage' = "Built" /\ Len(blocks)' = 2 /\ Len(blocks)' \in 0..2 /\ Len(blocks)' # 0
    BY <1>1, <1>6
  <2>2. (Len(built) = Len(states))'  BY <1>1, <1>8
  <2> QED  BY <1>11, <1>12, <1>13, <2>1, <2>2 DEF Rounds
<1> QED  BY <1>10, <1>14

LEMMA SourceNext == ASSUME SourceInv, [Next]_vars PROVE SourceInv'
<1> USE DEF SourceInv
<1>1. ASSUME UNCHANGED sourceVars PROVE SourceInv'
  <2>1. UNCHANGED <<source, keys, heads, at, blocks, states, built, stage>>
    BY <1>1 DEF sourceVars
  <2>2. IsBlock(heads)'
    <3>1. ToSet(keys)' = ToSet(keys)  BY <2>1 DEF ToSet
    <3> QED  BY <2>1, <3>1 DEF Requested, IsBlock, SameFee, IsChain, IsNets
  <2> QED  BY <2>1, <2>2, SourceStays
<1>2. CASE TransportFails
  <2>1. /\ UNCHANGED <<source, keys, heads, at, blocks, states, built>>
        /\ stage \in {"Idle", "Round1"} /\ stage' = "Failed"
    BY <1>2 DEF TransportFails
  <2>2. IsBlock(heads)'
    <3>1. ToSet(keys)' = ToSet(keys)  BY <2>1 DEF ToSet
    <3> QED  BY <2>1, <3>1 DEF Requested, IsBlock, SameFee, IsChain, IsNets
  <2>3. stage # "Built" /\ \A id \in ToSet(keys) : heads'[id].assets = heads[id].assets
    BY <2>1
  <2> QED  BY <2>1, <2>2, <2>3, SourceStays
<1>3. CASE ChainMoves
  <2>1. /\ UNCHANGED <<source, keys, at, blocks, states, built, stage>>
    BY <1>3 DEF ChainMoves
  <2>a. PICK id \in DOMAIN heads :
          \E next \in NextChains(heads[id]) : heads' = [heads EXCEPT ![id] = next]
    BY <1>3 DEF ChainMoves
  <2>2. PICK next \in NextChains(heads[id]) : heads' = [heads EXCEPT ![id] = next]
    BY <2>a
  <2>3. IsBlock(heads) /\ heads \in [ToSet(keys) -> Chain]  BY DEF Requested, IsBlock
  <2>4. /\ next \in Chain /\ IsChain(next) /\ next.assets = heads[id].assets
        /\ SameFee(heads[id]) => SameFee(next)
    <3>1. heads[id] \in Chain  BY <2>3
    <3>2. /\ next \in Chain /\ next.assets = heads[id].assets
          /\ SameFee(heads[id]) => SameFee(next)
      BY <3>1, SourceAssumption
    <3> QED  BY <3>2, SourceAssumption
  <2>5. \A i \in ToSet(keys) : heads'[i] = IF i = id THEN next ELSE heads[i]
    BY <2>2, <2>3
  <2>6. \A i \in ToSet(keys) : heads'[i].assets = heads[i].assets
    BY <2>4, <2>5
  <2>7. heads' \in [ToSet(keys) -> Chain]  BY <2>2, <2>3, <2>4
  <2>8. \A i \in ToSet(keys) : /\ IsChain(heads'[i])
                               /\ source # "UniswapV4" => SameFee(heads'[i])
    BY <2>3, <2>4, <2>5 DEF IsBlock
  <2>9. IsBlock(heads)'
    <3>1. ToSet(keys)' = ToSet(keys)  BY <2>1 DEF ToSet
    <3> QED  BY <2>1, <2>7, <2>8, <3>1 DEF IsBlock, SameFee, IsChain, IsNets
  <2> QED  BY <2>1, <2>6, <2>9, SourceStays
<1>4. CASE Round1  BY <1>4, SourceRound1
<1>5. CASE Round2  BY <1>5, SourceRound2
<1>6. CASE TakePool  BY <1>1, <1>6 DEF TakePool
<1>7. CASE Engine  BY <1>1, <1>7 DEF Engine
<1>8. CASE UNCHANGED vars  BY <1>1, <1>8 DEF vars, sourceVars
<1> QED  BY <1>2, <1>3, <1>4, <1>5, <1>6, <1>7, <1>8 DEF Next

(* The invariant of a refresh. *)
THEOREM SourceAlways == Spec => []SourceInv
<1>1. SourceInv /\ [Next]_vars => SourceInv'  BY SourceNext
<1> QED  BY <1>1, InitSource, PTL DEF Spec

LEMMA EachIsItsOwn == ASSUME SourceInv PROVE EachItsOwn
<1> USE DEF SourceInv
<1>1. CASE stage # "Built"
  <2>1. built = <<>>  BY <1>1 DEF Rounds
  <2>2. \A i \in 1..Len(built) : FALSE  BY <2>1
  <2> QED  BY <2>2 DEF EachItsOwn
<1>2. CASE stage = "Built"
  <2>1. PICK from : Decodes(states, blocks[1], from)  BY <1>2 DEF Rounds, Decoded1
  <2>2. /\ Len(built) = Len(states) /\ IsBlock(blocks[1]) /\ IsBlock(blocks[2])
        /\ \A i \in 1..Len(states) :
             Snapshot(built[i], states[i].id, blocks[1][states[i].id],
                      blocks[2][states[i].id])
    BY <1>2 DEF Rounds
  <2>3. keys \in Seq(PoolId)  BY DEF Requested
  <2>4. \A i \in 1..Len(built) :
          /\ from[i] \in 1..Len(keys) /\ built[i].id = keys[from[i]]
          /\ built[i].id = states[i].id /\ keys[from[i]] \in ToSet(keys)
    <3> SUFFICES ASSUME NEW i \in 1..Len(built)
                 PROVE  /\ from[i] \in 1..Len(keys) /\ built[i].id = keys[from[i]]
                        /\ built[i].id = states[i].id /\ keys[from[i]] \in ToSet(keys)
      OBVIOUS
    <3>1. from[i] \in 1..Len(keys) /\ keys[from[i]] \in ToSet(keys)
      BY <2>1, <2>2, <2>3 DEF Decodes, ToSet
    <3>2. states[i].id = keys[from[i]]
      <4>1. states[i] = StateFor(keys[from[i]], blocks[1][keys[from[i]]])
        BY <2>1, <2>2 DEF Decodes
      <4> QED  BY <4>1 DEF StateFor
    <3>3. built[i].id = states[i].id  BY <2>2 DEF Snapshot
    <3> QED  BY <3>1, <3>2, <3>3
  <2>5. ASSUME NEW i \in 1..Len(built)
        PROVE  LET was == blocks[1][built[i].id]
                   nets == blocks[2][built[i].id].nets
               IN  /\ built[i].price = was.price /\ built[i].liquidity = was.liquidity
                   /\ \A down \in BOOLEAN : FeePips(built[i], down) = was.fee[down]
                   /\ \A t \in DOMAIN built[i].data.nets :
                        t \in DOMAIN nets /\ built[i].data.nets[t] = nets[t]
    <3> DEFINE id == built[i].id
               was == blocks[1][id]
               then == blocks[2][id]
    <3>1. id \in ToSet(keys) /\ Snapshot(built[i], id, was, then)
      BY <2>2, <2>4
    <3>2. source # "UniswapV4" => SameFee(was)  BY <2>2, <3>1 DEF IsBlock
    <3> HIDE DEF was, then, id
    <3>3. built[i].price = was.price /\ built[i].liquidity = was.liquidity
      BY <3>1 DEF Snapshot
    <3>4. \A down \in BOOLEAN : FeePips(built[i], down) = was.fee[down]
      <4>1. built[i].protocol = source
            /\ built[i].fee = IF source = "UniswapV4" THEN was.fee ELSE was.fee[TRUE]
        BY <3>1 DEF Snapshot
      <4>2. CASE source = "UniswapV4"  BY <4>1, <4>2 DEF FeePips
      <4>3. CASE source # "UniswapV4"
        <5>1. \A down : FeePips(built[i], down) = was.fee[TRUE]  BY <4>1, <4>3 DEF FeePips
        <5>2. was.fee[TRUE] = was.fee[FALSE]  BY <3>2, <4>3 DEF SameFee
        <5>3. \A down \in BOOLEAN : down = TRUE \/ down = FALSE  OBVIOUS
        <5> QED  BY <5>1, <5>2, <5>3, Zenon
      <4> QED  BY <4>2, <4>3
    <3>5. \A t \in DOMAIN built[i].data.nets :
            t \in DOMAIN then.nets /\ built[i].data.nets[t] = then.nets[t]
      BY <3>1 DEF Snapshot, Within
    <3> QED  BY <3>3, <3>4, <3>5 DEF was, then, id
  <2>6. \A i, j \in 1..Len(built) :
          i < j => \E k, l \in 1..Len(keys) :
                     k < l /\ keys[k] = built[i].id /\ keys[l] = built[j].id
    <3> SUFFICES ASSUME NEW i \in 1..Len(built), NEW j \in 1..Len(built), i < j
                 PROVE  \E k, l \in 1..Len(keys) :
                          k < l /\ keys[k] = built[i].id /\ keys[l] = built[j].id
      OBVIOUS
    <3>1. from[i] < from[j]  BY <2>1, <2>2 DEF Decodes
    <3> QED  BY <2>4, <3>1
  <2> QED  BY <2>5, <2>6 DEF EachItsOwn
<1> QED  BY <1>1, <1>2

(* EachItsOwn, which says that a snapshot holds the state and the ticks of *)
(* its own pool, each as its round read them, in the order of the keys     *)
(* (the refresh of uniswap_v3.rs, uniswap_v4.rs and slipstream.rs): for    *)
(* every source, list of keys, spacing, window and choice of lost reads.   *)
THEOREM EachItsOwnAlways == Spec => []EachItsOwn
<1>1. SourceInv => EachItsOwn  BY EachIsItsOwn
<1> QED  BY <1>1, SourceAlways, PTL

(* OneBadPoolSinksNoOther, which says that a failed read leaves out one    *)
(* pool at most (decode_state in the same files, over the positional       *)
(* results of multicall.rs): for every list of keys and number of losses.  *)
THEOREM OneBadPoolSinksNoOtherAlways == Spec => []OneBadPoolSinksNoOther
<1>1. SourceInv => OneBadPoolSinksNoOther
  <2> SUFFICES ASSUME SourceInv, stage = "Built"
               PROVE  Len(built) + MaxLost >=
                        Cardinality({k \in 1..Len(keys) : keys[k] \in Parsed \cap TwoAssets})
    BY DEF OneBadPoolSinksNoOther
  <2>1. PICK from : Decodes(states, blocks[1], from)
    BY DEF SourceInv, Rounds, Decoded1
  <2>2. Len(built) = Len(states)  BY DEF SourceInv, Rounds
  <2>3. Len(states) \in Nat /\ MaxLost \in Nat
    BY <2>1, SourceAssumption DEF Decodes
  <2>4. Cardinality(Quotable) <= Len(states) + MaxLost  BY <2>1 DEF Decodes
  <2>5. Len(built) + MaxLost >= Cardinality(Quotable)
    <3>1. Cardinality(Quotable) \in Nat
      <4>1. IsFiniteSet(1..Len(keys))
        <5>1. Len(keys) \in Int /\ 1 \in Int
          BY DEF SourceInv, Requested
        <5> QED  BY <5>1, FS_Interval, Zenon
      <4>2. Quotable \in SUBSET (1..Len(keys))  BY DEF Quotable
      <4>3. IsFiniteSet(Quotable)  BY <4>1, <4>2, FS_Subset
      <4> QED  BY <4>3, FS_CardinalityType
    <3> QED  BY <2>2, <2>3, <2>4, <3>1
  <2> QED  BY <2>5 DEF Quotable
<1> QED  BY <1>1, SourceAlways, PTL

-----------------------------------------------------------------------------
(* Prices and the ticks they are in. *)

LEMMA Prices ==
  ASSUME NEW t \in Int, NEW u \in Int
  PROVE  /\ SqrtAt(t) \in Int /\ (t < u <=> SqrtAt(t) < SqrtAt(u))
         /\ (t <= u <=> SqrtAt(t) <= SqrtAt(u))
         /\ SqrtAt(t + 1) = SqrtAt(t) + Unit
<1>0. Unit \in Nat \ {0}  BY TicksAssumption
<1>1. \A x \in Int : SqrtAt(x) = Unit * x
  <2> SUFFICES ASSUME NEW x \in Int PROVE SqrtAt(x) = Unit * x
    OBVIOUS
  <2> QED  BY <1>0, Multiples DEF SqrtAt
<1>2. /\ Unit * t \in Int /\ (t < u <=> Unit * t < Unit * u)
      /\ (t <= u <=> Unit * t <= Unit * u) /\ Unit * (t + 1) = Unit * t + Unit
  BY <1>0, Multiples
<1> QED  BY <1>1, <1>2

(* The tick is the one of the price, or the one below a boundary that the  *)
(* price stands on.                                                        *)
OnTick(price, tick) ==
  tick \in Int /\ (tick = TickAt(price) \/ price = SqrtAt(tick + 1))

LEMMA TickAtIs ==
  ASSUME NEW p \in Int
  PROVE  /\ TickAt(p) \in Int /\ SqrtAt(TickAt(p)) <= p /\ p < SqrtAt(TickAt(p) + 1)
         /\ \A t \in Int : /\ SqrtAt(t) <= p => t <= TickAt(p)
                           /\ p < SqrtAt(t + 1) => TickAt(p) <= t
<1>0. Unit \in Nat \ {0}  BY TicksAssumption
<1> DEFINE q == TickAt(p)
<1>1. q \in Int /\ Unit * q <= p /\ p < Unit * q + Unit  BY <1>0, Floors DEF TickAt
<1> HIDE DEF q
<1>2. SqrtAt(q) = Unit * q  BY <1>0, <1>1, Multiples DEF SqrtAt
<1>3. SqrtAt(q) <= p /\ p < SqrtAt(q + 1) /\ SqrtAt(q) \in Int /\ SqrtAt(q + 1) \in Int
  BY <1>0, <1>1, <1>2, Prices
<1>4. ASSUME NEW t \in Int PROVE /\ SqrtAt(t) <= p => t <= q
                                 /\ p < SqrtAt(t + 1) => q <= t
  <2>0. t + 1 \in Int /\ q + 1 \in Int  BY <1>1
  <2>1. /\ SqrtAt(t) \in Int /\ SqrtAt(t + 1) \in Int
        /\ (t < q + 1 <=> SqrtAt(t) < SqrtAt(q + 1))
        /\ (q < t + 1 <=> SqrtAt(q) < SqrtAt(t + 1))
    BY <1>1, <2>0, Prices
  <2> QED  BY <1>1, <1>3, <2>1
<1> QED  BY <1>1, <1>3, <1>4 DEF q

LEMMA OnTickIs ==
  ASSUME NEW price \in Int, NEW tick, OnTick(price, tick)
  PROVE  /\ tick \in Int /\ SqrtAt(tick) \in Int /\ SqrtAt(tick + 1) \in Int
         /\ SqrtAt(tick) <= price /\ price <= SqrtAt(tick + 1)
<1>0. Unit \in Nat \ {0}  BY TicksAssumption
<1>1. tick \in Int /\ tick + 1 \in Int  BY DEF OnTick
<1>2. SqrtAt(tick) \in Int /\ SqrtAt(tick + 1) = SqrtAt(tick) + Unit  BY <1>1, Prices
<1>3. CASE tick = TickAt(price)  BY <1>0, <1>1, <1>2, <1>3, TickAtIs
<1>4. CASE price = SqrtAt(tick + 1)  BY <1>0, <1>1, <1>2, <1>4
<1> QED  BY <1>3, <1>4 DEF OnTick

(* The tick after a step from price to price2 that may reach a boundary.   *)
TickAfter(next, price2, price, tick, down) ==
  IF price2 = SqrtAt(next.tick) THEN IF down THEN next.tick - 1 ELSE next.tick
  ELSE IF price2 # price THEN TickAt(price2) ELSE tick

(* It is that of the price again; what lies between it and the tick before *)
(* is the boundary if that was reached, and else no liquidity; and a step  *)
(* onto the boundary leaves the tick behind.                               *)
Crosses(nets, next, price2, tick, tick2, down) ==
  LET net == IF price2 = SqrtAt(next.tick) THEN NetAt(nets, next.tick) ELSE 0
  IN  /\ OnTick(price2, tick2)
      /\ IF down THEN tick2 <= tick /\ NetOver(nets, tick2, tick) = net
         ELSE tick <= tick2 /\ NetOver(nets, tick, tick2) = net
      /\ price2 = SqrtAt(next.tick) => tick2 # tick

LEMMA Crossing ==
  ASSUME NEW nets, IsNets(nets), NEW tick \in Int, NEW down \in BOOLEAN,
         NEW next, Nexts(nets, next, tick, down),
         NEW price \in Int, OnTick(price, tick), NEW price2 \in Int,
         IF down THEN SqrtAt(next.tick) <= price2 /\ price2 <= price
         ELSE price <= price2 /\ price2 <= SqrtAt(next.tick)
  PROVE  Crosses(nets, next, price2, tick, TickAfter(next, price2, price, tick, down), down)
<1> DEFINE to == next.tick
           tick2 == TickAfter(next, price2, price, tick, down)
<1>0. \A t \in Tick : t \in Int  BY TicksAssumption DEF Tick
<1>1. /\ to \in Int
      /\ IF down THEN to <= tick ELSE to > tick
      /\ \A t \in DOMAIN nets : IF down THEN ~(to < t /\ t <= tick)
                                ELSE ~(tick < t /\ t < to)
  BY <1>0 DEF Nexts
<1>2. SqrtAt(tick) <= price /\ price <= SqrtAt(tick + 1) /\ SqrtAt(tick) \in Int
      /\ SqrtAt(tick + 1) \in Int
  BY OnTickIs
<1>3. SqrtAt(to) \in Int  BY <1>1, Prices
<1>4. \A t \in DOMAIN nets : t \in Int  BY <1>0 DEF IsNets
<1>5. CASE price2 = SqrtAt(to) /\ down
  <2>1. tick2 = to - 1 /\ to - 1 \in Int /\ (to - 1) + 1 = to
    BY <1>1, <1>5 DEF TickAfter
  <2>2. OnTick(price2, tick2)  BY <1>5, <2>1 DEF OnTick
  <2>3. NetOver(nets, to - 1, tick) = NetOver(nets, to - 1, to) + NetOver(nets, to, tick)
    <3>1. to - 1 <= to /\ to <= tick  BY <1>1, <1>5
    <3> QED  BY <1>1, <2>1, <3>1, NetOverSplits
  <2>4. NetOver(nets, to - 1, to) = NetAt(nets, to)
    <3>1. to - 1 <= to  BY <1>1
    <3>2. NetOver(nets, to - 1, (to - 1) + 1) = NetAt(nets, (to - 1) + 1)
      BY <1>1, <2>1, <3>1, NetOverFew
    <3> QED  BY <2>1, <3>2
  <2>5. NetOver(nets, to, tick) = 0
    <3>1. to <= tick /\ \A t \in DOMAIN nets : ~(to < t /\ t <= tick)  BY <1>1, <1>5
    <3> QED  BY <1>1, <3>1, NetOverFew
  <2>6. NetAt(nets, to) \in Int  BY DEF NetAt, IsNets
  <2> HIDE DEF tick2
  <2>7. tick2 <= tick /\ tick2 # tick /\ NetOver(nets, tick2, tick) = NetAt(nets, to)
    BY <1>1, <1>5, <2>1, <2>3, <2>4, <2>5, <2>6
  <2> QED  BY <1>5, <2>2, <2>7 DEF Crosses, tick2
<1>6. CASE price2 = SqrtAt(to) /\ ~down
  <2>1. tick2 = to /\ to - 1 \in Int /\ (to - 1) + 1 = to
    BY <1>1, <1>6 DEF TickAfter
  <2>2. OnTick(price2, tick2)
    <3>0. Unit \in Nat \ {0}  BY TicksAssumption
    <3>1. to <= TickAt(price2)  BY <1>1, <1>3, <1>6, TickAtIs
    <3>2. price2 < SqrtAt(to + 1)
      <4>1. SqrtAt(to + 1) = SqrtAt(to) + Unit  BY <1>1, Prices
      <4> QED  BY <1>3, <1>6, <3>0, <4>1
    <3>3. TickAt(price2) <= to /\ TickAt(price2) \in Int  BY <1>1, <3>2, TickAtIs
    <3>4. to = TickAt(price2)  BY <1>1, <3>1, <3>3
    <3> QED  BY <1>1, <2>1, <3>4 DEF OnTick
  <2>3. NetOver(nets, tick, to) = NetOver(nets, tick, to - 1) + NetOver(nets, to - 1, to)
    <3>1. tick <= to - 1 /\ to - 1 <= to  BY <1>1, <1>6
    <3> QED  BY <1>1, <2>1, <3>1, NetOverSplits
  <2>4. NetOver(nets, to - 1, to) = NetAt(nets, to)
    <3>1. to - 1 <= to  BY <1>1
    <3>2. NetOver(nets, to - 1, (to - 1) + 1) = NetAt(nets, (to - 1) + 1)
      BY <1>1, <2>1, <3>1, NetOverFew
    <3> QED  BY <2>1, <3>2
  <2>5. NetOver(nets, tick, to - 1) = 0
    <3>1. tick <= to - 1 /\ \A t \in DOMAIN nets : ~(tick < t /\ t <= to - 1)
      BY <1>1, <1>4, <1>6
    <3> QED  BY <2>1, <3>1, NetOverFew
  <2>6. NetAt(nets, to) \in Int  BY DEF NetAt, IsNets
  <2> HIDE DEF tick2
  <2>7. tick <= tick2 /\ tick2 # tick /\ NetOver(nets, tick, tick2) = NetAt(nets, to)
    BY <1>1, <1>6, <2>1, <2>3, <2>4, <2>5, <2>6
  <2> QED  BY <1>6, <2>2, <2>7 DEF Crosses, tick2
<1>7. CASE price2 # SqrtAt(to)
  <2>1. tick2 = IF price2 # price THEN TickAt(price2) ELSE tick  BY <1>7 DEF TickAfter
  <2>2. TickAt(price2) \in Int /\ tick2 \in Int  BY <2>1, TickAtIs
  <2>3. OnTick(price2, tick2)  BY <2>1, <2>2 DEF OnTick
  <2> HIDE DEF tick2
  <2>4. IF down THEN to <= tick2 /\ tick2 <= tick ELSE tick <= tick2 /\ tick2 < to
    <3>1. CASE price2 = price  BY <1>1, <2>1, <3>1
    <3>2. CASE price2 # price /\ down
      <4>1. SqrtAt(to) <= price2 /\ price2 < SqrtAt(tick + 1)  BY <1>2, <3>2
      <4> QED  BY <1>1, <2>1, <3>2, <4>1, TickAtIs
    <3>3. CASE price2 # price /\ ~down
      <4>1. SqrtAt(tick) <= price2 /\ price2 < SqrtAt(to)  BY <1>2, <1>3, <1>7, <3>3
      <4>2. to - 1 \in Int /\ (to - 1) + 1 = to  BY <1>1
      <4>3. tick <= TickAt(price2) /\ TickAt(price2) <= to - 1
        BY <4>1, <4>2, TickAtIs
      <4> QED  BY <1>1, <2>1, <2>2, <3>3, <4>3
    <3> QED  BY <3>1, <3>2, <3>3
  <2>5. IF down THEN NetOver(nets, tick2, tick) = 0 ELSE NetOver(nets, tick, tick2) = 0
    <3>1. CASE down
      <4>1. tick2 <= tick /\ \A t \in DOMAIN nets : ~(tick2 < t /\ t <= tick)
        BY <1>1, <1>4, <2>2, <2>4, <3>1
      <4> QED  BY <2>2, <3>1, <4>1, NetOverFew
    <3>2. CASE ~down
      <4>1. tick <= tick2 /\ \A t \in DOMAIN nets : ~(tick < t /\ t <= tick2)
        BY <1>1, <1>4, <2>2, <2>4, <3>2
      <4> QED  BY <2>2, <3>2, <4>1, NetOverFew
    <3> QED  BY <3>1, <3>2
  <2> QED  BY <1>7, <2>3, <2>4, <2>5 DEF Crosses, tick2
<1> QED  BY <1>5, <1>6, <1>7

-----------------------------------------------------------------------------
(* A snapshot to quote from. *)

Low == SqrtAt(MinTick) + 1
High == SqrtAt(MaxTick) - 1

LEMMA EndsAre ==
  SqrtAt(MinTick) \in Int /\ SqrtAt(MaxTick) \in Int /\ Low \in Int /\ High \in Int
<1>1. MinTick \in Int /\ MaxTick \in Int  BY TicksAssumption
<1>2. SqrtAt(MinTick) \in Int /\ SqrtAt(MaxTick) \in Int  BY <1>1, Prices
<1> QED  BY <1>2 DEF Low, High

Fetched(p) ==
  /\ p.id \in PoolId /\ p.protocol \in {"UniswapV3", "UniswapV4", "Slipstream"}
  /\ p.supported \in BOOLEAN
  /\ p.assets \in Asset \X Asset /\ p.assets = blocks[1][p.id].assets
  /\ p.price \in Low..High /\ p.tick \in Tick /\ OnTick(p.price, p.tick)
  /\ p.liquidity \in 0..MaxLiquidity
  /\ p.fee \in (IF p.protocol = "UniswapV4" THEN [BOOLEAN -> Nat] ELSE Nat)
  /\ Mapped(p.data) /\ p.data.window = WindowAround(p.tick, TickWindow)

LEMMA FetchedIs ==
  ASSUME SourceInv, stage = "Built", NEW i \in 1..Len(built)
  PROVE  Fetched(built[i])
<1> DEFINE p == built[i]
           id == p.id
           was == blocks[1][id]
<1>1. PICK from : Decodes(states, blocks[1], from)
  BY DEF SourceInv, Rounds, Decoded1
<1>2. Len(built) = Len(states) /\ IsBlock(blocks[1])
      /\ Snapshot(p, states[i].id, blocks[1][states[i].id], blocks[2][states[i].id])
  BY DEF SourceInv, Rounds
<1>3. keys \in Seq(PoolId) /\ source \in {"UniswapV3", "UniswapV4", "Slipstream"}
  BY DEF SourceInv, Requested
<1>4. id = states[i].id /\ states[i].id \in ToSet(keys) /\ states[i].id \in PoolId
  <2>1. keys[from[i]] \in ToSet(keys) /\ keys[from[i]] \in PoolId
    BY <1>1, <1>2, <1>3 DEF Decodes, ToSet
  <2>2. states[i] = StateFor(keys[from[i]], blocks[1][keys[from[i]]])
    BY <1>1, <1>2 DEF Decodes
  <2>3. states[i].id = keys[from[i]]  BY <2>2 DEF StateFor
  <2> QED  BY <1>2, <2>1, <2>3 DEF Snapshot
<1>5. Snapshot(p, id, was, blocks[2][id])  BY <1>2, <1>4
<1>6. IsChain(was)  BY <1>2, <1>4 DEF IsBlock
<1> HIDE DEF was, id
<1>7. /\ p.protocol = source /\ p.assets = was.assets /\ p.price = was.price
      /\ p.tick = was.tick /\ p.liquidity = was.liquidity
      /\ p.fee = IF source = "UniswapV4" THEN was.fee ELSE was.fee[TRUE]
      /\ p.data = TickData(p.data.nets, was.tick, TickWindow) /\ Mapped(p.data)
  BY <1>5 DEF Snapshot
<1>8. p.supported \in BOOLEAN  BY <1>5 DEF Snapshot
<1>9. /\ was.assets \in Asset \X Asset /\ was.price \in Low..High
      /\ was.tick \in Tick /\ (was.tick = TickAt(was.price) \/ was.price = SqrtAt(was.tick + 1))
      /\ was.liquidity \in 0..MaxLiquidity /\ was.fee \in [BOOLEAN -> Nat]
  BY <1>6 DEF IsChain, Low, High
<1>10. OnTick(p.price, p.tick)
  <2>1. was.tick \in Int  BY <1>9, TicksAssumption DEF Tick
  <2> QED  BY <1>7, <1>9, <2>1 DEF OnTick
<1>11. p.data.window = WindowAround(p.tick, TickWindow)
  <2>1. \A nets, tick : TickData(nets, tick, TickWindow).window = WindowAround(tick, TickWindow)
    BY DEF TickData
  <2> QED  BY <1>7, <2>1
<1>12. p.fee \in (IF p.protocol = "UniswapV4" THEN [BOOLEAN -> Nat] ELSE Nat)
  BY <1>7, <1>9
<1>13. p.id \in PoolId /\ p.assets = blocks[1][p.id].assets  BY <1>4, <1>7 DEF id, was
<1> HIDE DEF p
<1>14. Fetched(p)
  BY <1>3, <1>7, <1>8, <1>9, <1>10, <1>11, <1>12, <1>13 DEF Fetched
<1> QED  BY <1>14 DEF p

(* The price lies within the window that was fetched around it.            *)
LEMMA WithinWindow ==
  ASSUME NEW p, Fetched(p)
  PROVE  /\ p.data.window \in [low : Tick, high : Tick]
         /\ \A down \in BOOLEAN : WindowEdge(p.data, down) \in Int
         /\ WindowEdge(p.data, TRUE) <= p.price /\ p.price <= WindowEdge(p.data, FALSE)
<1>0. /\ MinTick \in Int /\ MaxTick \in Int /\ MinTick < MaxTick
      /\ Spacing \in Nat \ {0} /\ TickWindow \in Nat \ {0}
  BY TicksAssumption, SourceAssumption
<1>1. p.tick \in Int /\ MinTick <= p.tick /\ p.tick <= MaxTick
      /\ p.price \in Int /\ Low <= p.price /\ p.price <= High
  BY <1>0, EndsAre DEF Fetched, Tick
<1> DEFINE center == Center(p.tick)
           wide == TickWindow * Spacing
           low == p.data.window.low
           high == p.data.window.high
<1>2. center \in Int /\ center - Spacing < p.tick /\ p.tick < center + Spacing
  BY <1>1, TruncDivIs
<1>3. wide \in Int /\ wide >= Spacing
  <2>1. TickWindow - 1 \in Nat /\ TickWindow = (TickWindow - 1) + 1  BY <1>0
  <2>2. \A m, n \in Nat : m * n \in Nat /\ (m + 1) * n = m * n + n  OBVIOUS
  <2>3. (TickWindow - 1) * Spacing \in Nat /\ wide = (TickWindow - 1) * Spacing + Spacing
    BY <1>0, <2>1, <2>2
  <2> DEFINE rest == (TickWindow - 1) * Spacing
  <2>4. rest \in Nat /\ wide = rest + Spacing  BY <2>3
  <2> HIDE DEF rest, wide
  <2> QED  BY <1>0, <2>4
<1>4. p.data.window = [low |-> ClampTick(center - wide), high |-> ClampTick(center + wide)]
  BY DEF Fetched, WindowAround
<1>5. low = ClampTick(center - wide) /\ high = ClampTick(center + wide)  BY <1>4
<1> HIDE DEF center, wide
<1>6. low \in Tick /\ low \in Int /\ low <= p.tick
  BY <1>0, <1>1, <1>2, <1>3, <1>5 DEF ClampTick, Tick
<1>7. high \in Tick /\ high \in Int /\ (high >= p.tick + 1 \/ high = MaxTick)
  BY <1>0, <1>1, <1>2, <1>3, <1>5 DEF ClampTick, Tick
<1>8. p.data.window \in [low : Tick, high : Tick]  BY <1>4, <1>5, <1>6, <1>7
<1> HIDE DEF low, high
<1>9. SqrtAt(low) \in Int /\ SqrtAt(high) \in Int  BY <1>6, <1>7, Prices
<1>10. WindowEdge(p.data, TRUE) = SqrtAt(low) /\ WindowEdge(p.data, FALSE) = SqrtAt(high)
  BY DEF WindowEdge, low, high
<1>11. SqrtAt(p.tick) <= p.price /\ p.price <= SqrtAt(p.tick + 1)
       /\ SqrtAt(p.tick) \in Int /\ SqrtAt(p.tick + 1) \in Int
  BY <1>1, OnTickIs DEF Fetched
<1>12. SqrtAt(low) <= p.price
  <2>1. SqrtAt(low) <= SqrtAt(p.tick)  BY <1>1, <1>6, Prices
  <2> QED  BY <1>1, <1>9, <1>11, <2>1
<1>13. p.price <= SqrtAt(high)
  <2>1. CASE high >= p.tick + 1
    <3>1. p.tick + 1 \in Int /\ p.tick + 1 <= high  BY <1>1, <1>7, <2>1
    <3>2. SqrtAt(p.tick + 1) <= SqrtAt(high)  BY <1>7, <3>1, Prices
    <3> QED  BY <1>1, <1>9, <1>11, <3>2
  <2>2. CASE high = MaxTick
    BY <1>1, <2>2, EndsAre DEF High
  <2> QED  BY <1>7, <2>1, <2>2
<1>14. \A down \in BOOLEAN : WindowEdge(p.data, down) \in Int  BY <1>9, <1>10
<1> QED  BY <1>8, <1>10, <1>12, <1>13, <1>14

-----------------------------------------------------------------------------
(* What a question that is not refused comes with. *)

BoundFor(a) ==
  Tighter(Direction(pool, a.from, a.to), Limit(a),
          WindowEdge(pool.data, Direction(pool, a.from, a.to)))

(* A bound that the price has not gone past, inside the range of prices.   *)
Bounds(bound, price, down) ==
  /\ bound \in Int
  /\ IF down THEN Low <= bound /\ bound <= price ELSE price <= bound /\ bound <= High

LEMMA TighterIs ==
  ASSUME NEW down \in BOOLEAN, NEW p \in Int, NEW q \in Int
  PROVE  Tighter(down, p, q) = IF down THEN IF p > q THEN p ELSE q
                               ELSE IF p > q THEN q ELSE p
<1>1. CASE down = TRUE  BY <1>1 DEF Tighter
<1>2. CASE down = FALSE  BY <1>2 DEF Tighter
<1> QED  BY <1>1, <1>2

LEMMA ClampedIs ==
  ASSUME Fetched(pool), NEW limit \in Price, ClampedLimit(limit) # None
  PROVE  ClampedLimit(limit) \in Int /\ ClampedLimit(limit) \in Low..High
<1> DEFINE direct == Direction(pool, limit.base, limit.quote)
           x == IF direct = TRUE THEN limit.at ELSE -limit.at
<1>1. Low \in Int /\ High \in Int /\ Low <= High
  <2>1. Low \in Int /\ High \in Int  BY EndsAre
  <2>2. pool.price \in Low..High  BY DEF Fetched
  <2> QED  BY <2>1, <2>2
<1>2. x \in Int  BY DEF Price
<1>3. ClampedLimit(limit) = IF direct = None THEN None
                            ELSE IF x < Low THEN Low ELSE IF x > High THEN High ELSE x
  BY DEF ClampedLimit, Low, High
<1> HIDE DEF x
<1>4. direct # None  BY <1>3
<1> QED  BY <1>1, <1>2, <1>3, <1>4

LEMMA AskableIs ==
  ASSUME Fetched(pool), NEW a \in Ask, Askable(a)
  PROVE  /\ Direction(pool, a.from, a.to) \in BOOLEAN \ {None}
         /\ Specified(a) \in 0..MaxI256
         /\ Bounds(BoundFor(a), pool.price, Direction(pool, a.from, a.to))
         /\ Bounds(Limit(a), pool.price, Direction(pool, a.from, a.to))
<1> DEFINE down == Direction(pool, a.from, a.to)
           edge == WindowEdge(pool.data, down)
           limit == Limit(a)
<1>1. /\ PoolRefusal(pool, a) = "Ok" /\ ~(Specified(a) > MaxI256)
      /\ a.kind = "WithLimit" => ClampedLimit(a.limit) # None /\ ~LimitReached(a)
  BY DEF Askable, Refusal
<1>2. down \in BOOLEAN /\ down # None
  <2>1. down # None
    <3>1. pool.protocol \in {"UniswapV3", "UniswapV4", "Slipstream"}  BY DEF Fetched
    <3> QED  BY <1>1, <3>1 DEF PoolRefusal, UniswapV3Refusal, UniswapV4Refusal,
                               SlipstreamRefusal
  <2> QED  BY <2>1 DEF Direction
<1>3. Specified(a) \in 0..MaxI256
  <2>1. Specified(a) \in Nat  BY EngineAssumption DEF Specified, Ask
  <2> QED  BY <1>1, <2>1, EngineAssumption
<1>4. /\ edge \in Int
      /\ IF down THEN edge <= pool.price ELSE pool.price <= edge
  <2>1. \A d \in BOOLEAN : WindowEdge(pool.data, d) \in Int  BY WithinWindow
  <2>2. WindowEdge(pool.data, TRUE) <= pool.price /\ pool.price <= WindowEdge(pool.data, FALSE)
    BY WithinWindow
  <2>3. edge \in Int  BY <1>2, <2>1, Zenon
  <2>4. CASE down = TRUE  BY <2>2, <2>3, <2>4
  <2>5. CASE down = FALSE  BY <2>2, <2>3, <2>5
  <2> QED  BY <1>2, <2>4, <2>5
<1>5. Low \in Int /\ High \in Int /\ pool.price \in Int
      /\ Low <= pool.price /\ pool.price <= High
  <2>1. Low \in Int /\ High \in Int /\ pool.price \in Low..High
    BY EndsAre DEF Fetched
  <2> QED  BY <2>1
<1> HIDE DEF edge
<1>6. /\ limit \in Int /\ Low <= limit /\ limit <= High
      /\ IF down THEN limit <= pool.price ELSE pool.price <= limit
  <2>1. CASE a.kind = "WithLimit"
    <3>1. limit = ClampedLimit(a.limit)  BY <2>1 DEF Limit
    <3>2. a.limit \in Price  BY DEF Ask
    <3>3. limit \in Low..High  BY <1>1, <2>1, <3>1, <3>2, ClampedIs
    <3>4. IF down THEN ~(limit >= pool.price) ELSE ~(limit <= pool.price)
      BY <1>1, <2>1, <3>1 DEF LimitReached
    <3> HIDE DEF limit
    <3> QED  BY <1>2, <1>5, <3>3, <3>4
  <2>2. CASE a.kind # "WithLimit"
    <3>1. limit = PriceExtreme(down)  BY <2>2 DEF Limit
    <3>2. limit = IF down THEN Low ELSE High  BY <3>1 DEF PriceExtreme, Low, High
    <3> HIDE DEF limit
    <3> QED  BY <1>2, <1>5, <3>2
  <2> QED  BY <2>1, <2>2
<1>b. Bounds(limit, pool.price, down)  BY <1>6 DEF Bounds
<1>7. BoundFor(a) = Tighter(down, limit, edge)  BY DEF BoundFor, edge
<1> HIDE DEF limit, down
<1>8. Tighter(down, limit, edge) = IF down THEN IF limit > edge THEN limit ELSE edge
                                   ELSE IF limit > edge THEN edge ELSE limit
  BY <1>2, <1>4, <1>6, TighterIs
<1>9. Bounds(BoundFor(a), pool.price, down)
  <2>1. CASE down = TRUE  BY <1>4, <1>5, <1>6, <1>7, <1>8, <2>1 DEF Bounds
  <2>2. CASE down = FALSE  BY <1>4, <1>5, <1>6, <1>7, <1>8, <2>2 DEF Bounds
  <2> QED  BY <1>2, <2>1, <2>2
<1> QED  BY <1>2, <1>3, <1>9, <1>b DEF down, limit

-----------------------------------------------------------------------------
(* The loop. *)

(* The swap is under way from the snapshot to the bound, with exactly the  *)
(* ticks crossed that lie between its price and the snapshot's.            *)
Moving(p, s, bound, down) ==
  /\ s.price \in Int /\ Bounds(bound, s.price, down) /\ OnTick(s.price, s.tick)
  /\ IF down
     THEN /\ s.price <= p.price /\ s.tick <= p.tick
          /\ s.liquidity = p.liquidity - NetOver(p.data.nets, s.tick, p.tick)
     ELSE /\ p.price <= s.price /\ p.tick <= s.tick
          /\ s.liquidity = p.liquidity + NetOver(p.data.nets, p.tick, s.tick)

Looping(p, s, bound, down) == s \in Swap /\ Moving(p, s, bound, down)

(* A target on the way to the next tick. *)
Toward(target, next, price, bound, down) ==
  /\ target \in Int
  /\ IF down THEN SqrtAt(next.tick) <= target /\ bound <= target /\ target <= price
     ELSE target <= SqrtAt(next.tick) /\ target <= bound /\ price <= target

MovesOn(tick, tick2, down) == IF down THEN tick2 < tick ELSE tick2 > tick

LEMMA SwapStarts ==
  ASSUME Fetched(pool), NEW down \in BOOLEAN, NEW bound, Bounds(bound, pool.price, down),
         NEW amount \in 0..MaxI256
  PROVE  Looping(pool, [ price |-> pool.price, tick |-> pool.tick,
                         liquidity |-> pool.liquidity, remaining |-> amount,
                         in |-> 0, out |-> 0 ], bound, down)
<1> DEFINE s == [ price |-> pool.price, tick |-> pool.tick,
                  liquidity |-> pool.liquidity, remaining |-> amount, in |-> 0, out |-> 0 ]
<1>1. /\ pool.price \in Int /\ pool.tick \in Int /\ pool.liquidity \in 0..MaxLiquidity
      /\ MaxLiquidity \in Nat /\ OnTick(pool.price, pool.tick)
  <2>1. \A t \in Tick : t \in Int  BY TicksAssumption DEF Tick
  <2>2. pool.price \in Int  BY EndsAre DEF Fetched
  <2> QED  BY <2>1, <2>2, EngineAssumption DEF Fetched
<1>2. s \in Swap  BY <1>1 DEF Swap
<1>3. NetOver(pool.data.nets, pool.tick, pool.tick) = 0
  <2>1. IsNets(pool.data.nets)  BY DEF Fetched, Mapped
  <2>2. pool.tick <= pool.tick  BY <1>1
  <2> QED  BY <1>1, <2>1, <2>2, NetOverFew
<1>4. s.price = pool.price /\ s.tick = pool.tick /\ s.liquidity = pool.liquidity
  OBVIOUS
<1> HIDE DEF s
<1>5. pool.liquidity \in Int  BY <1>1
<1>6. Looping(pool, s, bound, down)  BY <1>1, <1>2, <1>3, <1>4, <1>5 DEF Looping, Moving
<1> QED  BY <1>6 DEF s

(* One iteration: the tick it looks for, the price it aims at, the step,   *)
(* and the state it leaves.                                                *)
NextNow == NextTick(pool.data, swap.tick, Down)
TargetNow == Tighter(Down, SqrtAt(NextNow.tick), Bind)
StepNow == SwapStep(swap.price, TargetNow, swap.liquidity, FeePips(pool, Down),
                    swap.remaining, ExactIn(ask))
UsedNow == IF ExactIn(ask) THEN StepNow.in ELSE StepNow.out
ToNow == Advance(NextNow, StepNow.price)
GoesNow == [ price |-> StepNow.price, tick |-> ToNow.tick,
             liquidity |-> swap.liquidity + ToNow.net,
             remaining |-> swap.remaining - UsedNow,
             in |-> swap.in + StepNow.in, out |-> swap.out + StepNow.out ]
ErrorNow == IF ToNow.net = None THEN "InsufficientLiquidity"
            ELSE IF swap.liquidity + ToNow.net \notin 0..MaxLiquidity THEN "Overflow" ELSE "Ok"

(* Where the step goes. *)
StepGoes ==
  /\ Nexts(pool.data.nets, NextNow, swap.tick, Down) /\ FeePips(pool, Down) \in Nat
  /\ Toward(TargetNow, NextNow, swap.price, Bind, Down)
  /\ StepNow.price \in Int /\ StepNow.in \in Nat /\ StepNow.out \in Nat
  /\ UsedNow \in Nat /\ UsedNow <= swap.remaining
  /\ StepNow.price = TargetNow \/ UsedNow = swap.remaining
  /\ ToNow.net \in Int /\ ToNow.tick \in Int /\ Moving(pool, GoesNow, Bind, Down)
  /\ GoesNow.remaining # 0 /\ GoesNow.price # Bind =>
       MovesOn(swap.tick, GoesNow.tick, Down)

LEMMA StepMoves ==
  ASSUME Fetched(pool), ask \in Ask, Down \in BOOLEAN, Looping(pool, swap, Bind, Down),
         swap.remaining # 0, swap.price # Bind
  PROVE  StepGoes
<1> DEFINE down == Down
           bound == Bind
           nets == pool.data.nets
           next == NextTick(pool.data, swap.tick, down)
           target == Tighter(down, SqrtAt(next.tick), bound)
           exact == ExactIn(ask)
           fee == FeePips(pool, down)
           step == SwapStep(swap.price, target, swap.liquidity, fee, swap.remaining, exact)
           to == Advance(next, step.price)
           liquidity == swap.liquidity + to.net
           used == IF exact THEN step.in ELSE step.out
           goes == [ price |-> step.price, tick |-> to.tick, liquidity |-> liquidity,
                     remaining |-> swap.remaining - used,
                     in |-> swap.in + step.in, out |-> swap.out + step.out ]
<1>0. swap.remaining # 0 /\ swap.price # bound  OBVIOUS
<1>a. next = NextNow /\ target = TargetNow  BY DEF NextNow, TargetNow
<1>b. step = StepNow /\ used = UsedNow  BY DEF StepNow, UsedNow, NextNow, TargetNow
<1>c. to = ToNow  BY DEF ToNow, StepNow, NextNow, TargetNow
<1>d. goes = GoesNow  BY DEF GoesNow, UsedNow, ToNow, StepNow, NextNow, TargetNow
<1>1. /\ swap.price \in Int /\ swap.tick \in Int /\ swap.liquidity \in 0..MaxLiquidity
      /\ swap.liquidity \in Nat /\ swap.remaining \in 0..MaxI256 /\ swap.remaining \in Nat
      /\ swap.in \in Nat /\ swap.out \in Nat /\ MaxI256 \in Nat /\ MaxLiquidity \in Nat
  BY EngineAssumption DEF Looping, Swap
<1>2. /\ Bounds(bound, swap.price, down) /\ OnTick(swap.price, swap.tick) /\ down \in BOOLEAN
      /\ IF down
         THEN /\ swap.price <= pool.price /\ swap.tick <= pool.tick
              /\ swap.liquidity = pool.liquidity - NetOver(nets, swap.tick, pool.tick)
         ELSE /\ pool.price <= swap.price /\ pool.tick <= swap.tick
              /\ swap.liquidity = pool.liquidity + NetOver(nets, pool.tick, swap.tick)
  BY DEF Looping, Moving
<1>3. /\ IsNets(nets) /\ Mapped(pool.data) /\ pool.price \in Int /\ pool.tick \in Int
      /\ Low <= pool.price /\ pool.price <= High /\ Low \in Int /\ High \in Int
      /\ pool.liquidity \in Int
  <2>1. \A t \in Tick : t \in Int  BY TicksAssumption DEF Tick
  <2>2. Low \in Int /\ High \in Int  BY EndsAre
  <2> QED  BY <1>1, <2>1, <2>2 DEF Fetched, Mapped
<1>4. exact \in BOOLEAN  BY DEF ExactIn
<1>5. fee \in Nat
  <2>1. pool.fee \in (IF pool.protocol = "UniswapV4" THEN [BOOLEAN -> Nat] ELSE Nat)
    BY DEF Fetched
  <2>2. CASE pool.protocol = "UniswapV4"
    <3>1. pool.fee \in [BOOLEAN -> Nat] /\ fee = pool.fee[down]  BY <2>1, <2>2 DEF FeePips
    <3> QED  BY <1>2, <3>1
  <2>3. CASE pool.protocol # "UniswapV4"  BY <2>1, <2>3 DEF FeePips
  <2> QED  BY <2>2, <2>3
<1> HIDE DEF exact, fee, down, bound, nets
<1>6. swap.price \in Int /\ Low <= swap.price /\ swap.price <= High
      /\ IF down THEN bound < swap.price /\ Low <= bound ELSE swap.price < bound /\ bound <= High
  BY <1>0, <1>1, <1>2, <1>3 DEF Bounds
<1>7. bound \in Int  BY <1>2 DEF Bounds
(* The tick stays short of both ends. *)
<1>8. MinTick <= swap.tick /\ swap.tick < MaxTick
  <2>0. MinTick \in Int /\ MaxTick \in Int /\ Unit \in Nat \ {0}  BY TicksAssumption
  <2>1. /\ SqrtAt(swap.tick) <= swap.price /\ swap.price <= SqrtAt(swap.tick + 1)
        /\ SqrtAt(swap.tick) \in Int /\ SqrtAt(swap.tick + 1) \in Int
    BY <1>1, <1>2, OnTickIs
  <2>2. SqrtAt(MinTick) < SqrtAt(swap.tick + 1) /\ SqrtAt(swap.tick) < SqrtAt(MaxTick)
    BY <1>6, <2>1, EndsAre DEF Low, High
  <2>3. swap.tick + 1 \in Int  BY <1>1
  <2>4. MinTick < swap.tick + 1 /\ swap.tick < MaxTick
    BY <1>1, <2>0, <2>2, <2>3, Prices
  <2> QED  BY <1>1, <2>0, <2>4
<1>9. Nexts(nets, next, swap.tick, down)
  <2>1. IF down THEN MinTick <= swap.tick /\ swap.tick <= MaxTick
        ELSE MinTick - 1 <= swap.tick /\ swap.tick < MaxTick
    BY <1>1, <1>8, TicksAssumption
  <2> QED  BY <1>1, <1>2, <1>3, <2>1, NextTickIs DEF nets
<1> HIDE DEF next
<1>10. /\ next.tick \in Int /\ SqrtAt(next.tick) \in Int
       /\ IF down THEN next.tick <= swap.tick /\ SqrtAt(next.tick) <= swap.price
          ELSE swap.tick < next.tick /\ swap.price <= SqrtAt(next.tick)
  <2>1. next.tick \in Int /\ IF down THEN next.tick <= swap.tick ELSE next.tick > swap.tick
    BY <1>9, TicksAssumption DEF Nexts, Tick
  <2>2. /\ SqrtAt(swap.tick) <= swap.price /\ swap.price <= SqrtAt(swap.tick + 1)
        /\ SqrtAt(swap.tick) \in Int /\ SqrtAt(swap.tick + 1) \in Int
    BY <1>1, <1>2, OnTickIs
  <2>3. SqrtAt(next.tick) \in Int  BY <2>1, Prices
  <2>4. CASE down
    <3>1. SqrtAt(next.tick) <= SqrtAt(swap.tick)  BY <1>1, <2>1, <2>4, Prices
    <3> QED  BY <1>1, <2>1, <2>2, <2>3, <2>4, <3>1
  <2>5. CASE ~down
    <3>1. swap.tick + 1 \in Int /\ swap.tick + 1 <= next.tick  BY <1>1, <2>1, <2>5
    <3>2. SqrtAt(swap.tick + 1) <= SqrtAt(next.tick)  BY <2>1, <3>1, Prices
    <3> QED  BY <1>1, <2>1, <2>2, <2>3, <2>5, <3>2
  <2> QED  BY <2>4, <2>5
<1>11. target \in Int /\ target \in {SqrtAt(next.tick), bound}
       /\ IF down THEN SqrtAt(next.tick) <= target /\ bound <= target /\ target <= swap.price
          ELSE target <= SqrtAt(next.tick) /\ target <= bound /\ swap.price <= target
  <2>1. target = IF down THEN IF SqrtAt(next.tick) > bound THEN SqrtAt(next.tick) ELSE bound
                 ELSE IF SqrtAt(next.tick) > bound THEN bound ELSE SqrtAt(next.tick)
    BY <1>2, <1>7, <1>10, TighterIs
  <2> HIDE DEF target
  <2> QED  BY <1>6, <1>7, <1>10, <2>1
<1> HIDE DEF target
<1>12. Stepped(step, swap.price, target, swap.remaining, exact)
  <2>1. SqrtAt(MinTick) <= swap.price /\ swap.price <= SqrtAt(MaxTick)
    BY <1>6, EndsAre DEF Low, High
  <2>2. swap.remaining \in Nat \ {0}  BY <1>0, <1>1
  <2> QED  BY <1>1, <1>4, <1>5, <1>11, <2>1, <2>2, SwapStepIs
<1> HIDE DEF step
<1>13. /\ step.price \in Int /\ step.in \in Nat /\ step.out \in Nat
       /\ used \in Nat /\ used <= swap.remaining
       /\ step.price = target \/ used = swap.remaining
       /\ IF down THEN SqrtAt(next.tick) <= step.price /\ bound <= step.price
                       /\ step.price <= swap.price
          ELSE step.price <= SqrtAt(next.tick) /\ step.price <= bound
               /\ swap.price <= step.price
  BY <1>1, <1>6, <1>7, <1>10, <1>11, <1>12 DEF Stepped
<1> DEFINE crossed == IF step.price = SqrtAt(next.tick) THEN NetAt(nets, next.tick) ELSE 0
           tick2 == to.tick
(* What advance_tick makes of it. *)
<1>14. /\ to.tick = TickAfter(next, step.price, swap.price, swap.tick, down)
       /\ to.net = IF down THEN -crossed ELSE crossed
       /\ crossed \in Int
  <2>1. Advance(next, step.price) =
          IF step.price = SqrtAt(next.tick)
          THEN [ tick |-> IF down THEN next.tick - 1 ELSE next.tick,
                 net |-> IF ~next.initialized THEN 0
                         ELSE IF next.tick \notin DOMAIN nets THEN None
                         ELSE NetLiquidity(nets, next.tick, down) ]
          ELSE [ tick |-> IF step.price # swap.price THEN TickAt(step.price) ELSE swap.tick,
                 net |-> 0 ]
    BY DEF Advance, down, nets
  <2>2. next.initialized <=> next.tick \in DOMAIN nets  BY <1>9 DEF Nexts
  <2>3. crossed \in Int  BY <1>3 DEF NetAt, IsNets
  <2>4. CASE step.price = SqrtAt(next.tick)
    <3>1. to.tick = (IF down THEN next.tick - 1 ELSE next.tick)  BY <2>1, <2>4
    <3>2. to.net = IF next.tick \notin DOMAIN nets THEN 0
                   ELSE NetLiquidity(nets, next.tick, down)
      BY <2>1, <2>2, <2>4
    <3>3. to.net = IF down THEN -crossed ELSE crossed
      <4>1. crossed = NetAt(nets, next.tick)  BY <2>4
      <4> HIDE DEF crossed
      <4> QED  BY <3>2, <4>1 DEF NetLiquidity, NetAt
    <3>4. to.tick = TickAfter(next, step.price, swap.price, swap.tick, down)
      BY <2>4, <3>1 DEF TickAfter
    <3> HIDE DEF to, crossed
    <3> QED  BY <2>3, <3>3, <3>4
  <2>5. CASE step.price # SqrtAt(next.tick)
    <3>1. /\ to.tick = IF step.price # swap.price THEN TickAt(step.price) ELSE swap.tick
          /\ to.net = 0 /\ crossed = 0
      BY <2>1, <2>5
    <3>2. to.tick = TickAfter(next, step.price, swap.price, swap.tick, down)
      BY <2>5, <3>1 DEF TickAfter
    <3>3. to.net = 0 /\ crossed = 0  BY <3>1
    <3> HIDE DEF to, crossed
    <3>4. \A n \in Int : n <= 0 /\ 0 <= n => -n = 0  OBVIOUS
    <3>5. crossed <= 0 /\ 0 <= crossed  BY <2>3, <3>3
    <3>6. -crossed = 0  BY <2>3, <3>4, <3>5
    <3>7. CASE down  BY <2>3, <3>2, <3>3, <3>6, <3>7
    <3>8. CASE ~down  BY <2>3, <3>2, <3>3, <3>8
    <3> QED  BY <3>7, <3>8
  <2> QED  BY <2>4, <2>5
<1>15. Crosses(nets, next, step.price, swap.tick, tick2, down)
  BY <1>1, <1>2, <1>3, <1>9, <1>10, <1>13, <1>14, Crossing
<1> HIDE DEF to
<1>16. /\ OnTick(step.price, tick2) /\ tick2 \in Int
       /\ IF down THEN tick2 <= swap.tick /\ NetOver(nets, tick2, swap.tick) = crossed
          ELSE swap.tick <= tick2 /\ NetOver(nets, swap.tick, tick2) = crossed
       /\ step.price = SqrtAt(next.tick) => tick2 # swap.tick
  BY <1>15 DEF Crosses, OnTick
<1> HIDE DEF crossed, tick2
<1>17. to.net \in Int /\ liquidity = swap.liquidity + to.net
  BY <1>14
<1> HIDE DEF liquidity, used
<1>18. /\ goes.price = step.price /\ goes.tick = tick2 /\ goes.liquidity = liquidity
       /\ goes.remaining = swap.remaining - used
  BY DEF tick2
<1> HIDE DEF goes
<1>19. Bounds(bound, goes.price, down)  BY <1>6, <1>7, <1>13, <1>18 DEF Bounds
<1>20. OnTick(goes.price, goes.tick)  BY <1>16, <1>18
<1>21. ASSUME down
       PROVE  /\ goes.price <= pool.price /\ goes.tick <= pool.tick
              /\ goes.liquidity = pool.liquidity - NetOver(nets, goes.tick, pool.tick)
  <2>1. tick2 <= swap.tick /\ swap.tick <= pool.tick  BY <1>2, <1>16, <1>21
  <2>2. /\ NetOver(nets, tick2, pool.tick) =
             NetOver(nets, tick2, swap.tick) + NetOver(nets, swap.tick, pool.tick)
    BY <1>1, <1>3, <1>16, <2>1, NetOverSplits
  <2>3. NetOver(nets, swap.tick, pool.tick) \in Int  BY <1>1, <1>3, <2>1, NetOverFew
  <2>4. goes.liquidity = pool.liquidity - NetOver(nets, goes.tick, pool.tick)
    BY <1>1, <1>2, <1>3, <1>14, <1>16, <1>17, <1>18, <1>21, <2>2, <2>3
  <2>5. goes.price <= pool.price /\ goes.tick <= pool.tick
    BY <1>1, <1>2, <1>3, <1>13, <1>16, <1>18, <1>21, <2>1
  <2> QED  BY <2>4, <2>5
<1>22. ASSUME ~down
       PROVE  /\ pool.price <= goes.price /\ pool.tick <= goes.tick
              /\ goes.liquidity = pool.liquidity + NetOver(nets, pool.tick, goes.tick)
  <2>1. swap.tick <= tick2 /\ pool.tick <= swap.tick  BY <1>2, <1>16, <1>22
  <2>2. /\ NetOver(nets, pool.tick, tick2) =
             NetOver(nets, pool.tick, swap.tick) + NetOver(nets, swap.tick, tick2)
    BY <1>1, <1>3, <1>16, <2>1, NetOverSplits
  <2>3. NetOver(nets, pool.tick, swap.tick) \in Int  BY <1>1, <1>3, <2>1, NetOverFew
  <2>4. goes.liquidity = pool.liquidity + NetOver(nets, pool.tick, goes.tick)
    BY <1>1, <1>2, <1>3, <1>14, <1>16, <1>17, <1>18, <1>22, <2>2, <2>3
  <2>5. pool.price <= goes.price /\ pool.tick <= goes.tick
    BY <1>1, <1>2, <1>3, <1>13, <1>16, <1>18, <1>22, <2>1
  <2> QED  BY <2>4, <2>5
<1>23. Moving(pool, goes, bound, down)
  BY <1>13, <1>18, <1>19, <1>20, <1>21, <1>22 DEF Moving, nets
<1>24. ASSUME goes.remaining # 0, goes.price # bound
       PROVE  MovesOn(swap.tick, goes.tick, down)
  <2>1. step.price = target  BY <1>1, <1>13, <1>18, <1>24
  <2>2. step.price = SqrtAt(next.tick)  BY <1>11, <1>18, <1>24, <2>1
  <2> QED  BY <1>1, <1>16, <1>18, <2>2 DEF MovesOn
<1>25. Toward(target, next, swap.price, bound, down)  BY <1>11 DEF Toward
<1>26. to.tick \in Int  BY <1>16 DEF tick2
<1> QED
  BY <1>5, <1>9, <1>13, <1>17, <1>23, <1>24, <1>25, <1>26, <1>a, <1>b, <1>c, <1>d
     DEF StepGoes, down, bound, nets, fee

LEMMA SwapSteps ==
  ASSUME Fetched(pool), ask \in Ask, Down \in BOOLEAN, Looping(pool, swap, Bind, Down), Step
  PROVE  \/ swap' = None /\ answer' = Fails(ErrorNow) /\ ErrorNow # "Ok" /\ answer' \in Answer
         \/ /\ UNCHANGED answer /\ swap' = GoesNow /\ Looping(pool, swap', Bind, Down)
            /\ swap'.remaining # 0 /\ swap'.price # Bind =>
                 MovesOn(swap.tick, swap'.tick, Down)
<1>0. /\ swap.remaining # 0 /\ swap.price # Bind
      /\ IF ErrorNow # "Ok" THEN swap' = None /\ answer' = Fails(ErrorNow)
         ELSE swap' = GoesNow /\ UNCHANGED answer
  BY DEF Step, Running, ErrorNow, GoesNow, UsedNow, ToNow, StepNow, NextNow, TargetNow
<1>1. StepGoes  BY <1>0, StepMoves
<1>2. CASE ErrorNow # "Ok"
  <2>1. swap' = None /\ answer' = Fails(ErrorNow)  BY <1>0, <1>2
  <2>2. ErrorNow \in QuoteError  BY <1>2 DEF QuoteError, ErrorNow
  <2>3. Fails(ErrorNow) \in Answer  BY <2>2 DEF Fails, Answer
  <2> QED  BY <1>2, <2>1, <2>3
<1>3. CASE ErrorNow = "Ok"
  <2>1. swap' = GoesNow /\ UNCHANGED answer  BY <1>0, <1>3
  <2>2. GoesNow \in Swap
    <3>1. swap.remaining \in 0..MaxI256 /\ swap.in \in Nat /\ swap.out \in Nat
          /\ MaxI256 \in Nat
      BY EngineAssumption DEF Looping, Swap
    <3>2. swap.liquidity + ToNow.net \in 0..MaxLiquidity  BY <1>3 DEF ErrorNow
    <3>3. /\ UsedNow \in Nat /\ UsedNow <= swap.remaining
          /\ StepNow.price \in Int /\ StepNow.in \in Nat /\ StepNow.out \in Nat
          /\ ToNow.tick \in Int
      BY <1>1 DEF StepGoes
    <3>4. swap.remaining - UsedNow \in 0..MaxI256  BY <3>1, <3>3
    <3>5. swap.in + StepNow.in \in Nat /\ swap.out + StepNow.out \in Nat  BY <3>1, <3>3
    <3> QED  BY <3>2, <3>3, <3>4, <3>5 DEF GoesNow, Swap
  <2> QED  BY <1>1, <2>1, <2>2 DEF StepGoes, Looping
<1> QED  BY <1>2, <1>3

-----------------------------------------------------------------------------
(* The loop, under any sequence of steps. *)

LoopInv ==
  /\ pool # None => stage = "Built" /\ \E i \in 1..Len(built) : pool = built[i]
  /\ ask # None => pool # None /\ ask \in Asks(pool) /\ ask \in Ask
  /\ answer \in Answer \cup {None}
  /\ swap # None => /\ ask # None /\ Down \in BOOLEAN \ {None}
                     /\ Looping(pool, swap, Bind, Down)

EngineInv == SourceInv /\ LoopInv

LEMMA PoolIsFetched == ASSUME EngineInv, pool # None PROVE Fetched(pool)
<1>1. stage = "Built"  BY DEF EngineInv, LoopInv
<1>2. PICK i \in 1..Len(built) : pool = built[i]  BY DEF EngineInv, LoopInv
<1> QED  BY <1>1, <1>2, FetchedIs DEF EngineInv

(* What the direction and the bound are only depends on the snapshot and   *)
(* the question.                                                           *)
LEMMA BindStays == ASSUME UNCHANGED <<pool, ask>> PROVE Down' = Down /\ Bind' = Bind
<1>1. Down' = Down  BY DEF Down, Direction
<1>2. Limit(ask)' = Limit(ask)
  BY DEF Limit, ClampedLimit, Direction
<1> QED  BY <1>1, <1>2 DEF Bind

LEMMA TakesPool == ASSUME EngineInv, TakePool PROVE LoopInv'
<1>1. stage = "Built" /\ pool = None /\ UNCHANGED <<sourceVars, ask, swap, answer>>
      /\ \E i \in 1..Len(built) : pool' = built[i]
  BY DEF TakePool
<1>2. ask = None /\ swap = None  BY <1>1 DEF EngineInv, LoopInv
<1>3. answer \in Answer \cup {None}  BY DEF EngineInv, LoopInv
<1> QED  BY <1>1, <1>2, <1>3 DEF LoopInv, sourceVars

LEMMA Refuses ==
  ASSUME EngineInv, pool # None, UNCHANGED sourceVars,
         NEW a \in Asks(pool) \cap Ask, Refuse(a)
  PROVE  LoopInv'
<1>1. ask = None /\ ask' = a /\ pool' = pool /\ swap' = swap
  BY DEF Refuse, Asked
<1>2. swap' = None  BY <1>1 DEF EngineInv, LoopInv
<1>3. answer' \in Answer
  <2>1. CASE Refusal(a) = "Ok"
    <3>1. answer' = Gives(0, 0, TRUE)  BY <2>1 DEF Refuse
    <3> QED  BY <3>1 DEF Gives, Answer
  <2>2. CASE Refusal(a) # "Ok"
    <3>1. answer' = Fails(Refusal(a))  BY <2>2 DEF Refuse
    <3>2. PoolRefusal(pool, a) \in QuoteError \cup {"Ok"}
      <4>1. pool.protocol \in {"UniswapV3", "UniswapV4", "Slipstream"}
        BY PoolIsFetched DEF Fetched
      <4> QED  BY <4>1 DEF PoolRefusal, UniswapV3Refusal, UniswapV4Refusal,
                           SlipstreamRefusal, QuoteError
    <3>3. Refusal(a) \in QuoteError \cup {"Ok"}
      BY <3>2 DEF Refusal, QuoteError
    <3> HIDE DEF Refusal
    <3> QED  BY <3>1, <3>3 DEF Fails, Answer
  <2> QED  BY <2>1, <2>2
<1>4. stage' = stage /\ built' = built  BY DEF sourceVars
<1>5. stage = "Built" /\ \E i \in 1..Len(built) : pool = built[i]
  BY DEF EngineInv, LoopInv
<1> QED  BY <1>1, <1>2, <1>3, <1>4, <1>5 DEF LoopInv

LEMMA Begins ==
  ASSUME EngineInv, pool # None, UNCHANGED sourceVars,
         NEW a \in Asks(pool) \cap Ask, Begin(a)
  PROVE  LoopInv'
<1> DEFINE down == Direction(pool, a.from, a.to)
           bound == BoundFor(a)
           s == [ price |-> pool.price, tick |-> pool.tick,
                  liquidity |-> pool.liquidity, remaining |-> Specified(a),
                  in |-> 0, out |-> 0 ]
<1>1. ask' = a /\ pool' = pool /\ Askable(a) /\ answer' = answer /\ swap' = s
  BY DEF Begin, Asked
<1>2. Fetched(pool)  BY PoolIsFetched
<1>3. /\ down \in BOOLEAN \ {None} /\ Specified(a) \in 0..MaxI256
      /\ Bounds(bound, pool.price, down)
  BY <1>1, <1>2, AskableIs
<1>4. Down' = down  BY <1>1 DEF Down, Direction
<1>5. Bind' = bound
  <2>1. Limit(ask)' = Limit(a)  BY <1>1 DEF Limit, ClampedLimit, Direction
  <2> QED  BY <1>1, <1>4, <2>1 DEF Bind, BoundFor
<1>6. Looping(pool, s, bound, down)
  <2> HIDE DEF down, bound
  <2> QED  BY <1>2, <1>3, SwapStarts
<1>7. stage' = stage /\ built' = built  BY DEF sourceVars
<1>8. stage = "Built" /\ (\E i \in 1..Len(built) : pool = built[i])
      /\ answer \in Answer \cup {None}
  BY DEF EngineInv, LoopInv
<1>9. a # None  BY EngineAssumption
<1> HIDE DEF s, down, bound
<1>10. Down' \in BOOLEAN \ {None} /\ Looping(pool', swap', Bind', Down')
  BY <1>1, <1>3, <1>4, <1>5, <1>6
<1> QED  BY <1>1, <1>7, <1>8, <1>9, <1>10 DEF LoopInv

LEMMA Steps ==
  ASSUME EngineInv, UNCHANGED sourceVars, Step
  PROVE  /\ LoopInv'
         /\ (swap # None /\ swap' # None /\ Running') => MovesOn(swap.tick, swap'.tick, Down)
<1>1. swap # None /\ UNCHANGED <<pool, ask>>  BY DEF Step, Running
<1>2. /\ ask # None /\ Down \in BOOLEAN \ {None} /\ Looping(pool, swap, Bind, Down)
      /\ pool # None /\ ask \in Asks(pool) /\ ask \in Ask /\ answer \in Answer \cup {None}
      /\ stage = "Built" /\ \E i \in 1..Len(built) : pool = built[i]
  BY <1>1 DEF EngineInv, LoopInv
<1>3. Down' = Down /\ Bind' = Bind  BY <1>1, BindStays
<1>4. Fetched(pool)  BY <1>2, PoolIsFetched
<1>5. \/ swap' = None /\ answer' \in Answer
      \/ /\ UNCHANGED answer /\ Looping(pool, swap', Bind, Down)
         /\ swap'.remaining # 0 /\ swap'.price # Bind =>
              MovesOn(swap.tick, swap'.tick, Down)
  BY <1>2, <1>4, SwapSteps
<1>6. stage' = stage /\ built' = built  BY DEF sourceVars
<1>7. LoopInv'
  <2>1. answer' \in Answer \cup {None}  BY <1>2, <1>5
  <2>2. swap' # None => Looping(pool', swap', Bind', Down')  BY <1>1, <1>3, <1>5
  <2> QED  BY <1>1, <1>2, <1>3, <1>6, <2>1, <2>2 DEF LoopInv
<1>8. ASSUME swap' # None, Running' PROVE MovesOn(swap.tick, swap'.tick, Down)
  <2>1. swap'.remaining # 0 /\ swap'.price # Bind'  BY <1>8 DEF Running
  <2> QED  BY <1>3, <1>5, <1>8, <2>1
<1> QED  BY <1>7, <1>8

LEMMA Finishes == ASSUME EngineInv, UNCHANGED sourceVars, Finish PROVE LoopInv'
<1>1. swap # None /\ swap' = None /\ answer' = Outcome /\ UNCHANGED <<pool, ask>>
  BY DEF Finish
<1>2. /\ Looping(pool, swap, Bind, Down)
      /\ pool # None /\ ask \in Asks(pool) /\ ask \in Ask
      /\ stage = "Built" /\ \E i \in 1..Len(built) : pool = built[i]
  BY <1>1 DEF EngineInv, LoopInv
<1>3. swap.in \in Nat /\ swap.out \in Nat  BY <1>2 DEF Looping, Swap
<1>4. Outcome \in Answer  BY <1>3 DEF Outcome, Gives, Fails, Answer, QuoteError
<1>5. stage' = stage /\ built' = built  BY DEF sourceVars
<1> QED  BY <1>1, <1>2, <1>4, <1>5 DEF LoopInv

LEMMA EngineNextIs == ASSUME EngineInv, [Next]_vars PROVE LoopInv'
<1>1. CASE UNCHANGED vars
  <2>1. UNCHANGED <<pool, ask>> /\ stage' = stage /\ built' = built
        /\ swap' = swap /\ answer' = answer
    BY <1>1 DEF vars
  <2>2. Down' = Down /\ Bind' = Bind  BY <2>1, BindStays
  <2> QED  BY <2>1, <2>2 DEF EngineInv, LoopInv
<1>2. CASE ChainMoves \/ Round1 \/ Round2 \/ TransportFails
  <2>1. stage # "Built" /\ UNCHANGED engineVars
    BY <1>2 DEF ChainMoves, Round1, Round2, TransportFails
  <2>2. pool = None /\ ask = None /\ swap = None /\ answer \in Answer \cup {None}
    BY <2>1 DEF EngineInv, LoopInv
  <2> QED  BY <2>1, <2>2 DEF engineVars, LoopInv
<1>3. CASE TakePool  BY <1>3, TakesPool
<1>4. CASE Engine
  <2>1. UNCHANGED sourceVars  BY <1>4 DEF Engine
  <2>2. CASE Question
    <3>1. pool # None /\ \E a \in Asks(pool) \cap Ask : Refuse(a) \/ Begin(a)
      BY <2>2 DEF Question
    <3>2. PICK a \in Asks(pool) \cap Ask : Refuse(a) \/ Begin(a)  BY <3>1
    <3> QED  BY <2>1, <3>1, <3>2, Refuses, Begins
  <2>3. CASE Step  BY <2>1, <2>3, Steps
  <2>4. CASE Finish  BY <2>1, <2>4, Finishes
  <2> QED  BY <1>4, <2>2, <2>3, <2>4 DEF Engine, EngineNext
<1> QED  BY <1>1, <1>2, <1>3, <1>4 DEF Next

THEOREM EngineAlways == Spec => []EngineInv
<1>1. Init => EngineInv
  <2>1. Init => LoopInv  BY DEF Init, LoopInv
  <2> QED  BY <2>1, InitSource DEF EngineInv
<1>2. EngineInv /\ [Next]_vars => EngineInv'
  <2>1. ASSUME EngineInv, [Next]_vars PROVE EngineInv'
    <3>1. LoopInv'  BY <2>1, EngineNextIs
    <3>2. SourceInv'  BY <2>1, SourceNext DEF EngineInv
    <3> QED  BY <3>1, <3>2 DEF EngineInv
  <2> QED  BY <2>1
<1> QED  BY <1>1, <1>2, PTL DEF Spec

(* The direction of the swap, by the assets and by the chain.              *)
LEMMA FallsIs ==
  ASSUME EngineInv, pool # None, Down \in BOOLEAN \ {None}
  PROVE  Falls <=> Down
<1>1. /\ pool.assets \in Asset \X Asset /\ pool.assets = blocks[1][pool.id].assets
  BY PoolIsFetched DEF Fetched
<1>2. PICK x \in Asset, y \in Asset : pool.assets = <<x, y>>  BY <1>1
<1>3. Falls <=> ask.from = x  BY <1>1, <1>2 DEF Falls
<1>4. Down = IF <<ask.from, ask.to>> = pool.assets THEN TRUE
             ELSE IF <<ask.to, ask.from>> = pool.assets THEN FALSE ELSE None
  BY DEF Down, Direction
<1>5. \A v, w : <<v, w>> = pool.assets <=> (v = x /\ w = y)  BY <1>2
<1>6. CASE <<ask.from, ask.to>> = pool.assets  BY <1>3, <1>4, <1>5, <1>6
<1>7. CASE /\ <<ask.from, ask.to>> # pool.assets
           /\ <<ask.to, ask.from>> = pool.assets
  <2>1. Down = FALSE  BY <1>4, <1>7
  <2>2. ask.to = x /\ ask.from = y /\ ~(ask.from = x /\ ask.to = y)  BY <1>5, <1>7
  <2>3. ask.from # x  BY <2>2
  <2> QED  BY <1>3, <2>1, <2>3
<1>8. CASE /\ <<ask.from, ask.to>> # pool.assets
           /\ <<ask.to, ask.from>> # pool.assets
  BY <1>4, <1>8
<1> QED  BY <1>6, <1>7, <1>8

(* LoopMovesOn: an iteration of simulate() after which the loop goes on    *)
(* has moved to another tick, down if the first asset is sold and up if    *)
(* not (protocols/concentrated.rs), whatever ticks were fetched, at every  *)
(* spacing and word size, and for every amount and limit; so the loop      *)
(* never comes back to a boundary it has crossed.                          *)
THEOREM LoopMovesOnAlways == Spec => LoopMovesOn
<1> DEFINE Moves == (swap # None /\ swap' # None /\ Running') =>
                      IF Falls THEN swap'.tick < swap.tick ELSE swap'.tick > swap.tick
<1>1. EngineInv /\ [Next]_vars => [Moves]_vars
  <2>1. SUFFICES ASSUME EngineInv, Next, swap # None, swap' # None, Running'
                 PROVE  IF Falls THEN swap'.tick < swap.tick ELSE swap'.tick > swap.tick
    OBVIOUS
  <2>2. stage = "Built" /\ pool # None /\ ask # None /\ Down \in BOOLEAN \ {None}
    BY <2>1 DEF EngineInv, LoopInv
  <2>3. Step /\ UNCHANGED sourceVars
    <3>1. ~ChainMoves /\ ~Round1 /\ ~Round2 /\ ~TransportFails /\ ~TakePool
      BY <2>2 DEF ChainMoves, Round1, Round2, TransportFails, TakePool
    <3>2. ~Question /\ ~Finish
      BY <2>1, <2>2 DEF Question, Refuse, Begin, Asked, Finish
    <3> QED  BY <2>1, <3>1, <3>2 DEF Next, Engine, EngineNext
  <2>4. MovesOn(swap.tick, swap'.tick, Down)  BY <2>1, <2>3, Steps
  <2>5. Falls <=> Down  BY <2>1, <2>2, FallsIs
  <2> QED  BY <2>4, <2>5 DEF MovesOn
<1> QED  BY <1>1, EngineAlways, PTL DEF Spec, LoopMovesOn

(* LoopKeepsTrack: in every iteration, of every swap from every snapshot   *)
(* that a refresh can build, the tick is the one of the price, or the one  *)
(* below a boundary the price stands on; the liquidity in use is that of   *)
(* the snapshot with exactly the ticks between the two crossed; and the    *)
(* price has moved towards its bound and not past it                       *)
(* (protocols/concentrated.rs, simulate).                                  *)
THEOREM LoopKeepsTrackAlways == Spec => []LoopKeepsTrack
<1>1. ASSUME EngineInv PROVE LoopKeepsTrack
  <2>1. SUFFICES ASSUME swap # None
                 PROVE  LET below == swap.tick <= pool.tick
                        IN  /\ swap.tick = TickAt(swap.price)
                               \/ swap.price = SqrtAt(swap.tick + 1)
                            /\ swap.liquidity = pool.liquidity +
                                 (IF below
                                  THEN -NetOver(pool.data.nets, swap.tick, pool.tick)
                                  ELSE NetOver(pool.data.nets, pool.tick, swap.tick))
                            /\ IF Falls THEN swap.price \in Bind .. pool.price
                               ELSE swap.price \in pool.price .. Bind
    BY DEF LoopKeepsTrack
  <2> DEFINE nets == pool.data.nets
             over == NetOver(nets, pool.tick, swap.tick)
             under == NetOver(nets, swap.tick, pool.tick)
  <2>2. pool # None /\ Down \in BOOLEAN \ {None} /\ Looping(pool, swap, Bind, Down)
    BY <1>1, <2>1 DEF EngineInv, LoopInv
  <2>3. Falls <=> Down  BY <1>1, <2>2, FallsIs
  <2>4. /\ swap.price \in Int /\ swap.tick \in Int /\ swap.liquidity \in Int
        /\ Bounds(Bind, swap.price, Down) /\ OnTick(swap.price, swap.tick)
        /\ IF Down THEN /\ swap.price <= pool.price /\ swap.tick <= pool.tick
                        /\ swap.liquidity = pool.liquidity - under
           ELSE /\ pool.price <= swap.price /\ pool.tick <= swap.tick
                /\ swap.liquidity = pool.liquidity + over
    BY <2>2, EngineAssumption DEF Looping, Moving, Swap
  <2>5. /\ pool.tick \in Int /\ pool.price \in Int /\ pool.liquidity \in Int /\ IsNets(nets)
    <3>1. Fetched(pool)  BY <1>1, <2>2, PoolIsFetched
    <3>2. \A t \in Tick : t \in Int  BY TicksAssumption DEF Tick
    <3> QED  BY <3>1, <3>2, EndsAre, EngineAssumption DEF Fetched, Mapped
  <2>6. swap.tick = TickAt(swap.price) \/ swap.price = SqrtAt(swap.tick + 1)
    BY <2>4 DEF OnTick
  <2>7. IF Falls THEN swap.price \in Bind .. pool.price ELSE swap.price \in pool.price .. Bind
    BY <2>3, <2>4, <2>5 DEF Bounds
  <2>8. /\ swap.tick <= pool.tick => under \in Int
        /\ pool.tick <= swap.tick => over \in Int
        /\ swap.tick = pool.tick => over = 0 /\ under = 0
    BY <2>4, <2>5, NetOverFew
  <2> HIDE DEF nets, over, under
  <2>9. swap.liquidity = pool.liquidity +
          (IF swap.tick <= pool.tick THEN -under ELSE over)
    <3>1. CASE Down  BY <2>4, <2>5, <2>8, <3>1
    <3>2. CASE ~Down /\ swap.tick = pool.tick
      <4>1. under <= 0 /\ 0 <= under /\ over <= 0 /\ 0 <= over /\ under \in Int /\ over \in Int
        BY <2>8, <3>2
      <4> QED  BY <2>4, <2>5, <3>2, <4>1
    <3>3. CASE ~Down /\ swap.tick # pool.tick  BY <2>4, <2>5, <2>8, <3>3
    <3> QED  BY <3>1, <3>2, <3>3
  <2> QED  BY <2>6, <2>7, <2>9 DEF nets, over, under
<1> QED  BY <1>1, EngineAlways, PTL

(* TypeOK, for every request and every sequence of failed reads: every     *)
(* snapshot that a refresh returns is one, with a window inside the range  *)
(* of ticks, however near its end the price lies (with_window_around), and *)
(* no iteration of simulate() leaves the ranges of its integers: the       *)
(* liquidity stays within a u128 and what remains between 0 and the amount *)
(* that was asked for.                                                     *)
THEOREM TickTypeOKAlways == Spec => []TypeOK
<1>1. ASSUME EngineInv PROVE TypeOK
  <2>1. Requested /\ Rounds  BY <1>1 DEF EngineInv, SourceInv
  <2>2. keys \in Seq(PoolId)  BY <2>1 DEF Requested
  <2>3. \A id \in DOMAIN heads : IsChain(heads[id]) /\ (at # None => IsChain(at[id]))
    <3>1. DOMAIN heads = ToSet(keys)  BY <2>1 DEF Requested, IsBlock
    <3>2. \A id \in ToSet(keys) : IsChain(heads[id])  BY <2>1 DEF Requested, IsBlock
    <3>3. at # None => \A id \in ToSet(keys) : IsChain(at[id])
      BY <2>1 DEF Requested, IsBlock
    <3> QED  BY <3>1, <3>2, <3>3
  <2>4. Len(blocks) <= 2 /\ stage \in {"Idle", "Round1", "Built", "Failed"}
    BY <2>1 DEF Rounds
  <2>5. \A i \in 1..Len(states) : states[i].id \in PoolId
    <3>1. CASE Len(blocks) = 0
      <4>1. states = <<>>  BY <2>1, <3>1 DEF Rounds
      <4> QED  BY <4>1
    <3>2. CASE Len(blocks) # 0
      <4>1. PICK from : Decodes(states, blocks[1], from)  BY <2>1, <3>2 DEF Rounds, Decoded1
      <4>2. \A k \in 1..Len(keys) : keys[k] \in PoolId  BY <2>2
      <4>3. ASSUME NEW i \in 1..Len(states) PROVE states[i].id = keys[from[i]]
        <5>1. states[i] = StateFor(keys[from[i]], blocks[1][keys[from[i]]])
          BY <4>1 DEF Decodes
        <5> QED  BY <5>1 DEF StateFor
      <4>4. \A i \in 1..Len(states) : from[i] \in 1..Len(keys)  BY <4>1 DEF Decodes
      <4> QED  BY <4>2, <4>3, <4>4
    <3> QED  BY <3>1, <3>2
  <2>6. \A i \in 1..Len(built) : IsSnapshot(built[i])
    <3>1. CASE stage = "Built"
      <4> SUFFICES ASSUME NEW i \in 1..Len(built) PROVE IsSnapshot(built[i])
        OBVIOUS
      <4> DEFINE p == built[i]
      <4>1. Fetched(p)  BY <1>1, <3>1, FetchedIs DEF EngineInv
      <4> HIDE DEF p
      <4>2. p.price \in Int /\ p.liquidity \in Nat
        BY <4>1, EndsAre, EngineAssumption DEF Fetched
      <4>3. p.data.window \in [low : Tick, high : Tick]  BY <4>1, WithinWindow
      <4>4. IsNets(p.data.nets) /\ p.data.bits \subseteq Int
        BY <4>1, BitsAre DEF Fetched, Mapped
      <4>5. IsSnapshot(p)  BY <4>1, <4>2, <4>3, <4>4 DEF Fetched, IsSnapshot
      <4> QED  BY <4>5 DEF p
    <3>2. CASE stage # "Built"
      <4>1. built = <<>>  BY <2>1, <3>2 DEF Rounds
      <4> QED  BY <4>1
    <3> QED  BY <3>1, <3>2
  <2>7. /\ pool # None => \E i \in 1..Len(built) : pool = built[i]
        /\ ask # None => pool # None /\ ask \in Asks(pool)
        /\ answer \in Answer \cup {None} /\ swap \in Swap \cup {None}
    BY <1>1 DEF EngineInv, LoopInv, Looping
  <2> QED  BY <2>2, <2>3, <2>4, <2>5, <2>6, <2>7 DEF TypeOK
<1> QED  BY <1>1, EngineAlways, PTL

-----------------------------------------------------------------------------
(* A quote against the walk over the chain.                                *)

(* The price after so many units on the way. *)
PriceAfter(price, units, down) == IF down THEN price - units ELSE price + units

(* What a way costs is the sum over its units of price, each of which      *)
(* costs nothing exactly if there is no liquidity.                         *)
AddsUp(price, down, liquidity, fee, units) ==
  LET one == InputFor(1, PriceAfter(price, units, down), down, liquidity, fee)
  IN  /\ InputFor(units + 1, price, down, liquidity, fee)
           = InputFor(units, price, down, liquidity, fee) + one
      /\ one \in Nat /\ (one = 0 <=> liquidity = 0)

LEMMA Distributes ==
  ASSUME NEW k \in Int, NEW a \in Int, NEW b \in Int
  PROVE  k * (a + b) = k * a + k * b /\ k * a \in Int
  OBVIOUS

LEMMA Product ==
  ASSUME NEW a \in Nat, NEW b \in Nat
  PROVE  a * b \in Nat /\ (a * b = 0 <=> a = 0 \/ b = 0)
<1>1. a * b \in Nat  OBVIOUS
<1>2. a = 0 \/ b = 0 => a * b = 0  OBVIOUS
<1>3. a >= 1 /\ b >= 1 => a * b >= 1  OBVIOUS
<1> QED  BY <1>1, <1>2, <1>3

LEMMA Triangle ==
  ASSUME NEW u \in Nat
  PROVE  /\ (u * (u + 1)) \div 2 \in Nat
         /\ ((u + 1) * ((u + 1) + 1)) \div 2 = (u * (u + 1)) \div 2 + (u + 1)
<1> DEFINE s == u * (u + 1)
           t == (u + 1) * ((u + 1) + 1)
<1>1. s \in Nat  BY Product
<1>2. t = s + 2 * (u + 1)
  <2>1. (u + 1) * (u + (1 + 1)) = (u + 1) * u + (u + 1) * (1 + 1)  BY Distributes
  <2>2. (u + 1) * u = u * (u + 1)  OBVIOUS
  <2>3. (u + 1) * (1 + 1) = 2 * (u + 1)  OBVIOUS
  <2>4. (u + 1) + 1 = u + (1 + 1)  OBVIOUS
  <2> QED  BY <2>1, <2>2, <2>3, <2>4
<1> HIDE DEF s, t
<1>3. s \div 2 \in Nat /\ t \div 2 = s \div 2 + (u + 1)  BY <1>1, <1>2
<1> QED  BY <1>3 DEF s, t

LEMMA InputAddsUp ==
  ASSUME NEW price \in Int, NEW down \in BOOLEAN, NEW liquidity \in Nat, NEW fee \in Nat,
         NEW units \in Nat, Travelled(price, down) \in Nat
  PROVE  AddsUp(price, down, liquidity, fee, units)
<1>0. SqrtAt(MinTick) \in Int /\ SqrtAt(MaxTick) \in Int
  BY TicksAssumption DEF SqrtAt
<1> DEFINE way == Travelled(price, down)
           rate == liquidity * (1 + fee)
           a == units * way
           b == (units * (units + 1)) \div 2
           later == PriceAfter(price, units, down)
<1>1. rate \in Nat /\ (rate = 0 <=> liquidity = 0)  BY Product
<1>2. Travelled(later, down) = way + units
  BY <1>0 DEF Travelled, PriceAfter
<1>3. InputFor(units, price, down, liquidity, fee) = rate * (a + b)
  BY DEF InputFor
<1>4. (units + 1) * way = a + way /\ a \in Nat  OBVIOUS
<1>5. ((units + 1) * ((units + 1) + 1)) \div 2 = b + (units + 1) /\ b \in Nat  BY Triangle
<1>6. InputFor(units + 1, price, down, liquidity, fee)
        = rate * ((a + way) + (b + (units + 1)))
  BY <1>4, <1>5 DEF InputFor
<1>7. InputFor(1, later, down, liquidity, fee) = rate * ((way + units) + 1)
  <2>1. 1 * (way + units) = way + units /\ (1 * (1 + 1)) \div 2 = 1  OBVIOUS
  <2> QED  BY <1>2, <2>1 DEF InputFor
<1> HIDE DEF way, rate, a, b, later
<1>8. way \in Nat  BY DEF way
<1>9. rate * ((a + b) + ((way + units) + 1)) = rate * (a + b) + rate * ((way + units) + 1)
  BY <1>1, <1>4, <1>5, <1>8, Distributes
<1>10. (a + way) + (b + (units + 1)) = (a + b) + ((way + units) + 1)
  BY <1>4, <1>5, <1>8
<1>11. rate * ((way + units) + 1) \in Nat
       /\ (rate * ((way + units) + 1) = 0 <=> liquidity = 0)
  <2>1. (way + units) + 1 \in Nat /\ (way + units) + 1 # 0  BY <1>8
  <2> QED  BY <1>1, <2>1, Product
<1> QED  BY <1>3, <1>6, <1>7, <1>9, <1>10, <1>11 DEF AddsUp, later

(* What the first units of a way come to: nothing without liquidity, and   *)
(* more with each of them otherwise.                                       *)
Accrues(I, liquidity, g) ==
  /\ I \in [0..g -> Nat] /\ I[0] = 0
  /\ \A j \in 1..g : IF liquidity = 0 THEN I[j] = I[j - 1] ELSE I[j - 1] < I[j]

LEMMA Accrued ==
  ASSUME NEW g \in Nat, NEW liquidity \in Nat, NEW I, Accrues(I, liquidity, g),
         NEW m \in 0..g, NEW i \in 0..m
  PROVE  I[i] <= I[m] /\ (IF liquidity = 0 THEN I[m] = 0 ELSE i < m => I[i] < I[m])
<1>1. \A j \in 0..g : I[j] \in Nat  BY DEF Accrues
<1> DEFINE S == {k \in 0..m - i : I[i + k] >= I[i] /\ (liquidity # 0 => I[i + k] >= I[i] + k)}
<1>2. 0 \in S  BY <1>1
<1>3. ASSUME NEW k \in 0..(m - i) - 1, k \in S PROVE k + 1 \in S
  <2>1. i + (k + 1) \in 1..g /\ (i + (k + 1)) - 1 = i + k /\ i + k \in 0..g /\ k + 1 \in 0..m - i
    OBVIOUS
  <2>2. IF liquidity = 0 THEN I[i + (k + 1)] = I[i + k] ELSE I[i + k] < I[i + (k + 1)]
    BY <2>1 DEF Accrues
  <2>3. I[i + k] \in Nat /\ I[i + (k + 1)] \in Nat /\ I[i] \in Nat  BY <1>1, <2>1
  <2>4. I[i + k] >= I[i] /\ (liquidity # 0 => I[i + k] >= I[i] + k)  BY <1>3
  <2>5. I[i + (k + 1)] >= I[i] /\ (liquidity # 0 => I[i + (k + 1)] >= I[i] + (k + 1))
    BY <2>2, <2>3, <2>4
  <2> QED  BY <2>1, <2>5
<1>4. m - i \in S
  <2>1. m - i \in Nat  OBVIOUS
  <2> HIDE DEF S
  <2>2. 0..m - i \subseteq S  BY <1>2, <1>3, <2>1, BoundedInduction
  <2> QED  BY <2>1, <2>2
<1>5. i + (m - i) = m  OBVIOUS
<1>6. I[m] >= I[i] /\ (liquidity # 0 => I[m] >= I[i] + (m - i))  BY <1>4, <1>5
<1> DEFINE Z == {k \in 0..m : liquidity = 0 => I[k] = 0}
<1>7. 0 \in Z  BY DEF Accrues
<1>8. ASSUME NEW k \in 0..m - 1, k \in Z PROVE k + 1 \in Z
  <2>1. k + 1 \in 1..g /\ (k + 1) - 1 = k /\ k + 1 \in 0..m  OBVIOUS
  <2>2. liquidity = 0 => I[k + 1] = I[k]  BY <2>1 DEF Accrues
  <2> QED  BY <1>8, <2>1, <2>2
<1>9. m \in Z
  <2>1. m \in Nat  OBVIOUS
  <2> HIDE DEF Z
  <2>2. 0..m \subseteq Z  BY <1>7, <1>8, <2>1, BoundedInduction
  <2> QED  BY <2>1, <2>2
<1>10. I[m] \in Nat /\ I[i] \in Nat  BY <1>1
<1> QED  BY <1>6, <1>9, <1>10

(* What they yield. *)
Yields(O, liquidity, g) ==
  O \in [0..g -> Nat] /\ O[0] = 0 /\ \A j \in 1..g : O[j] = O[j - 1] + liquidity

LEMMA YieldsAccrue ==
  ASSUME NEW g \in Nat, NEW liquidity \in Nat, NEW O, Yields(O, liquidity, g)
  PROVE  Accrues(O, liquidity, g)
<1>1. \A j \in 1..g : j - 1 \in 0..g /\ O[j - 1] \in Nat  BY DEF Yields
<1> QED  BY <1>1 DEF Yields, Accrues

(* A walk over a stretch of the same liquidity, from its n-th unit on.     *)
Walks(w, n, g, liquidity, I, exactIn) ==
  \A j \in 1..g : w[n + j] = OneUnit(w[n + (j - 1)], liquidity, I[j] - I[j - 1], exactIn)
Stands(here, left, in, out) == here.left = left /\ here.in = in /\ here.out = out

LEMMA SpendsInput ==
  ASSUME NEW g \in Nat, NEW liquidity \in Nat, NEW I, Accrues(I, liquidity, g),
         NEW O, Yields(O, liquidity, g), NEW w, NEW n \in Nat, Walks(w, n, g, liquidity, I, TRUE),
         NEW r \in Nat \ {0}, NEW in \in Nat, NEW out \in Nat, Stands(w[n], r, in, out),
         NEW m \in 0..g, I[m] <= r
  PROVE  Stands(w[n + m], r - I[m], in + I[m], out + O[m])
<1> DEFINE S == {k \in 0..m : Stands(w[n + k], r - I[k], in + I[k], out + O[k])}
<1>1. \A j \in 0..g : I[j] \in Nat /\ O[j] \in Nat  BY DEF Accrues, Yields
<1>2. 0 \in S
  <2>1. I[0] = 0 /\ O[0] = 0 /\ n + 0 = n  BY DEF Accrues, Yields
  <2> QED  BY <2>1
<1>3. ASSUME NEW k \in 0..m - 1, k \in S PROVE k + 1 \in S
  <2> DEFINE here == w[n + k]
             then == w[n + (k + 1)]
             cost == I[k + 1] - I[k]
  <2>1. k + 1 \in 1..g /\ (k + 1) - 1 = k /\ k + 1 \in 0..m /\ k \in 0..g /\ k \in 0..m
        /\ m \in 0..g /\ k < m
    OBVIOUS
  <2>2. then = OneUnit(here, liquidity, cost, TRUE)  BY <2>1 DEF Walks
  <2>3. Stands(here, r - I[k], in + I[k], out + O[k])  BY <1>3
  <2>4. I[k] \in Nat /\ I[k + 1] \in Nat /\ O[k] \in Nat  BY <1>1, <2>1
  <2>5. I[k] < r
    <3>1. IF liquidity = 0 THEN I[m] = 0 ELSE I[k] < I[m]  BY <2>1, Accrued
    <3>2. I[k] <= I[m] /\ I[m] \in Nat  BY <1>1, <2>1, Accrued
    <3> QED  BY <2>4, <3>1, <3>2
  <2>6. I[k + 1] <= r
    <3>1. I[k + 1] <= I[m] /\ I[m] \in Nat  BY <1>1, <2>1, Accrued
    <3> QED  BY <2>4, <3>1
  <2>7. O[k + 1] = O[k] + liquidity  BY <2>1 DEF Yields
  <2> HIDE DEF here, then, cost
  <2>8. here.left # 0 /\ here.left >= cost  BY <2>3, <2>4, <2>5, <2>6 DEF Stands, cost
  <2>9. then = [left |-> here.left - cost, in |-> here.in + cost,
                out |-> here.out + liquidity, part |-> 0]
    BY <2>2, <2>8 DEF OneUnit
  <2>10. Stands(then, here.left - cost, here.in + cost, here.out + liquidity)
    BY <2>9 DEF Stands
  <2>11. Stands(then, r - I[k + 1], in + I[k + 1], out + O[k + 1])
    BY <2>3, <2>4, <2>7, <2>10 DEF Stands, cost
  <2> QED  BY <2>1, <2>11 DEF then
<1> HIDE DEF S
<1>4. 0..m \subseteq S  BY <1>2, <1>3, BoundedInduction
<1> QED  BY <1>4 DEF S

Least(x, y) == IF x < y THEN x ELSE y

LEMMA SpendsOutput ==
  ASSUME NEW g \in Nat, NEW liquidity \in Nat, NEW I, Accrues(I, liquidity, g),
         NEW O, Yields(O, liquidity, g), NEW w, NEW n \in Nat, Walks(w, n, g, liquidity, I, FALSE),
         NEW r \in Nat \ {0}, NEW in \in Nat, NEW out \in Nat, Stands(w[n], r, in, out),
         NEW m \in 0..g, O[m] < r + liquidity
  PROVE  Stands(w[n + m], r - Least(r, O[m]), in + I[m], out + Least(r, O[m]))
<1> DEFINE S == {k \in 0..m : Stands(w[n + k], r - Least(r, O[k]), in + I[k], out + Least(r, O[k]))}
<1>1. \A j \in 0..g : I[j] \in Nat /\ O[j] \in Nat  BY DEF Accrues, Yields
<1>2. 0 \in S
  <2>1. I[0] = 0 /\ O[0] = 0 /\ n + 0 = n /\ Least(r, 0) = 0  BY DEF Accrues, Yields, Least
  <2> QED  BY <2>1
<1>3. ASSUME NEW k \in 0..m - 1, k \in S PROVE k + 1 \in S
  <2> DEFINE here == w[n + k]
             then == w[n + (k + 1)]
             cost == I[k + 1] - I[k]
             got == IF here.left < liquidity THEN here.left ELSE liquidity
  <2>1. k + 1 \in 1..g /\ (k + 1) - 1 = k /\ k + 1 \in 0..m /\ k \in 0..g /\ k + 1 <= m
    OBVIOUS
  <2>2. then = OneUnit(here, liquidity, cost, FALSE)  BY <2>1 DEF Walks
  <2>3. Stands(here, r - Least(r, O[k]), in + I[k], out + Least(r, O[k]))  BY <1>3
  <2>4. I[k] \in Nat /\ I[k + 1] \in Nat /\ O[k] \in Nat /\ O[k + 1] \in Nat  BY <1>1, <2>1
  <2>5. O[k + 1] = O[k] + liquidity  BY <2>1 DEF Yields
  <2>6. O[k] < r
    <3>1. O[k + 1] <= O[m] /\ O[m] \in Nat  BY <1>1, <2>1, YieldsAccrue, Accrued
    <3> QED  BY <2>4, <2>5, <3>1
  <2> HIDE DEF here, then, cost
  <2>7. here.left = r - O[k] /\ here.in = in + I[k] /\ here.out = out + O[k]
    BY <2>3, <2>4, <2>6 DEF Stands, Least
  <2>8. here.left # 0  BY <2>4, <2>6, <2>7
  <2>9. then = [left |-> here.left - got, in |-> here.in + cost,
                out |-> here.out + got, part |-> 0]
    BY <2>2, <2>8 DEF OneUnit
  <2>10. O[k] + got = Least(r, O[k + 1])  BY <2>4, <2>5, <2>7 DEF Least
  <2>11. got \in Nat  BY <2>4, <2>6, <2>7
  <2> HIDE DEF got
  <2>12. then.left = here.left - got /\ then.in = here.in + cost /\ then.out = here.out + got
    BY <2>9
  <2>13. Least(r, O[k + 1]) \in Nat  BY <2>4 DEF Least
  <2>14. /\ here.left - got = r - Least(r, O[k + 1]) /\ here.in + cost = in + I[k + 1]
         /\ here.out + got = out + Least(r, O[k + 1])
    BY <2>4, <2>7, <2>10, <2>11, <2>13 DEF cost
  <2>15. Stands(then, r - Least(r, O[k + 1]), in + I[k + 1], out + Least(r, O[k + 1]))
    BY <2>12, <2>14 DEF Stands
  <2> QED  BY <2>1, <2>15 DEF then
<1> HIDE DEF S
<1>4. 0..m \subseteq S  BY <1>2, <1>3, BoundedInduction
<1> QED  BY <1>4 DEF S

(* Once nothing is left, nothing happens any more. *)
LEMMA Stuck ==
  ASSUME NEW w, NEW a \in Nat, NEW b \in Nat, a <= b, w[a].left = 0,
         \A k \in a + 1..b : \E liquidity, cost, exactIn :
           w[k] = OneUnit(w[k - 1], liquidity, cost, exactIn)
  PROVE  w[b] = w[a]
<1> DEFINE N == b - a
           S == {k \in 0..N : w[a + k] = w[a]}
<1>0. N \in Nat /\ a + N = b /\ a + 0 = a  OBVIOUS
<1> HIDE DEF N
<1>1. 0 \in S  BY <1>0
<1>2. ASSUME NEW k \in 0..N - 1, k \in S PROVE k + 1 \in S
  <2>1. a + (k + 1) \in a + 1..b /\ (a + (k + 1)) - 1 = a + k /\ k + 1 \in 0..N  BY <1>0
  <2>2. PICK liquidity, cost, exactIn :
          w[a + (k + 1)] = OneUnit(w[a + k], liquidity, cost, exactIn)
    BY <2>1
  <2>3. w[a + k] = w[a]  BY <1>2
  <2>4. w[a + (k + 1)] = w[a]  BY <2>2, <2>3 DEF OneUnit
  <2> QED  BY <2>1, <2>4
<1>3. N \in S
  <2> HIDE DEF S
  <2>1. 0..N \subseteq S  BY <1>0, <1>1, <1>2, BoundedInduction
  <2> QED  BY <1>0, <2>1
<1> QED  BY <1>0, <1>3

(* One step of the loop, in units of price: it goes as many as the amount  *)
(* pays for, or as it takes to yield it, and gives the rest for nothing.   *)
Goes(step, price, target, liquidity, fee, remaining, exactIn, m) ==
  LET down == price > target
      gap == IF down THEN price - target ELSE target - price
      input(units) == InputFor(units, price, down, liquidity, fee)
  IN  /\ m \in 0..gap /\ step.price = PriceAfter(price, m, down)
      /\ m < gap => IF exactIn THEN remaining < input(m + 1)
                    ELSE (m + 1) * liquidity >= remaining + liquidity
      /\ IF exactIn THEN input(m) <= remaining ELSE m * liquidity < remaining + liquidity
      /\ step.in = IF exactIn /\ m < gap THEN remaining ELSE input(m)
      /\ step.out = IF exactIn THEN m * liquidity ELSE Least(remaining, m * liquidity)

GoesSome(step, price, target, liquidity, fee, remaining, exactIn) ==
  \E m \in Nat : Goes(step, price, target, liquidity, fee, remaining, exactIn, m)

LEMMA SwapGoes ==
  ASSUME NEW price \in Int, SqrtAt(MinTick) <= price, price <= SqrtAt(MaxTick),
         NEW target \in Int, NEW liquidity \in Nat, NEW fee \in Nat,
         NEW remaining \in Nat \ {0}, NEW exactIn \in BOOLEAN
  PROVE  GoesSome(SwapStep(price, target, liquidity, fee, remaining, exactIn),
                  price, target, liquidity, fee, remaining, exactIn)
<1> DEFINE down == price > target
           gap == IF down THEN price - target ELSE target - price
           input(units) == InputFor(units, price, down, liquidity, fee)
           affordable == {units \in 0..gap : IF exactIn THEN input(units) <= remaining
                                            ELSE units * liquidity < remaining + liquidity}
           moved == Max(affordable)
           short == exactIn /\ moved < gap
           step == SwapStep(price, target, liquidity, fee, remaining, exactIn)
           out == moved * liquidity
<1>1. step = [ price |-> IF down THEN price - moved ELSE price + moved,
               in    |-> IF short THEN remaining ELSE input(moved),
               out   |-> IF exactIn THEN out ELSE Min({remaining, out}) ]
  BY DEF SwapStep
<1>2. down \in BOOLEAN /\ gap \in Nat /\ gap \in Int  OBVIOUS
<1>3. input(0) = 0
  <2> HIDE DEF down, gap, affordable, moved, short, step, out
  <2>1. Costs(price, down, liquidity, fee)  BY <1>2, InputIs
  <2> QED  BY <2>1 DEF Costs
<1> HIDE DEF input
<1>4. /\ affordable \subseteq 0..gap
      /\ \A units \in 0..gap :
           units \in affordable <=>
             IF exactIn THEN input(units) <= remaining
             ELSE units * liquidity < remaining + liquidity
  <2> HIDE DEF gap
  <2> QED  OBVIOUS
<1> HIDE DEF affordable, gap
<1>5. 0 \in affordable
  <2>1. 0 * liquidity < remaining + liquidity /\ input(0) <= remaining  BY <1>3
  <2>2. 0 \in 0..gap  BY <1>2
  <2> QED  BY <1>4, <2>1, <2>2
<1>6. moved \in affordable /\ \A units \in affordable : units <= moved
  <2>1. affordable \in SUBSET Int /\ affordable # {} /\ \A units \in affordable : units <= gap
    BY <1>2, <1>4, <1>5
  <2> QED  BY <1>2, <2>1, MaxIs, Zenon
<1> HIDE DEF moved
<1>7. moved \in 0..gap /\ moved \in Nat /\ gap \in Int  BY <1>2, <1>4, <1>6
<1>8. out \in Nat  BY <1>7, Product
<1>9. Min({remaining, out}) = Least(remaining, out)
  <2> HIDE DEF out
  <2>1. {remaining, out} \in SUBSET Int /\ {remaining, out} # {}
        /\ \A x \in {remaining, out} : 0 <= x
    BY <1>8
  <2>2. 0 \in Int  OBVIOUS
  <2>3. Min({remaining, out}) \in {remaining, out}
        /\ \A x \in {remaining, out} : Min({remaining, out}) <= x
    BY <2>1, <2>2, MinIs
  <2> QED  BY <1>8, <2>3 DEF Least
<1>10. IF exactIn THEN input(moved) <= remaining ELSE out < remaining + liquidity
  BY <1>4, <1>6, <1>7
<1>11. moved < gap => IF exactIn THEN remaining < input(moved + 1)
                      ELSE (moved + 1) * liquidity >= remaining + liquidity
  <2> SUFFICES ASSUME moved < gap
               PROVE  IF exactIn THEN remaining < input(moved + 1)
                      ELSE (moved + 1) * liquidity >= remaining + liquidity
    OBVIOUS
  <2>1. moved + 1 \in 0..gap /\ ~(moved + 1 <= moved) /\ moved + 1 \in Nat  BY <1>7
  <2>2. moved + 1 \notin affordable  BY <1>6, <2>1
  <2>3. IF exactIn THEN ~(input(moved + 1) <= remaining)
        ELSE ~((moved + 1) * liquidity < remaining + liquidity)
    BY <1>4, <2>1, <2>2
  <2>4. (moved + 1) * liquidity \in Nat  BY <2>1, Product
  <2>5. input(moved + 1) \in Nat
    <3>1. Costs(price, down, liquidity, fee)  BY <1>2, InputIs
    <3> QED  BY <2>1, <3>1 DEF Costs, input
  <2> HIDE DEF down
  <2> DEFINE p == (moved + 1) * liquidity
             q == input(moved + 1)
  <2>6. p \in Nat /\ q \in Nat /\ IF exactIn THEN ~(q <= remaining) ELSE ~(p < remaining + liquidity)
    BY <2>3, <2>4, <2>5
  <2> HIDE DEF p, q
  <2>7. IF exactIn THEN remaining < q ELSE p >= remaining + liquidity  BY <2>6
  <2> QED  BY <2>7 DEF p, q
<1> HIDE DEF down
<1>12. /\ step.price = IF down THEN price - moved ELSE price + moved
       /\ step.in = IF short THEN remaining ELSE input(moved)
       /\ step.out = IF exactIn THEN out ELSE Least(remaining, out)
  BY <1>1, <1>9
<1> HIDE DEF step
<1>13. step.price = PriceAfter(price, moved, down)  BY <1>12 DEF PriceAfter
<1>14. Goes(step, price, target, liquidity, fee, remaining, exactIn, moved)
  BY <1>7, <1>10, <1>11, <1>12, <1>13 DEF Goes, input, gap, down
<1> HIDE DEF Goes
<1>15. GoesSome(step, price, target, liquidity, fee, remaining, exactIn)
  BY <1>7, <1>14 DEF GoesSome
<1> QED  BY <1>15 DEF step

(* What the first units of a way cost, and what they yield, adds up.       *)
Adds(I, O, price, down, liquidity, fee, gap) ==
  /\ Accrues(I, liquidity, gap) /\ Yields(O, liquidity, gap)
  /\ \A j \in 1..gap :
       I[j] - I[j - 1] = InputFor(1, PriceAfter(price, j - 1, down), down, liquidity, fee)

LEMMA WayAdds ==
  ASSUME NEW price \in Int, SqrtAt(MinTick) <= price, price <= SqrtAt(MaxTick),
         NEW down \in BOOLEAN, NEW liquidity \in Nat, NEW fee \in Nat, NEW gap \in Nat,
         NEW I, I = [i \in 0..gap |-> InputFor(i, price, down, liquidity, fee)],
         NEW O, O = [i \in 0..gap |-> i * liquidity]
  PROVE  Adds(I, O, price, down, liquidity, fee, gap)
<1> DEFINE one(j) == InputFor(1, PriceAfter(price, j - 1, down), down, liquidity, fee)
<1>1. Travelled(price, down) \in Nat
  <2>1. SqrtAt(MinTick) \in Int /\ SqrtAt(MaxTick) \in Int  BY EndsAre
  <2> QED  BY <2>1 DEF Travelled
<1>2. Costs(price, down, liquidity, fee)  BY InputIs
<1>3. I \in [0..gap -> Nat] /\ I[0] = 0
  <2>1. \A i \in 0..gap : InputFor(i, price, down, liquidity, fee) \in Nat
    <3>1. \A i \in 0..gap : i \in Nat  OBVIOUS
    <3> QED  BY <1>2, <3>1 DEF Costs
  <2>2. I \in [0..gap -> Nat]  BY <2>1
  <2>3. I[0] = InputFor(0, price, down, liquidity, fee)  OBVIOUS
  <2> QED  BY <1>2, <2>2, <2>3 DEF Costs
<1>4. ASSUME NEW j \in 1..gap
      PROVE  /\ I[j] - I[j - 1] = one(j)
             /\ IF liquidity = 0 THEN I[j] = I[j - 1] ELSE I[j - 1] < I[j]
  <2>1. j - 1 \in Nat /\ (j - 1) + 1 = j /\ j - 1 \in 0..gap /\ j \in 0..gap  OBVIOUS
  <2>2. AddsUp(price, down, liquidity, fee, j - 1)  BY <1>1, <2>1, InputAddsUp
  <2>3. /\ InputFor(j, price, down, liquidity, fee)
             = InputFor(j - 1, price, down, liquidity, fee) + one(j)
        /\ one(j) \in Nat /\ (one(j) = 0 <=> liquidity = 0)
    BY <2>1, <2>2 DEF AddsUp
  <2>4. /\ I[j] = InputFor(j, price, down, liquidity, fee)
        /\ I[j - 1] = InputFor(j - 1, price, down, liquidity, fee)
    BY <2>1
  <2> DEFINE cost == one(j)
  <2> HIDE DEF one, cost
  <2>5. cost \in Nat /\ (cost = 0 <=> liquidity = 0) /\ I[j] = I[j - 1] + cost
    BY <2>3, <2>4 DEF cost
  <2>6. I[j] \in Nat /\ I[j - 1] \in Nat  BY <1>3, <2>1
  <2>7. I[j] - I[j - 1] = cost /\ IF liquidity = 0 THEN I[j] = I[j - 1] ELSE I[j - 1] < I[j]
    BY <2>5, <2>6
  <2> QED  BY <2>7 DEF cost
<1>5. Yields(O, liquidity, gap)
  <2>1. \A i \in Nat : i * liquidity \in Nat /\ (i + 1) * liquidity = i * liquidity + liquidity
    OBVIOUS
  <2>2. O \in [0..gap -> Nat]  BY <2>1
  <2>3. 0 * liquidity = 0 /\ O[0] = 0 * liquidity  OBVIOUS
  <2>4. ASSUME NEW j \in 1..gap PROVE O[j] = O[j - 1] + liquidity
    <3>1. j - 1 \in Nat /\ (j - 1) + 1 = j /\ j - 1 \in 0..gap /\ j \in 0..gap  OBVIOUS
    <3>2. O[j] = j * liquidity /\ O[j - 1] = (j - 1) * liquidity  BY <3>1
    <3>3. ((j - 1) + 1) * liquidity = (j - 1) * liquidity + liquidity  BY <2>1, <3>1
    <3> QED  BY <3>1, <3>2, <3>3
  <2> QED  BY <2>2, <2>3, <2>4 DEF Yields
<1>6. Accrues(I, liquidity, gap)
  <2> HIDE DEF one
  <2> QED  BY <1>3, <1>4 DEF Accrues
<1> QED  BY <1>4, <1>5, <1>6 DEF Adds

(* The way to a target, over the same liquidity. *)
Way(price, target, down) == IF down THEN price - target ELSE target - price
Stretch(w, n, price, target, down, liquidity, fee, exactIn) ==
  \A j \in 1..Way(price, target, down) :
    w[n + j] = OneUnit(w[n + (j - 1)], liquidity,
                       InputFor(1, PriceAfter(price, j - 1, down), down, liquidity, fee),
                       exactIn)

(* What the outcome of a step leaves. *)
Leaves(step, there, r, in, out, exactIn) ==
  Stands(there, r - (IF exactIn THEN step.in ELSE step.out), in + step.in, out + step.out)

(* A step of the loop comes to what the walk comes to at the target, where *)
(* either the price is or nothing is left.                                 *)
LEMMA StepIsWalked ==
  ASSUME NEW price \in Int, SqrtAt(MinTick) <= price, price <= SqrtAt(MaxTick),
         NEW target \in Int, NEW down \in BOOLEAN,
         IF down THEN target <= price ELSE price <= target,
         NEW liquidity \in Nat, NEW fee \in Nat, NEW exactIn \in BOOLEAN,
         NEW r \in Nat \ {0}, NEW in \in Nat, NEW out \in Nat,
         NEW w, NEW n \in Nat, Stands(w[n], r, in, out),
         Stretch(w, n, price, target, down, liquidity, fee, exactIn)
  PROVE  Leaves(SwapStep(price, target, liquidity, fee, r, exactIn),
                w[n + Way(price, target, down)], r, in, out, exactIn)
<1> DEFINE step == SwapStep(price, target, liquidity, fee, r, exactIn)
           used == IF exactIn THEN step.in ELSE step.out
           gap == Way(price, target, down)
           I == [i \in 0..gap |-> InputFor(i, price, down, liquidity, fee)]
           O == [i \in 0..gap |-> i * liquidity]
           there == w[n + gap]
<1> SUFFICES Leaves(step, there, r, in, out, exactIn)
  OBVIOUS
<1>0. gap \in Nat  BY DEF Way
<1>s. GoesSome(step, price, target, liquidity, fee, r, exactIn)
  <2> HIDE DEF used, gap, I, O, there
  <2> QED  BY SwapGoes
<1> HIDE DEF step, gap
<1>1. PICK m \in Nat : Goes(step, price, target, liquidity, fee, r, exactIn, m)
  BY <1>s DEF GoesSome
<1>2. /\ Accrues(I, liquidity, gap) /\ Yields(O, liquidity, gap)
      /\ \A j \in 1..gap : I[j] - I[j - 1] = InputFor(1, PriceAfter(price, j - 1, down),
                                                      down, liquidity, fee)
  <2>1. Adds(I, O, price, down, liquidity, fee, gap)  BY <1>0, WayAdds
  <2> QED  BY <2>1 DEF Adds
<1>3. \A i \in 0..gap : I[i] = InputFor(i, price, down, liquidity, fee) /\ O[i] = i * liquidity
  OBVIOUS
<1> HIDE DEF I, O
<1>4. Walks(w, n, gap, liquidity, I, exactIn)  BY <1>2 DEF Walks, Stretch, gap
<1>5. \A i \in 0..gap : I[i] \in Nat /\ O[i] \in Nat  BY <1>2 DEF Accrues, Yields
<1>6. I[0] = 0 /\ O[0] = 0  BY <1>2 DEF Accrues, Yields
<1>7. /\ m \in 0..gap
      /\ m < gap => IF exactIn THEN r < I[m + 1] ELSE O[m + 1] >= r + liquidity
      /\ IF exactIn THEN I[m] <= r ELSE O[m] < r + liquidity
      /\ step.in = IF exactIn /\ m < gap THEN r ELSE I[m]
      /\ step.out = IF exactIn THEN O[m] ELSE Least(r, O[m])
  <2>1. CASE price = target
    <3>1. gap = 0  BY <2>1 DEF Way, gap
    <3>2. m = 0  BY <1>1, <2>1 DEF Goes
    <3>3. InputFor(0, price, price > target, liquidity, fee) = 0
      <4>1. Costs(price, price > target, liquidity, fee)
        <5>1. (price > target) \in BOOLEAN  OBVIOUS
        <5> QED  BY <5>1, InputIs
      <4> QED  BY <4>1 DEF Costs
    <3>4. /\ step.in = InputFor(0, price, price > target, liquidity, fee)
          /\ step.out = IF exactIn THEN 0 * liquidity ELSE Least(r, 0 * liquidity)
      BY <1>1, <2>1, <3>2 DEF Goes
    <3>5. 0 * liquidity = 0 /\ 0 < r + liquidity /\ 0 <= r  OBVIOUS
    <3> QED  BY <1>6, <3>1, <3>2, <3>3, <3>4, <3>5
  <2>2. CASE price # target
    <3>1. (price > target) = down /\ m \in 0..gap
          /\ gap = (IF price > target THEN price - target ELSE target - price)
      BY <1>1, <2>2 DEF Goes, Way, gap
    <3>2. m < gap => m + 1 \in 0..gap  BY <1>0, <3>1
    <3>3. /\ m < gap => IF exactIn THEN r < InputFor(m + 1, price, down, liquidity, fee)
                        ELSE (m + 1) * liquidity >= r + liquidity
          /\ IF exactIn THEN InputFor(m, price, down, liquidity, fee) <= r
             ELSE m * liquidity < r + liquidity
          /\ step.in = IF exactIn /\ m < gap THEN r
                       ELSE InputFor(m, price, down, liquidity, fee)
          /\ step.out = IF exactIn THEN m * liquidity ELSE Least(r, m * liquidity)
      BY <1>1, <3>1 DEF Goes
    <3> QED  BY <1>3, <3>1, <3>2, <3>3
  <2> QED  BY <2>1, <2>2
<1>8. n + m \in Nat /\ n + gap \in Nat /\ n + m <= n + gap  BY <1>0, <1>7
<1>g. used = (IF exactIn THEN step.in ELSE step.out)  OBVIOUS
<1>h. Stands(there, r - used, in + step.in, out + step.out) =>
        Leaves(step, there, r, in, out, exactIn)
  <2> HIDE DEF there, used
  <2> QED  BY <1>g DEF Leaves
<1> SUFFICES Stands(there, r - used, in + step.in, out + step.out)
  BY <1>h
<1>9. \A a \in Nat : n + m <= a /\ a <= n + gap /\ w[a].left = 0 => there = w[a]
  <2> SUFFICES ASSUME NEW a \in Nat, n + m <= a, a <= n + gap, w[a].left = 0
               PROVE  there = w[a]
    OBVIOUS
  <2>1. ASSUME NEW k \in a + 1..n + gap
        PROVE  \E l, c, e : w[k] = OneUnit(w[k - 1], l, c, e)
    <3>1. k - n \in 1..gap /\ n + (k - n) = k /\ n + ((k - n) - 1) = k - 1
      BY <1>0, <1>7
    <3>2. w[n + (k - n)] = OneUnit(w[n + ((k - n) - 1)], liquidity,
                                   I[k - n] - I[(k - n) - 1], exactIn)
      BY <1>4, <3>1 DEF Walks
    <3>3. w[k] = OneUnit(w[k - 1], liquidity, I[k - n] - I[(k - n) - 1], exactIn)
      BY <3>1, <3>2
    <3> QED  BY <3>3
  <2> QED  BY <1>8, <2>1, Stuck
<1>10. CASE exactIn
  <2>1. Stands(w[n + m], r - I[m], in + I[m], out + O[m])
    <3>1. Walks(w, n, gap, liquidity, I, TRUE)
      <4>1. exactIn = TRUE  BY <1>10
      <4> QED  BY <1>4, <4>1
    <3> QED  BY <1>0, <1>2, <1>7, <1>10, <3>1, SpendsInput
  <2>2. CASE m = gap
    <3>1. step.in = I[m] /\ used = step.in /\ step.out = O[m]  BY <1>7, <1>10, <2>2
    <3> QED  BY <2>1, <2>2, <3>1 DEF there
  <2>3. CASE m # gap /\ I[m] = r
    <3>1. m < gap /\ step.in = r /\ used = r /\ step.out = O[m]
      BY <1>0, <1>7, <1>10, <2>3
    <3>2. r - I[m] = 0 /\ r - r = 0  BY <2>3
    <3>3. there = w[n + m]  BY <1>8, <1>9, <2>1, <3>2 DEF Stands
    <3> HIDE DEF there, used
    <3>4. Stands(there, r - used, in + step.in, out + step.out)
      BY <2>1, <2>3, <3>1, <3>2, <3>3 DEF Stands
    <3> QED  BY <3>4 DEF there, used
  <2>4. CASE m # gap /\ I[m] # r
    <3>1. m < gap /\ step.in = r /\ used = r /\ step.out = O[m]
      BY <1>0, <1>7, <1>10, <2>4
    <3>2. m + 1 \in 1..gap /\ (m + 1) - 1 = m /\ m + 1 \in 0..gap  BY <1>0, <1>7, <3>1
    <3> DEFINE here == w[n + m]
               then == w[n + (m + 1)]
               cost == I[m + 1] - I[m]
    <3>3. then = OneUnit(here, liquidity, cost, TRUE)
      BY <1>4, <1>10, <3>2 DEF Walks
    <3>4. I[m] \in Nat /\ I[m + 1] \in Nat /\ O[m] \in Nat /\ I[m] <= r /\ r < I[m + 1]
      BY <1>5, <1>7, <1>10, <3>1, <3>2
    <3>5. here.left = r - I[m] /\ here.in = in + I[m] /\ here.out = out + O[m]
      BY <2>1 DEF Stands
    <3> HIDE DEF here, then, cost
    <3>6. here.left # 0 /\ ~(here.left >= cost)  BY <2>4, <3>4, <3>5 DEF cost
    <3>7. then = [left |-> 0, in |-> here.in + here.left, out |-> here.out,
                  part |-> liquidity]
      BY <3>3, <3>6 DEF OneUnit
    <3>8. then.left = 0 /\ then.in = in + r /\ then.out = out + O[m]
      <4>1. here.in + here.left = in + r  BY <3>4, <3>5
      <4> QED  BY <3>5, <3>7, <4>1
    <3>9. there = then
      <4>1. n + (m + 1) \in Nat /\ n + m <= n + (m + 1) /\ n + (m + 1) <= n + gap
        BY <1>0, <1>7, <3>2
      <4> QED  BY <1>9, <3>8, <4>1 DEF then
    <3>10. r - r = 0  OBVIOUS
    <3> HIDE DEF there, used
    <3>11. Stands(there, r - used, in + step.in, out + step.out)
      BY <3>1, <3>8, <3>9, <3>10 DEF Stands
    <3> QED  BY <3>11 DEF there, used
  <2> QED  BY <2>2, <2>3, <2>4
<1>11. CASE ~exactIn
  <2>1. Stands(w[n + m], r - Least(r, O[m]), in + I[m], out + Least(r, O[m]))
    <3>1. Walks(w, n, gap, liquidity, I, FALSE)
      <4>1. exactIn = FALSE  BY <1>11
      <4> QED  BY <1>4, <4>1
    <3> QED  BY <1>0, <1>2, <1>7, <1>11, <3>1, SpendsOutput
  <2>2. step.in = I[m] /\ step.out = Least(r, O[m]) /\ used = step.out  BY <1>7, <1>11
  <2>3. CASE m = gap
    BY <2>1, <2>2, <2>3 DEF there
  <2>4. CASE m # gap
    <3>1. m < gap /\ m + 1 \in 1..gap /\ (m + 1) - 1 = m /\ m \in 0..gap
      BY <1>0, <1>7, <2>4
    <3>2. O[m + 1] >= r + liquidity /\ O[m + 1] = O[m] + liquidity /\ O[m] \in Nat
      BY <1>2, <1>5, <1>7, <1>11, <3>1 DEF Yields
    <3>3. Least(r, O[m]) = r /\ r - r = 0  BY <3>2 DEF Least
    <3>4. there = w[n + m]  BY <1>8, <1>9, <2>1, <3>3 DEF Stands
    <3> QED  BY <2>1, <2>2, <3>4
  <2> QED  BY <2>3, <2>4
<1> QED  BY <1>10, <1>11

-----------------------------------------------------------------------------
(* The walk over a chain. *)

Reachable(chain, down) == Units(chain, down, PriceExtreme(down))

(* The price before and after the n-th unit. *)
UnitFrom(chain, down, n) == IF down THEN chain.price - n + 1 ELSE chain.price + n - 1
UnitIn(chain, down, n) == IF down THEN chain.price - n ELSE chain.price + n - 1

LEMMA ChainIs ==
  ASSUME NEW chain \in Chain
  PROVE  /\ IsChain(chain) /\ chain.price \in Int /\ chain.tick \in Int
         /\ Low <= chain.price /\ chain.price <= High /\ MinTick <= chain.tick
         /\ chain.tick <= MaxTick /\ IsNets(chain.nets)
         /\ OnTick(chain.price, chain.tick)
         /\ \A down \in BOOLEAN : chain.fee[down] \in Nat
         /\ \A t \in MinTick - 1 .. MaxTick :
              NetOver(chain.nets, MinTick - 1, t) \in 0..MaxLiquidity
         /\ chain.liquidity = NetOver(chain.nets, MinTick - 1, chain.tick)
<1>1. IsChain(chain)  BY SourceAssumption
<1>2. Low \in Int /\ High \in Int /\ MinTick \in Int /\ MaxTick \in Int
  BY EndsAre, TicksAssumption
<1>3. chain.price \in Low..High /\ chain.tick \in MinTick..MaxTick
      /\ (chain.tick = TickAt(chain.price) \/ chain.price = SqrtAt(chain.tick + 1))
      /\ chain.fee \in [BOOLEAN -> Nat] /\ IsNets(chain.nets)
  BY <1>1 DEF IsChain, Tick, Low, High
<1>4. chain.price \in Int /\ chain.tick \in Int /\ Low <= chain.price /\ chain.price <= High
      /\ MinTick <= chain.tick /\ chain.tick <= MaxTick
  BY <1>2, <1>3
<1>5. OnTick(chain.price, chain.tick)  BY <1>3, <1>4 DEF OnTick
<1>6. /\ chain.liquidity = NetOver(chain.nets, MinTick - 1, chain.tick)
      /\ \A t \in MinTick - 1 .. MaxTick :
           NetOver(chain.nets, MinTick - 1, t) \in 0..MaxLiquidity
  BY LiquidityAssumption
<1>7. \A down \in BOOLEAN : chain.fee[down] \in Nat  BY <1>3
<1> QED  BY <1>1, <1>3, <1>4, <1>5, <1>6, <1>7

LEMMA ReachIs ==
  ASSUME NEW chain \in Chain, NEW down \in BOOLEAN
  PROVE  /\ Reachable(chain, down) = IF down THEN chain.price - Low ELSE High - chain.price
         /\ Reachable(chain, down) \in Nat
<1>1. /\ chain.price \in Int /\ Low <= chain.price /\ chain.price <= High
      /\ Low \in Int /\ High \in Int
  BY ChainIs, EndsAre
<1>2. PriceExtreme(down) = IF down THEN Low ELSE High  BY DEF PriceExtreme, Low, High
<1> QED  BY <1>1, <1>2 DEF Reachable, Units

LEMMA UnitIs ==
  ASSUME NEW chain \in Chain, NEW down \in BOOLEAN, NEW n \in 1..Reachable(chain, down)
  PROVE  /\ Yield(chain, down, n) \in Nat /\ Cost(chain, down, n) \in Nat
         /\ UnitIn(chain, down, n) \in Int /\ UnitFrom(chain, down, n) \in Int
         /\ SqrtAt(MinTick) <= UnitFrom(chain, down, n)
         /\ UnitFrom(chain, down, n) <= SqrtAt(MaxTick)
         /\ TickAt(UnitIn(chain, down, n)) \in MinTick..MaxTick
<1> DEFINE p == UnitIn(chain, down, n)
           from == UnitFrom(chain, down, n)
<1>0. /\ MinTick \in Int /\ MaxTick \in Int /\ SqrtAt(MinTick) \in Int /\ SqrtAt(MaxTick) \in Int
  BY EndsAre, TicksAssumption
<1>1. chain.price \in Int /\ Low <= chain.price /\ chain.price <= High  BY ChainIs
<1>2. n \in Int /\ 1 <= n
      /\ n <= IF down THEN chain.price - Low ELSE High - chain.price
  BY ReachIs
<1>3. /\ p \in Int /\ from \in Int /\ SqrtAt(MinTick) <= p /\ p < SqrtAt(MaxTick)
      /\ SqrtAt(MinTick) <= from /\ from <= SqrtAt(MaxTick)
  BY <1>0, <1>1, <1>2 DEF Low, High, UnitIn, UnitFrom
<1> HIDE DEF p, from
<1>4. TickAt(p) \in MinTick..MaxTick
  <2>1. SqrtAt(MaxTick) <= SqrtAt(MaxTick + 1) /\ SqrtAt(MaxTick + 1) \in Int
    <3>1. MaxTick + 1 \in Int /\ MaxTick <= MaxTick + 1  BY <1>0
    <3> QED  BY <1>0, <3>1, Prices
  <2>2. p < SqrtAt(MaxTick + 1)  BY <1>0, <1>3, <2>1
  <2>3. TickAt(p) \in Int /\ MinTick <= TickAt(p) /\ TickAt(p) <= MaxTick
    BY <1>0, <1>3, <2>2, TickAtIs
  <2> QED  BY <1>0, <2>3
<1>5. Yield(chain, down, n) \in Nat
  <2>1. Yield(chain, down, n) = NetOver(chain.nets, MinTick - 1, TickAt(p))
    BY DEF Yield, LiquidityFrom, p, UnitIn
  <2>2. TickAt(p) \in MinTick - 1 .. MaxTick  BY <1>0, <1>4
  <2>3. NetOver(chain.nets, MinTick - 1, TickAt(p)) \in 0..MaxLiquidity  BY <2>2, ChainIs
  <2>4. \A x \in 0..MaxLiquidity : x \in Nat  BY EngineAssumption
  <2> QED  BY <2>1, <2>3, <2>4
<1>6. Cost(chain, down, n) \in Nat
  <2>1. Cost(chain, down, n) =
          InputFor(1, from, down, Yield(chain, down, n), chain.fee[down])
    BY DEF Cost, from, UnitFrom
  <2>2. chain.fee[down] \in Nat  BY ChainIs
  <2>3. Costs(from, down, Yield(chain, down, n), chain.fee[down])
    BY <1>3, <1>5, <2>2, InputIs
  <2> QED  BY <2>1, <2>3 DEF Costs
<1> QED  BY <1>3, <1>4, <1>5, <1>6 DEF p, from

Here == [left : Nat, in : Nat, out : Nat, part : Nat]
Starts(amount) == [left |-> amount, in |-> 0, out |-> 0, part |-> 0]

(* A walk: one unit after the other. *)
Walking(w, chain, down, exactIn, amount) ==
  /\ w[0] = Starts(amount)
  /\ \A n \in 0..Reachable(chain, down) : w[n] \in Here
  /\ \A n \in 1..Reachable(chain, down) :
       w[n] = OneUnit(w[n - 1], Yield(chain, down, n), Cost(chain, down, n), exactIn)

LEMMA UnitStays ==
  ASSUME NEW here \in Here, NEW liquidity \in Nat, NEW cost \in Nat, NEW exactIn \in BOOLEAN
  PROVE  OneUnit(here, liquidity, cost, exactIn) \in Here
<1>1. here.left \in Nat /\ here.in \in Nat /\ here.out \in Nat  BY DEF Here
<1>2. CASE here.left = 0  BY <1>2 DEF OneUnit
<1>3. CASE here.left # 0 /\ exactIn /\ here.left >= cost
  <2>1. here.left - cost \in Nat /\ here.in + cost \in Nat /\ here.out + liquidity \in Nat
    BY <1>1, <1>3
  <2> QED  BY <1>3, <2>1 DEF OneUnit, Here
<1>4. CASE here.left # 0 /\ exactIn /\ ~(here.left >= cost)
  <2>1. here.in + here.left \in Nat  BY <1>1
  <2> QED  BY <1>1, <1>4, <2>1 DEF OneUnit, Here
<1>5. CASE here.left # 0 /\ ~exactIn
  <2> DEFINE got == IF here.left < liquidity THEN here.left ELSE liquidity
  <2>1. got \in Nat /\ here.left - got \in Nat  BY <1>1
  <2>2. OneUnit(here, liquidity, cost, exactIn) =
          [left |-> here.left - got, in |-> here.in + cost, out |-> here.out + got, part |-> 0]
    BY <1>5 DEF OneUnit
  <2> HIDE DEF got
  <2>3. here.in + cost \in Nat /\ here.out + got \in Nat  BY <1>1, <2>1
  <2> QED  BY <2>1, <2>2, <2>3 DEF Here
<1> QED  BY <1>2, <1>3, <1>4, <1>5

LEMMA PathIs ==
  ASSUME NEW chain \in Chain, NEW down \in BOOLEAN, NEW exactIn \in BOOLEAN, NEW amount \in Nat
  PROVE  Walking(Path(chain, down, exactIn, amount), chain, down, exactIn, amount)
<1> DEFINE N == Reachable(chain, down)
           unit(x, n) == OneUnit(x, Yield(chain, down, n), Cost(chain, down, n), exactIn)
           step == [n \in 1..N |-> [x \in Here |-> unit(x, n)]]
           Is(f) == f = [n \in 0..N |-> IF n = 0 THEN Starts(amount) ELSE unit(f[n - 1], n)]
           w == CHOOSE f : Is(f)
<1>0. N \in Nat  BY ReachIs
<1>1. Path(chain, down, exactIn, amount) = w
  BY DEF Path, Starts, Reachable
<1> HIDE DEF N
<1>2. \A n \in 1..N : \A x \in Here : unit(x, n) \in Here
  <2> SUFFICES ASSUME NEW n \in 1..N, NEW x \in Here PROVE unit(x, n) \in Here
    OBVIOUS
  <2>1. Yield(chain, down, n) \in Nat /\ Cost(chain, down, n) \in Nat  BY UnitIs DEF N
  <2> QED  BY <2>1, UnitStays
<1>3. Starts(amount) \in Here  BY DEF Starts, Here
<1> HIDE DEF unit
<1>4. PICK g : Climbs(g, N, Here, Starts(amount), step)
  <2>1. step \in [1..N -> [Here -> Here]]  BY <1>2
  <2> HIDE DEF step
  <2> QED  BY <1>0, <1>3, <2>1, RecursionUp
<1>5. Is(g)
  <2>1. g \in [0..N -> Here] /\ g[0] = Starts(amount)
        /\ \A n \in 1..N : g[n] = step[n][g[n - 1]]
    BY <1>4 DEF Climbs
  <2>2. ASSUME NEW n \in 0..N
        PROVE  g[n] = IF n = 0 THEN Starts(amount) ELSE unit(g[n - 1], n)
    <3>1. CASE n = 0  BY <2>1, <3>1
    <3>2. CASE n # 0
      <4>1. n \in 1..N /\ n - 1 \in 0..N  BY <1>0, <3>2
      <4>2. g[n - 1] \in Here /\ g[n] = step[n][g[n - 1]]  BY <2>1, <4>1
      <4> QED  BY <3>2, <4>1, <4>2
    <3> QED  BY <3>1, <3>2
  <2> HIDE DEF step
  <2> QED  BY <2>1, <2>2
<1>6. Is(w)
  <2>1. \E f : Is(f)
    <3> HIDE DEF Is
    <3> QED  BY <1>5
  <2> HIDE DEF Is
  <2> QED  BY <2>1
<1> HIDE DEF w, step
<1>7. /\ w[0] = Starts(amount) /\ \A n \in 1..N : w[n] = unit(w[n - 1], n)
  <2>1. \A n \in 0..N : w[n] = IF n = 0 THEN Starts(amount) ELSE unit(w[n - 1], n)
    BY <1>6
  <2>2. 0 \in 0..N  BY <1>0
  <2>3. \A n \in 1..N : n \in 0..N /\ n # 0  BY <1>0
  <2> QED  BY <2>1, <2>2, <2>3
<1> DEFINE S == {n \in 0..N : w[n] \in Here}
<1>8. 0 \in S  BY <1>0, <1>3, <1>7
<1>9. ASSUME NEW n \in 0..N - 1, n \in S PROVE n + 1 \in S
  <2>1. n + 1 \in 1..N /\ (n + 1) - 1 = n /\ n + 1 \in 0..N  BY <1>0
  <2>2. w[n + 1] = unit(w[n], n + 1)  BY <1>7, <2>1
  <2> QED  BY <1>2, <1>9, <2>1, <2>2
<1>10. 0..N \subseteq S
  <2> HIDE DEF S
  <2> QED  BY <1>0, <1>8, <1>9, BoundedInduction
<1>11. \A n \in 0..N : w[n] \in Here  BY <1>10
<1>12. Walking(w, chain, down, exactIn, amount)
  BY <1>7, <1>11 DEF Walking, N, unit
<1> QED  BY <1>1, <1>12

-----------------------------------------------------------------------------
(* A swap from a snapshot that shows the whole window of its chain.        *)

LEMMA NetOverSame ==
  ASSUME NEW nets, IsNets(nets), NEW nets2, IsNets(nets2), NEW low \in Int, NEW high \in Int,
         low <= high, \A t \in low + 1 .. high : NetAt(nets, t) = NetAt(nets2, t)
  PROVE  NetOver(nets, low, high) = NetOver(nets2, low, high)
<1> DEFINE N == high - low
<1>0. N \in Nat /\ low + N = high  OBVIOUS
<1> HIDE DEF N
<1>s. PICK g : Totals(g, nets, low, N)  BY <1>0, NetOverIs
<1>t. PICK h : Totals(h, nets2, low, N)  BY <1>0, NetOverIs
<1>1. Sums(g, nets, low, N) /\ \A n \in 0..N : NetOver(nets, low, low + n) = g[n]
  BY <1>s DEF Totals
<1>2. Sums(h, nets2, low, N) /\ \A n \in 0..N : NetOver(nets2, low, low + n) = h[n]
  BY <1>t DEF Totals
<1> DEFINE S == {n \in 0..N : g[n] = h[n]}
<1>3. 0 \in S  BY <1>0, <1>1, <1>2 DEF Sums
<1>4. ASSUME NEW n \in 0..N - 1, n \in S PROVE n + 1 \in S
  <2>1. /\ n + 1 \in 1..N /\ (n + 1) - 1 = n /\ n + 1 \in 0..N
        /\ low + (n + 1) \in low + 1 .. high
    BY <1>0
  <2>2. g[n + 1] = g[n] + NetAt(nets, low + (n + 1))  BY <1>1, <2>1 DEF Sums
  <2>3. h[n + 1] = h[n] + NetAt(nets2, low + (n + 1))  BY <1>2, <2>1 DEF Sums
  <2>4. NetAt(nets, low + (n + 1)) = NetAt(nets2, low + (n + 1))  BY <2>1
  <2> QED  BY <1>4, <2>1, <2>2, <2>3, <2>4
<1>5. N \in S
  <2> HIDE DEF S
  <2>1. 0..N \subseteq S  BY <1>0, <1>3, <1>4, BoundedInduction
  <2> QED  BY <1>0, <2>1
<1>6. NetOver(nets, low, low + N) = g[N] /\ NetOver(nets2, low, low + N) = h[N] /\ g[N] = h[N]
  BY <1>0, <1>1, <1>2, <1>5
<1> QED  BY <1>0, <1>6

(* Between two boundaries the tick is between their ticks. *)
LEMMA TickBetween ==
  ASSUME NEW low \in Int, NEW high \in Int, NEW price \in Int, NEW tick, OnTick(price, tick),
         SqrtAt(low) <= price, price <= SqrtAt(high)
  PROVE  tick \in Int /\ low <= tick + 1 /\ tick <= high
<1>1. /\ tick \in Int /\ SqrtAt(tick) \in Int /\ SqrtAt(tick + 1) \in Int
      /\ SqrtAt(tick) <= price /\ price <= SqrtAt(tick + 1)
  BY OnTickIs
<1>2. SqrtAt(low) \in Int /\ SqrtAt(high) \in Int  BY Prices
<1>3. SqrtAt(low) <= SqrtAt(tick + 1) /\ SqrtAt(tick) <= SqrtAt(high)  BY <1>1, <1>2
<1>4. tick + 1 \in Int  BY <1>1
<1>5. low <= tick + 1  BY <1>3, <1>4, Prices
<1>6. tick <= high  BY <1>1, <1>3, Prices
<1> QED  BY <1>1, <1>5, <1>6

(* The snapshot has the chain's price and liquidity, and within its window *)
(* the chain's ticks and no others.                                        *)
Shows(p, chain) ==
  /\ p.price = chain.price /\ p.tick = chain.tick /\ p.liquidity = chain.liquidity
  /\ \A t \in p.data.window.low .. p.data.window.high :
       NetAt(p.data.nets, t) = NetAt(chain.nets, t)
  /\ \A t \in DOMAIN chain.nets :
       p.data.window.low <= t /\ t <= p.data.window.high => t \in DOMAIN p.data.nets

(* A bound within the window. *)
Inside(p, bound, down) ==
  IF down THEN SqrtAt(p.data.window.low) <= bound ELSE bound <= SqrtAt(p.data.window.high)

(* Where in the window a swap can be. *)
LEMMA LoopsInside ==
  ASSUME NEW p, Fetched(p), NEW down \in BOOLEAN, NEW s, NEW bound,
         Moving(p, s, bound, down), Inside(p, bound, down)
  PROVE  /\ s.price \in Int /\ s.tick \in Int /\ p.tick \in Int /\ p.price \in Int
         /\ p.data.window.low \in Int /\ p.data.window.high \in Int
         /\ p.tick <= p.data.window.high /\ p.data.window.low <= p.tick + 1
         /\ MinTick - 1 <= s.tick /\ s.tick <= MaxTick
         /\ IF down THEN p.data.window.low <= s.tick + 1 /\ s.tick <= p.tick
            ELSE s.tick <= p.data.window.high /\ p.tick <= s.tick
<1> DEFINE low == p.data.window.low
           high == p.data.window.high
<1>0. MinTick \in Int /\ MaxTick \in Int /\ \A t \in Tick : t \in Int
  BY TicksAssumption DEF Tick
<1>1. /\ p.tick \in Int /\ p.price \in Int /\ OnTick(p.price, p.tick)
      /\ Low <= p.price /\ p.price <= High
  BY <1>0, EndsAre DEF Fetched
<1>2. /\ p.data.window \in [low : Tick, high : Tick]
      /\ WindowEdge(p.data, TRUE) <= p.price /\ p.price <= WindowEdge(p.data, FALSE)
  BY WithinWindow
<1>3. low \in Int /\ high \in Int /\ SqrtAt(low) <= p.price /\ p.price <= SqrtAt(high)
  BY <1>0, <1>2 DEF WindowEdge
<1> HIDE DEF low, high
<1>4. p.tick <= high /\ low <= p.tick + 1  BY <1>1, <1>3, TickBetween
<1>5. /\ s.price \in Int /\ OnTick(s.price, s.tick) /\ Bounds(bound, s.price, down)
      /\ IF down THEN s.price <= p.price /\ s.tick <= p.tick
         ELSE p.price <= s.price /\ p.tick <= s.tick
  BY DEF Moving
<1>6. /\ bound \in Int
      /\ IF down THEN Low <= bound /\ bound <= s.price ELSE s.price <= bound /\ bound <= High
  BY <1>5 DEF Bounds
<1>7. IF down THEN SqrtAt(low) <= bound ELSE bound <= SqrtAt(high)
  BY DEF Inside, low, high
<1>8. SqrtAt(low) \in Int /\ SqrtAt(high) \in Int /\ Low \in Int /\ High \in Int
      /\ SqrtAt(MinTick) \in Int /\ SqrtAt(MaxTick) \in Int
  BY <1>3, Prices, EndsAre
<1>9. SqrtAt(low) <= s.price /\ s.price <= SqrtAt(high)
  BY <1>1, <1>3, <1>5, <1>6, <1>7, <1>8
<1>10. SqrtAt(MinTick) <= s.price /\ s.price <= SqrtAt(MaxTick)
  BY <1>1, <1>5, <1>6, <1>8 DEF Low, High
<1>11. s.tick \in Int /\ low <= s.tick + 1 /\ s.tick <= high
  BY <1>3, <1>5, <1>9, TickBetween
<1>12. MinTick <= s.tick + 1 /\ s.tick <= MaxTick
  BY <1>0, <1>5, <1>10, TickBetween
<1>13. MinTick - 1 <= s.tick  BY <1>0, <1>11, <1>12
<1> QED  BY <1>1, <1>3, <1>4, <1>5, <1>11, <1>12, <1>13 DEF low, high

(* The liquidity in use is the chain's. *)
LEMMA TrueLiquidity ==
  ASSUME NEW chain \in Chain, NEW p, Fetched(p), Shows(p, chain), NEW down \in BOOLEAN,
         NEW s, NEW bound, Moving(p, s, bound, down), Inside(p, bound, down)
  PROVE  s.liquidity = NetOver(chain.nets, MinTick - 1, s.tick)
<1> DEFINE nets == p.data.nets
           below == MinTick - 1
           all == chain.nets
<1> SUFFICES s.liquidity = NetOver(all, below, s.tick)
  OBVIOUS
<1>0. below \in Int  BY TicksAssumption
<1>1. /\ s.tick \in Int /\ p.tick \in Int
      /\ p.data.window.low \in Int /\ p.data.window.high \in Int
      /\ p.tick <= p.data.window.high /\ p.data.window.low <= p.tick + 1
      /\ below <= s.tick
      /\ IF down THEN p.data.window.low <= s.tick + 1 /\ s.tick <= p.tick
         ELSE s.tick <= p.data.window.high /\ p.tick <= s.tick
  <2> HIDE DEF nets, all
  <2> QED  BY LoopsInside
<1>2. IsNets(nets) /\ IsNets(all)  BY ChainIs DEF Fetched, Mapped
<1>3. p.liquidity = NetOver(all, below, p.tick) /\ below <= p.tick
  <2>1. chain.tick = p.tick /\ chain.liquidity = p.liquidity  BY DEF Shows
  <2>2. MinTick <= chain.tick /\ chain.tick \in Int
        /\ chain.liquidity = NetOver(all, below, chain.tick)
    BY ChainIs
  <2>3. below <= chain.tick  BY <2>2, TicksAssumption
  <2> HIDE DEF all, below
  <2> QED  BY <2>1, <2>2, <2>3
<1>4. IF down THEN s.liquidity = p.liquidity - NetOver(nets, s.tick, p.tick)
      ELSE s.liquidity = p.liquidity + NetOver(nets, p.tick, s.tick)
  BY DEF Moving
<1>5. \A t \in p.data.window.low .. p.data.window.high : NetAt(nets, t) = NetAt(all, t)
  BY DEF Shows
<1> HIDE DEF nets, all, below
<1>6. CASE down
  <2>1. \A t \in s.tick + 1 .. p.tick : t \in p.data.window.low .. p.data.window.high
    BY <1>1, <1>6
  <2>2. s.tick <= p.tick  BY <1>1, <1>6
  <2>3. NetOver(nets, s.tick, p.tick) = NetOver(all, s.tick, p.tick)
    BY <1>1, <1>2, <1>5, <2>1, <2>2, NetOverSame
  <2>4. NetOver(all, below, p.tick) = NetOver(all, below, s.tick) + NetOver(all, s.tick, p.tick)
    BY <1>0, <1>1, <1>2, <2>2, NetOverSplits
  <2>5. NetOver(all, below, s.tick) \in Int /\ NetOver(all, s.tick, p.tick) \in Int
    BY <1>0, <1>1, <1>2, <2>2, NetOverFew
  <2> QED  BY <1>3, <1>4, <1>6, <2>3, <2>4, <2>5
<1>7. CASE ~down
  <2>1. \A t \in p.tick + 1 .. s.tick : t \in p.data.window.low .. p.data.window.high
    BY <1>1, <1>7
  <2>2. p.tick <= s.tick  BY <1>1, <1>7
  <2>3. NetOver(nets, p.tick, s.tick) = NetOver(all, p.tick, s.tick)
    BY <1>1, <1>2, <1>5, <2>1, <2>2, NetOverSame
  <2>4. NetOver(all, below, s.tick) = NetOver(all, below, p.tick) + NetOver(all, p.tick, s.tick)
    BY <1>0, <1>1, <1>2, <1>3, <2>2, NetOverSplits
  <2> QED  BY <1>3, <1>4, <1>7, <2>3, <2>4
<1> QED  BY <1>6, <1>7

(* Up to there the chain has the liquidity in use. *)
LEMMA SameYield ==
  ASSUME NEW chain \in Chain, NEW p, Fetched(p), Shows(p, chain), NEW down \in BOOLEAN,
         NEW s, NEW bound, Moving(p, s, bound, down), Inside(p, bound, down),
         NEW next, Nexts(p.data.nets, next, s.tick, down), NEW target,
         Toward(target, next, s.price, bound, down), NEW q \in Int,
         TickAt(q) \in MinTick .. MaxTick,
         IF down THEN target <= q /\ q < s.price ELSE s.price <= q /\ q < target
  PROVE  LiquidityFrom(chain, q) = s.liquidity
<1> DEFINE nets == p.data.nets
           all == chain.nets
           below == MinTick - 1
           low == p.data.window.low
           high == p.data.window.high
           u == TickAt(q)
<1>0. MinTick \in Int /\ MaxTick \in Int /\ below \in Int /\ \A t \in Tick : t \in Int
  BY TicksAssumption DEF Tick
<1>1. /\ s.price \in Int /\ s.tick \in Int /\ p.tick \in Int /\ low \in Int /\ high \in Int
      /\ p.tick <= high /\ low <= p.tick + 1 /\ MinTick - 1 <= s.tick
      /\ IF down THEN s.tick <= p.tick ELSE p.tick <= s.tick
  BY LoopsInside
<1>2. s.liquidity = NetOver(all, below, s.tick)  BY TrueLiquidity
<1>3. /\ OnTick(s.price, s.tick) /\ bound \in Int
      /\ IF down THEN SqrtAt(low) <= bound ELSE bound <= SqrtAt(high)
  BY DEF Moving, Bounds, Inside
<1>4. /\ next.tick \in Int
      /\ \A t \in DOMAIN nets : IF down THEN ~(next.tick < t /\ t <= s.tick)
                                ELSE ~(s.tick < t /\ t < next.tick)
  BY <1>0 DEF Nexts
<1>5. \A t \in DOMAIN all : low <= t /\ t <= high => t \in DOMAIN nets  BY DEF Shows
<1>6. IsNets(all)  BY ChainIs
<1>7. u \in Int /\ below <= u  BY <1>0
<1>8. LiquidityFrom(chain, q) = NetOver(all, below, u)  BY DEF LiquidityFrom
<1>9. /\ SqrtAt(s.tick) <= s.price /\ s.price <= SqrtAt(s.tick + 1)
      /\ SqrtAt(s.tick) \in Int /\ SqrtAt(s.tick + 1) \in Int
      /\ SqrtAt(next.tick) \in Int /\ SqrtAt(low) \in Int /\ SqrtAt(high) \in Int
      /\ SqrtAt(u) \in Int
  BY <1>1, <1>3, <1>4, <1>7, OnTickIs, Prices
<1>10. /\ target \in Int
       /\ IF down THEN SqrtAt(next.tick) <= target /\ bound <= target /\ target <= s.price
          ELSE target <= SqrtAt(next.tick) /\ target <= bound /\ s.price <= target
  BY DEF Toward
<1>11. SqrtAt(u) <= q /\ \A t \in Int : /\ SqrtAt(t) <= q => t <= u
                                        /\ q < SqrtAt(t + 1) => u <= t
  BY TickAtIs
<1>12. \A t \in DOMAIN all : t \in Int  BY <1>0, <1>6 DEF IsNets
<1> HIDE DEF nets, all, below, low, high, u
<1>13. CASE down
  <2>1. q < SqrtAt(s.tick + 1) /\ SqrtAt(next.tick) <= q /\ SqrtAt(low) <= q
    BY <1>1, <1>3, <1>9, <1>10, <1>13
  <2>2. u <= s.tick /\ next.tick <= u /\ low <= u  BY <1>1, <1>4, <1>11, <2>1
  <2>3. \A t \in DOMAIN all : ~(u < t /\ t <= s.tick)
    <3> SUFFICES ASSUME NEW t \in DOMAIN all, u < t, t <= s.tick PROVE FALSE
      OBVIOUS
    <3>1. t \in Int  BY <1>12
    <3>2. low <= t /\ t <= high /\ next.tick < t  BY <1>1, <1>4, <1>7, <1>13, <2>2, <3>1
    <3>3. t \in DOMAIN nets  BY <1>5, <3>2
    <3> QED  BY <1>4, <1>13, <3>2, <3>3
  <2>4. NetOver(all, u, s.tick) = 0  BY <1>1, <1>6, <1>7, <2>2, <2>3, NetOverFew
  <2>5. NetOver(all, below, s.tick) = NetOver(all, below, u) + NetOver(all, u, s.tick)
    BY <1>0, <1>1, <1>6, <1>7, <2>2, NetOverSplits DEF below
  <2>6. NetOver(all, below, u) \in Int
    BY <1>0, <1>6, <1>7, NetOverFew DEF below
  <2> QED  BY <1>2, <1>8, <2>4, <2>5, <2>6
<1>14. CASE ~down
  <2>1. SqrtAt(s.tick) <= q /\ SqrtAt(u) < SqrtAt(next.tick) /\ SqrtAt(u) < SqrtAt(high)
    BY <1>1, <1>3, <1>9, <1>10, <1>11, <1>14
  <2>2. s.tick <= u /\ u < next.tick /\ u < high
    <3>1. s.tick <= u  BY <1>1, <1>11, <2>1
    <3>2. u < next.tick  BY <1>4, <1>7, <2>1, Prices
    <3>3. u < high  BY <1>1, <1>7, <2>1, Prices
    <3> QED  BY <3>1, <3>2, <3>3
  <2>3. \A t \in DOMAIN all : ~(s.tick < t /\ t <= u)
    <3> SUFFICES ASSUME NEW t \in DOMAIN all, s.tick < t, t <= u PROVE FALSE
      OBVIOUS
    <3>1. t \in Int  BY <1>12
    <3>2. low <= t /\ t <= high /\ t < next.tick  BY <1>1, <1>4, <1>7, <1>14, <2>2, <3>1
    <3>3. t \in DOMAIN nets  BY <1>5, <3>2
    <3> QED  BY <1>4, <1>14, <3>2, <3>3
  <2>4. NetOver(all, s.tick, u) = 0  BY <1>1, <1>6, <1>7, <2>2, <2>3, NetOverFew
  <2>5. NetOver(all, below, u) = NetOver(all, below, s.tick) + NetOver(all, s.tick, u)
    BY <1>0, <1>1, <1>6, <1>7, <2>2, NetOverSplits DEF below
  <2>6. NetOver(all, below, s.tick) \in Int
    BY <1>0, <1>1, <1>6, NetOverFew DEF below
  <2> QED  BY <1>2, <1>8, <2>4, <2>5, <2>6
<1> QED  BY <1>13, <1>14

(* How far the price is on its way, and how much further it can go.        *)
LEMMA UnitsAre ==
  ASSUME NEW chain \in Chain, NEW down \in BOOLEAN, NEW price \in Int, NEW bound,
         Bounds(bound, price, down),
         IF down THEN price <= chain.price ELSE chain.price <= price
  PROVE  /\ Units(chain, down, price) = Way(chain.price, price, down)
         /\ Units(chain, down, bound) = Way(chain.price, bound, down)
         /\ Units(chain, down, price) \in Nat /\ Units(chain, down, bound) \in Nat
         /\ Units(chain, down, price) <= Units(chain, down, bound)
         /\ Units(chain, down, bound) <= Reachable(chain, down)
<1>1. /\ chain.price \in Int /\ Low <= chain.price /\ chain.price <= High
      /\ Low \in Int /\ High \in Int
  BY ChainIs, EndsAre
<1>2. /\ bound \in Int
      /\ IF down THEN Low <= bound /\ bound <= price ELSE price <= bound /\ bound <= High
  BY DEF Bounds
<1>3. Reachable(chain, down) = IF down THEN chain.price - Low ELSE High - chain.price
  BY ReachIs
<1> QED  BY <1>1, <1>2, <1>3 DEF Units, Way

LEMMA StretchAhead ==
  ASSUME NEW chain \in Chain, NEW p, Fetched(p), Shows(p, chain), NEW down \in BOOLEAN,
         NEW s, NEW bound, Moving(p, s, bound, down), Inside(p, bound, down),
         NEW next, Nexts(p.data.nets, next, s.tick, down), NEW target,
         Toward(target, next, s.price, bound, down),
         NEW exactIn, NEW amount, NEW w, Walking(w, chain, down, exactIn, amount)
  PROVE  Stretch(w, Units(chain, down, s.price), s.price, target, down, s.liquidity,
                 chain.fee[down], exactIn)
<1> DEFINE n == Units(chain, down, s.price)
           gap == Way(s.price, target, down)
<1>1. /\ s.price \in Int /\ Bounds(bound, s.price, down) /\ p.price = chain.price
      /\ IF down THEN s.price <= p.price ELSE p.price <= s.price
  BY DEF Moving, Shows
<1>2. /\ bound \in Int
      /\ IF down THEN Low <= bound /\ bound <= s.price ELSE s.price <= bound /\ bound <= High
  BY <1>1 DEF Bounds
<1>3. /\ n = Way(chain.price, s.price, down) /\ n \in Nat
      /\ Units(chain, down, bound) = Way(chain.price, bound, down)
      /\ Units(chain, down, bound) <= Reachable(chain, down)
      /\ Units(chain, down, bound) \in Nat
  BY <1>1, UnitsAre
<1>4. Reachable(chain, down) \in Nat /\ chain.price \in Int  BY ReachIs, ChainIs
<1>5. /\ target \in Int
      /\ IF down THEN bound <= target /\ target <= s.price
         ELSE target <= bound /\ s.price <= target
  BY DEF Toward
<1>6. gap \in Nat /\ n + gap <= Reachable(chain, down)
  BY <1>1, <1>2, <1>3, <1>4, <1>5 DEF Way
<1>7. ASSUME NEW j \in 1..gap
      PROVE  w[n + j] = OneUnit(w[n + (j - 1)], s.liquidity,
                                InputFor(1, PriceAfter(s.price, j - 1, down), down,
                                         s.liquidity, chain.fee[down]), exactIn)
  <2>1. n + j \in 1..Reachable(chain, down) /\ (n + j) - 1 = n + (j - 1)
    <3> HIDE DEF n, gap
    <3> QED  BY <1>3, <1>4, <1>6
  <2>2. w[n + j] = OneUnit(w[n + (j - 1)], Yield(chain, down, n + j), Cost(chain, down, n + j),
                           exactIn)
    <3> HIDE DEF n
    <3> QED  BY <2>1 DEF Walking
  <2> DEFINE q == UnitIn(chain, down, n + j)
  <2>3. q \in Int /\ TickAt(q) \in MinTick .. MaxTick
    <3> HIDE DEF n
    <3> QED  BY <2>1, UnitIs
  <2>4. IF down THEN target <= q /\ q < s.price ELSE s.price <= q /\ q < target
    <3>1. n = Way(chain.price, s.price, down)  BY <1>3
    <3>2. j \in Int /\ 1 <= j /\ j <= Way(s.price, target, down)  BY <1>6
    <3> HIDE DEF n, gap
    <3> QED  BY <1>1, <1>3, <1>4, <1>5, <3>1, <3>2 DEF UnitIn, Way
  <2>5. UnitFrom(chain, down, n + j) = PriceAfter(s.price, j - 1, down)
    <3>1. n = Way(chain.price, s.price, down)  BY <1>3
    <3>2. j \in Int  BY <1>6
    <3> HIDE DEF n, gap
    <3> QED  BY <1>1, <1>3, <1>4, <3>1, <3>2 DEF UnitFrom, PriceAfter, Way
  <2> HIDE DEF q
  <2>6. LiquidityFrom(chain, q) = s.liquidity  BY <2>3, <2>4, SameYield
  <2>7. Yield(chain, down, n + j) = s.liquidity
    <3>1. Yield(chain, down, n + j) = LiquidityFrom(chain, q)  BY DEF Yield, UnitIn, q
    <3> QED  BY <2>6, <3>1
  <2>8. Cost(chain, down, n + j) =
          InputFor(1, UnitFrom(chain, down, n + j), down, Yield(chain, down, n + j),
                   chain.fee[down])
    BY DEF Cost, UnitFrom
  <2> HIDE DEF n
  <2> QED  BY <2>2, <2>5, <2>7, <2>8
<1> QED  BY <1>7 DEF Stretch

-----------------------------------------------------------------------------
(* The pool that is quoted from, and the chain.                            *)

PoolShows ==
  /\ Source \in Chain /\ pool.assets = Source.assets
  /\ \A down \in BOOLEAN : FeePips(pool, down) = Source.fee[down]
  /\ pool.protocol \in {"UniswapV3", "UniswapV4", "Slipstream"}
  /\ pool.protocol = "UniswapV4" => (pool.supported <=> pool.id \notin Hooked)
  /\ pool.price = Source.price
  /\ Whole => Shows(pool, Source)

LEMMA PoolIs == ASSUME EngineInv, pool # None PROVE Fetched(pool) /\ PoolShows
<1>1. stage = "Built" /\ SourceInv  BY DEF EngineInv, LoopInv
<1>2. PICK i \in 1..Len(built) : pool = built[i]  BY DEF EngineInv, LoopInv
<1>3. Fetched(pool)  BY PoolIsFetched
<1>4. PICK from : Decodes(states, blocks[1], from)
  BY <1>1 DEF SourceInv, Rounds, Decoded1
<1>5. /\ Len(built) = Len(states) /\ IsBlock(blocks[1])
      /\ Snapshot(pool, states[i].id, blocks[1][states[i].id], blocks[2][states[i].id])
  BY <1>1, <1>2 DEF SourceInv, Rounds
<1>6. pool.id = states[i].id /\ states[i].id \in ToSet(keys)
  <2>1. keys \in Seq(PoolId)  BY <1>1 DEF SourceInv, Requested
  <2>2. keys[from[i]] \in ToSet(keys)  BY <1>2, <1>4, <1>5, <2>1 DEF Decodes, ToSet
  <2>3. states[i] = StateFor(keys[from[i]], blocks[1][keys[from[i]]])
    BY <1>2, <1>4, <1>5 DEF Decodes
  <2>4. states[i].id = keys[from[i]]  BY <2>3 DEF StateFor
  <2> QED  BY <1>5, <2>2, <2>4 DEF Snapshot
<1> DEFINE second == blocks[2][pool.id]
<1>7. Snapshot(pool, pool.id, Source, second)  BY <1>5, <1>6 DEF Source
<1>8. Source \in Chain  BY <1>5, <1>6 DEF IsBlock, Source
<1>9. \A down \in BOOLEAN : FeePips(pool, down) = Source.fee[down]
  <2>1. EachItsOwn  BY <1>1, EachIsItsOwn
  <2>2. \A down \in BOOLEAN : FeePips(built[i], down) = blocks[1][built[i].id].fee[down]
    BY <1>2, <2>1 DEF EachItsOwn
  <2> QED  BY <1>2, <2>2 DEF Source
<1>10. /\ pool.protocol = source /\ pool.supported = (source = "UniswapV4" => pool.id \notin Hooked)
       /\ pool.assets = Source.assets /\ pool.price = Source.price /\ pool.tick = Source.tick
       /\ pool.liquidity = Source.liquidity /\ Within(pool.data.nets, second)
  BY <1>7 DEF Snapshot
<1>11. source \in {"UniswapV3", "UniswapV4", "Slipstream"}  BY <1>1 DEF SourceInv, Requested
<1>12. ASSUME Whole PROVE Shows(pool, Source)
  <2>1. second = Source  BY <1>12 DEF Whole, Source
  <2>2. pool.data.window.low \in Int /\ pool.data.window.high \in Int
    <3>1. pool.data.window \in [low : Tick, high : Tick]  BY <1>3, WithinWindow
    <3>2. \A t \in Tick : t \in Int  BY TicksAssumption DEF Tick
    <3> QED  BY <3>1, <3>2
  <2>3. IsNets(Source.nets) /\ \A t \in Tick : t \in Int
    BY <1>8, ChainIs, TicksAssumption DEF Tick
  <2>4. \A t \in DOMAIN Source.nets :
          pool.data.window.low <= t /\ t <= pool.data.window.high => t \in DOMAIN pool.data.nets
    <3> SUFFICES ASSUME NEW t \in DOMAIN Source.nets,
                        pool.data.window.low <= t, t <= pool.data.window.high
                 PROVE  t \in DOMAIN pool.data.nets
      OBVIOUS
    <3>1. t \in Int  BY <2>3 DEF IsNets
    <3>2. t \in pool.data.window.low .. pool.data.window.high  BY <2>2, <3>1
    <3> QED  BY <1>12, <3>2 DEF Whole
  <2>5. Within(pool.data.nets, Source)  BY <1>10, <2>1
  <2>6. ASSUME NEW t \in pool.data.window.low .. pool.data.window.high
        PROVE  NetAt(pool.data.nets, t) = NetAt(Source.nets, t)
    <3>1. pool.data.window.low <= t /\ t <= pool.data.window.high  BY <2>2
    <3>2. CASE t \in DOMAIN pool.data.nets  BY <2>5, <3>2 DEF Within, NetAt
    <3>3. CASE t \notin DOMAIN pool.data.nets
      <4>1. t \notin DOMAIN Source.nets  BY <2>4, <3>1, <3>3
      <4> QED  BY <3>3, <4>1 DEF NetAt
    <3> QED  BY <3>2, <3>3
  <2> QED  BY <1>10, <2>4, <2>6 DEF Shows
<1>13. pool.protocol = "UniswapV4" => (pool.supported <=> pool.id \notin Hooked)
  <2>1. CASE source = "UniswapV4"
    <3>1. pool.supported = (pool.id \notin Hooked)  BY <1>10, <2>1
    <3> QED  BY <3>1
  <2>2. CASE source # "UniswapV4"  BY <1>10, <2>2
  <2> QED  BY <2>1, <2>2
<1> QED  BY <1>3, <1>8, <1>9, <1>10, <1>11, <1>12, <1>13 DEF PoolShows

(* A pair has a direction if it is the pool's pair. *)
LEMMA DirectionIs ==
  ASSUME EngineInv, pool # None, NEW x, NEW y
  PROVE  /\ Direction(pool, x, y) \in BOOLEAN \cup {None}
         /\ Direction(pool, x, y) # None <=> {x, y} = {Source.assets[1], Source.assets[2]}
         /\ Direction(pool, x, y) # None =>
              (Direction(pool, x, y) = TRUE <=> x = Source.assets[1])
<1>1. pool.assets \in Asset \X Asset /\ pool.assets = Source.assets
  BY PoolIs DEF Fetched, PoolShows
<1>2. PICK u \in Asset, v \in Asset : pool.assets = <<u, v>>  BY <1>1
<1>3. Source.assets[1] = u /\ Source.assets[2] = v  BY <1>1, <1>2
<1>4. \A a, b : <<a, b>> = pool.assets <=> (a = u /\ b = v)  BY <1>2
<1> DEFINE d == Direction(pool, x, y)
<1>5. d = IF <<x, y>> = pool.assets THEN TRUE
          ELSE IF <<y, x>> = pool.assets THEN FALSE ELSE None
  BY DEF Direction
<1>6. None # TRUE /\ None # FALSE  BY EngineAssumption
<1>7. {x, y} = {u, v} <=> (x = u /\ y = v) \/ (y = u /\ x = v)  OBVIOUS
<1>a. <<x, y>> = pool.assets <=> (x = u /\ y = v)  BY <1>4
<1>b. <<y, x>> = pool.assets <=> (y = u /\ x = v)  BY <1>4
<1> HIDE DEF d
<1>8. CASE x = u /\ y = v
  <2>1. d = TRUE  BY <1>5, <1>8, <1>a, Zenon
  <2> QED  BY <1>3, <1>6, <1>7, <1>8, <2>1 DEF d
<1>9. CASE ~(x = u /\ y = v) /\ y = u /\ x = v
  <2>1. d = FALSE  BY <1>5, <1>9, <1>a, <1>b, Zenon
  <2>2. x # u  BY <1>9
  <2> QED  BY <1>3, <1>6, <1>7, <1>9, <2>1, <2>2 DEF d
<1>10. CASE ~(x = u /\ y = v) /\ ~(y = u /\ x = v)
  <2>1. d = None  BY <1>5, <1>10, <1>a, <1>b, Zenon
  <2> QED  BY <1>3, <1>7, <1>10, <2>1 DEF d
<1> QED  BY <1>8, <1>9, <1>10

LEMMA PairMax ==
  ASSUME NEW a \in Int, NEW b \in Int
  PROVE  Max({a, b}) = IF a > b THEN a ELSE b
<1> DEFINE S == {a, b}
           high == IF a > b THEN a ELSE b
<1>1. S \in SUBSET Int /\ S # {} /\ high \in Int /\ \A x \in S : x <= high  OBVIOUS
<1>2. \A x : x \in S <=> x = a \/ x = b  OBVIOUS
<1> HIDE DEF S, high
<1>3. Max(S) \in S /\ \A x \in S : x <= Max(S)  BY <1>1, MaxIs
<1>4. Max(S) = high  BY <1>2, <1>3 DEF high
<1> QED  BY <1>4 DEF S, high

LEMMA PairMin ==
  ASSUME NEW a \in Int, NEW b \in Int
  PROVE  Min({a, b}) = IF a > b THEN b ELSE a
<1> DEFINE S == {a, b}
           low == IF a > b THEN b ELSE a
<1>1. S \in SUBSET Int /\ S # {} /\ low \in Int /\ \A x \in S : low <= x  OBVIOUS
<1>2. \A x : x \in S <=> x = a \/ x = b  OBVIOUS
<1> HIDE DEF S, low
<1>3. Min(S) \in S /\ \A x \in S : Min(S) <= x  BY <1>1, MinIs
<1>4. Min(S) = low  BY <1>2, <1>3 DEF low
<1> QED  BY <1>4 DEF S, low

(* A limit is clamped unless it is a price of another pair. *)
LEMMA ClampedWhen ==
  ASSUME EngineInv, pool # None, NEW limit \in Price
  PROVE  ClampedLimit(limit) = None <=> Direction(pool, limit.base, limit.quote) = None
<1> DEFINE direct == Direction(pool, limit.base, limit.quote)
           x == IF direct = TRUE THEN limit.at ELSE -limit.at
<1>1. x \in Int  BY DEF Price
<1>2. Low \in Int /\ High \in Int /\ None \notin Int  BY EndsAre, EngineAssumption
<1>3. ClampedLimit(limit) = IF direct = None THEN None
                            ELSE IF x < Low THEN Low ELSE IF x > High THEN High ELSE x
  BY DEF ClampedLimit, Low, High
<1> HIDE DEF x, direct
<1>4. ClampedLimit(limit) = None <=> direct = None  BY <1>1, <1>2, <1>3
<1> QED  BY <1>4 DEF direct

(* The pool serves a question exactly if neither it nor the limit is       *)
(* refused.                                                                *)
LEMMA ServesIs ==
  ASSUME EngineInv, pool # None, ask \in Ask
  PROVE  /\ PoolRefusal(pool, ask) \in {"Ok", "Unsupported", "AssetNotInPool"}
         /\ PoolRefusal(pool, ask) = "Ok" => Down # None
         /\ Serves <=> /\ PoolRefusal(pool, ask) = "Ok"
                       /\ ask.kind = "WithLimit" => ClampedLimit(ask.limit) # None
<1>1. PoolShows  BY PoolIs
<1>2. /\ pool.protocol \in {"UniswapV3", "UniswapV4", "Slipstream"}
      /\ pool.protocol = "UniswapV4" => (pool.supported <=> pool.id \notin Hooked)
  BY <1>1 DEF PoolShows
<1>3. /\ PoolRefusal(pool, ask) \in {"Ok", "Unsupported", "AssetNotInPool"}
      /\ PoolRefusal(pool, ask) = "Ok" <=>
           Down # None /\ (pool.protocol = "UniswapV4" => pool.supported)
  <2>1. CASE pool.protocol = "UniswapV3"
    BY <2>1 DEF PoolRefusal, UniswapV3Refusal, Down
  <2>2. CASE pool.protocol = "Slipstream"
    BY <2>2 DEF PoolRefusal, SlipstreamRefusal, Down
  <2>3. CASE pool.protocol = "UniswapV4"
    BY <2>3 DEF PoolRefusal, UniswapV4Refusal, Down
  <2> QED  BY <1>2, <2>1, <2>2, <2>3
<1> DEFINE ours == {Source.assets[1], Source.assets[2]}
<1>4. Down # None <=> {ask.from, ask.to} = ours  BY DirectionIs DEF Down
<1>5. ASSUME ask.kind = "WithLimit"
      PROVE  ClampedLimit(ask.limit) # None <=> {ask.limit.base, ask.limit.quote} = ours
  <2>1. ask.limit \in Price  BY DEF Ask
  <2>2. ClampedLimit(ask.limit) = None
          <=> Direction(pool, ask.limit.base, ask.limit.quote) = None
    BY <2>1, ClampedWhen
  <2>3. Direction(pool, ask.limit.base, ask.limit.quote) # None
          <=> {ask.limit.base, ask.limit.quote} = ours
    BY DirectionIs
  <2> QED  BY <2>2, <2>3
<1>6. Serves <=> /\ {ask.from, ask.to} = ours
                 /\ ask.kind = "WithLimit" => {ask.limit.base, ask.limit.quote} = ours
                 /\ pool.protocol = "UniswapV4" => pool.id \notin Hooked
  BY DEF Serves
<1> HIDE DEF ours
<1> QED  BY <1>2, <1>3, <1>4, <1>5, <1>6

(* The direction, and the price at which the caller has the swap stop.     *)
LEMMA FallsAre ==
  ASSUME EngineInv, pool # None, Down \in BOOLEAN \ {None}
  PROVE  Falls = Down
<1>1. Falls <=> Down  BY FallsIs
<1>2. Falls \in BOOLEAN  BY DEF Falls
<1> HIDE DEF Falls, Down
<1> QED  BY <1>1, <1>2, Zenon

LEMMA StopIs ==
  ASSUME EngineInv, pool # None, ask \in Ask, Down \in BOOLEAN \ {None},
         ask.kind = "WithLimit" => ClampedLimit(ask.limit) # None
  PROVE  Stop = Limit(ask) /\ Stop \in Low..High
<1>1. Low \in Int /\ High \in Int /\ Low <= High
  <2>1. Low \in Int /\ High \in Int  BY EndsAre
  <2>2. pool.price \in Low..High  BY PoolIs DEF Fetched
  <2> QED  BY <2>1, <2>2
<1>2. Falls = Down  BY FallsAre
<1>3. CASE ask.kind = "WithLimit"
  <2> DEFINE direct == Direction(pool, ask.limit.base, ask.limit.quote)
             x == IF direct = TRUE THEN ask.limit.at ELSE -ask.limit.at
             y == IF ask.limit.base = Source.assets[1] THEN ask.limit.at ELSE -ask.limit.at
  <2>1. ask.limit \in Price /\ ask.limit.at \in Int  BY DEF Ask, Price
  <2>2. direct # None  BY <1>3, <2>1, ClampedWhen
  <2>3. direct = TRUE <=> ask.limit.base = Source.assets[1]  BY <2>2, DirectionIs
  <2>4. x = y /\ x \in Int
    <3> HIDE DEF direct
    <3> QED  BY <2>1, <2>3
  <2>5. ClampedLimit(ask.limit) = IF direct = None THEN None
                                  ELSE IF x < Low THEN Low ELSE IF x > High THEN High ELSE x
    BY DEF ClampedLimit, Low, High
  <2>6. Stop = Max({Low, Min({High, y})})  BY <1>3 DEF Stop, Low, High
  <2>7. Limit(ask) = ClampedLimit(ask.limit)  BY <1>3 DEF Limit
  <2> HIDE DEF x, y, direct
  <2> DEFINE m == Min({High, y})
  <2>8. m = IF High > y THEN y ELSE High  BY <1>1, <2>4, PairMin
  <2>9. m \in Int  BY <1>1, <2>4, <2>8
  <2>10. Stop = Max({Low, m})  BY <2>6
  <2> HIDE DEF m
  <2>11. Stop = IF Low > m THEN Low ELSE m  BY <1>1, <2>9, <2>10, PairMax
  <2> QED  BY <1>1, <2>2, <2>4, <2>5, <2>7, <2>8, <2>11
<1>4. CASE ask.kind # "WithLimit"
  <2>1. Stop = IF Falls THEN Low ELSE High  BY <1>4 DEF Stop, Low, High
  <2>2. Limit(ask) = IF Down THEN Low ELSE High
    BY <1>4 DEF Limit, PriceExtreme, Down, Low, High
  <2> HIDE DEF Falls, Down
  <2>3. Stop = IF Down THEN Low ELSE High  BY <1>2, <2>1, Zenon
  <2> QED  BY <1>1, <2>2, <2>3
<1> QED  BY <1>3, <1>4

(* Where a question that is not refused comes to an end. *)
Placed ==
  /\ Down \in BOOLEAN \ {None} /\ Falls = Down /\ Serves
  /\ Stop = Limit(ask) /\ Stop \in Int /\ Edge \in Int /\ Edge = WindowEdge(pool.data, Down)
  /\ Bind = Reach /\ Bind = IF Down THEN IF Stop > Edge THEN Stop ELSE Edge
                            ELSE IF Stop > Edge THEN Edge ELSE Stop
  /\ Bounds(Bind, pool.price, Down) /\ Bounds(Stop, pool.price, Down)
  /\ Inside(pool, Bind, Down) /\ Specified(ask) \in 0..MaxI256

LEMMA AskedWhere ==
  ASSUME EngineInv, pool # None, ask \in Ask, Askable(ask)
  PROVE  Placed
<1>1. Fetched(pool)  BY PoolIs
<1>2. /\ Down \in BOOLEAN \ {None} /\ Specified(ask) \in 0..MaxI256
      /\ Bounds(BoundFor(ask), pool.price, Down) /\ Bounds(Limit(ask), pool.price, Down)
  BY <1>1, AskableIs DEF Down
<1>3. Bind = BoundFor(ask)  BY DEF Bind, BoundFor, Down
<1>4. Falls = Down  BY <1>2, FallsAre
<1>5. /\ PoolRefusal(pool, ask) = "Ok"
      /\ ask.kind = "WithLimit" => ClampedLimit(ask.limit) # None
  BY DEF Askable, Refusal
<1>6. Serves  BY <1>5, ServesIs
<1>7. Stop = Limit(ask) /\ Stop \in Low..High  BY <1>2, <1>5, StopIs
<1>8. Stop \in Int  BY <1>7, EndsAre
<1>9. Edge = WindowEdge(pool.data, Down)
  <2>1. Edge = WindowEdge(pool.data, Falls)  BY DEF Edge
  <2> HIDE DEF Falls, Down
  <2> QED  BY <1>4, <2>1, Zenon
<1>10. Edge \in Int
  <2>1. \A d \in BOOLEAN : WindowEdge(pool.data, d) \in Int  BY <1>1, WithinWindow
  <2> HIDE DEF Edge, Down
  <2> QED  BY <1>2, <1>9, <2>1, Zenon
<1>11. Bind = Tighter(Down, Stop, Edge)  BY <1>7, <1>9 DEF Bind
<1> HIDE DEF Down, Bind, Falls, Stop, Edge
<1>12. Bind = IF Down THEN IF Stop > Edge THEN Stop ELSE Edge
              ELSE IF Stop > Edge THEN Edge ELSE Stop
  BY <1>2, <1>8, <1>10, <1>11, TighterIs
<1>13. Max({Edge, Stop}) = IF Edge > Stop THEN Edge ELSE Stop  BY <1>8, <1>10, PairMax
<1>14. Min({Edge, Stop}) = IF Edge > Stop THEN Stop ELSE Edge  BY <1>8, <1>10, PairMin
<1>15. Reach = IF Down THEN Max({Edge, Stop}) ELSE Min({Edge, Stop})
  <2>1. Reach = IF Falls THEN Max({Edge, Stop}) ELSE Min({Edge, Stop})  BY DEF Reach
  <2> QED  BY <1>4, <2>1, Zenon
<1>16. Bind = Reach  BY <1>8, <1>10, <1>12, <1>13, <1>14, <1>15
<1>17. Inside(pool, Bind, Down)
  <2>1. WindowEdge(pool.data, Down) = IF Down THEN SqrtAt(pool.data.window.low)
                                      ELSE SqrtAt(pool.data.window.high)
    BY DEF WindowEdge
  <2>2. Edge = IF Down THEN SqrtAt(pool.data.window.low) ELSE SqrtAt(pool.data.window.high)
    BY <1>9, <2>1, Zenon
  <2>3. IF Down THEN Edge <= Bind ELSE Bind <= Edge  BY <1>8, <1>10, <1>12
  <2> QED  BY <2>2, <2>3 DEF Inside
<1> QED
  BY <1>2, <1>3, <1>4, <1>6, <1>7, <1>8, <1>9, <1>10, <1>12, <1>16, <1>17 DEF Placed

(* The swap stands where the walk over the chain does: at its price, or if *)
(* nothing is left, wherever the walk goes from there.                     *)
Route == Path(Source, Down, ExactIn(ask), Specified(ask))
Tracks(s) ==
  LET price == IF s.remaining # 0 THEN s.price ELSE Bind
  IN  Stands(Route[Units(Source, Down, price)], s.remaining, s.in, s.out)

LEMMA RouteIs ==
  ASSUME EngineInv, pool # None, Placed
  PROVE  /\ Walking(Route, Source, Down, ExactIn(ask), Specified(ask))
         /\ ExactIn(ask) \in BOOLEAN
<1>1. Source \in Chain  BY PoolIs DEF PoolShows
<1>2. Specified(ask) \in Nat  BY EngineAssumption DEF Placed
<1>3. ExactIn(ask) \in BOOLEAN  BY DEF ExactIn
<1>4. Down \in BOOLEAN  BY DEF Placed
<1> HIDE DEF Down, Source, ExactIn, Specified
<1> QED  BY <1>1, <1>2, <1>3, <1>4, PathIs DEF Route

(* From where nothing is left the walk stays as it is. *)
LEMMA RouteEnds ==
  ASSUME NEW chain \in Chain, NEW down \in BOOLEAN, NEW exactIn, NEW amount, NEW w,
         Walking(w, chain, down, exactIn, amount), NEW a \in Nat, NEW b \in Nat,
         a <= b, b <= Reachable(chain, down), w[a].left = 0
  PROVE  w[b] = w[a]
<1>1. Reachable(chain, down) \in Nat  BY ReachIs
<1>2. ASSUME NEW k \in a + 1..b
      PROVE  \E liquidity, cost, x : w[k] = OneUnit(w[k - 1], liquidity, cost, x)
  <2>1. k \in 1..Reachable(chain, down)  BY <1>1
  <2>2. w[k] = OneUnit(w[k - 1], Yield(chain, down, k), Cost(chain, down, k), exactIn)
    BY <2>1 DEF Walking
  <2> QED  BY <2>2
<1> QED  BY <1>2, Stuck

Starting == [ price |-> pool.price, tick |-> pool.tick, liquidity |-> pool.liquidity,
              remaining |-> Specified(ask), in |-> 0, out |-> 0 ]

LEMMA BeginTracks ==
  EngineInv /\ pool # None /\ ask \in Ask /\ Askable(ask) => Tracks(Starting)
<1> SUFFICES ASSUME EngineInv, pool # None, ask \in Ask, Askable(ask)
             PROVE  Tracks(Starting)
  OBVIOUS
<1>1. Placed  BY AskedWhere
<1>2. /\ Source \in Chain /\ pool.price = Source.price /\ pool.price \in Int
  BY PoolIs, EndsAre DEF PoolShows, Fetched
<1>3. Walking(Route, Source, Down, ExactIn(ask), Specified(ask))  BY <1>1, RouteIs
<1>4. Down \in BOOLEAN /\ Bounds(Bind, pool.price, Down) /\ Specified(ask) \in Int
  BY <1>1, EngineAssumption DEF Placed
<1> DEFINE n == Units(Source, Down, pool.price)
           m == Units(Source, Down, Bind)
           r == Specified(ask)
           w == Route
<1> HIDE DEF Down, Bind, Source, w, r
<1>5. n = 0 /\ m \in Nat /\ m <= Reachable(Source, Down)
  <2>1. n = Way(Source.price, pool.price, Down) /\ m \in Nat /\ m <= Reachable(Source, Down)
    BY <1>2, <1>4, UnitsAre
  <2> QED  BY <1>2, <2>1 DEF Way
<1>6. w[0] = Starts(r)  BY <1>3 DEF Walking, w, r
<1>7. w[0].left = r /\ w[0].in = 0 /\ w[0].out = 0  BY <1>6 DEF Starts
<1>8. Starting.remaining = r /\ Starting.price = pool.price /\ Starting.in = 0 /\ Starting.out = 0
  BY DEF Starting, r
<1> HIDE DEF n, m
<1>9. CASE r # 0
  <2>1. Stands(w[n], r, 0, 0)  BY <1>5, <1>7 DEF Stands
  <2> QED  BY <1>8, <1>9, <2>1 DEF Tracks, n, w
<1>10. CASE r = 0
  <2>1. w[m] = w[0]
    <3>1. w[0].left = 0  BY <1>7, <1>10
    <3>2. 0 <= m /\ 0 \in Nat  BY <1>5
    <3>3. Walking(w, Source, Down, ExactIn(ask), Specified(ask))  BY <1>3 DEF w
    <3> QED  BY <1>2, <1>4, <1>5, <3>1, <3>2, <3>3, RouteEnds
  <2>2. Stands(w[m], r, 0, 0)  BY <1>7, <2>1 DEF Stands
  <2> QED  BY <1>8, <1>10, <2>2 DEF Tracks, m, w
<1> QED  BY <1>9, <1>10

(* One iteration stays on the walk, and from a whole snapshot finds the    *)
(* tick that it crosses and no more liquidity than a pool can count.       *)
LEMMA StepTracks ==
  ASSUME EngineInv, swap # None, Running, Askable(ask), Whole, Tracks(swap)
  PROVE  ErrorNow = "Ok" /\ Tracks(GoesNow)
<1>1. /\ ask # None /\ pool # None /\ ask \in Ask /\ Looping(pool, swap, Bind, Down)
      /\ swap.remaining # 0 /\ swap.price # Bind
  BY DEF EngineInv, LoopInv, Running
<1>2. Placed  BY <1>1, AskedWhere
<1>3. Fetched(pool) /\ PoolShows  BY <1>1, PoolIs
<1> DEFINE chain == Source
           down == Down
           bound == Bind
           exactIn == ExactIn(ask)
           amount == Specified(ask)
           w == Route
           price == swap.price
           r == swap.remaining
           liquidity == swap.liquidity
           fee == FeePips(pool, Down)
           target == TargetNow
           n == Units(chain, down, price)
           way == Way(price, target, down)
<1>4. /\ down \in BOOLEAN /\ Inside(pool, bound, down) /\ Down \in BOOLEAN
  BY <1>2 DEF Placed
<1>5. StepGoes  BY <1>1, <1>3, <1>4, StepMoves
<1>6. /\ Nexts(pool.data.nets, NextNow, swap.tick, down) /\ fee \in Nat
      /\ Toward(target, NextNow, price, bound, down)
      /\ StepNow.price \in Int /\ StepNow.in \in Nat /\ StepNow.out \in Nat
      /\ StepNow.price = target \/ UsedNow = r
      /\ ToNow.net \in Int /\ Moving(pool, GoesNow, bound, down)
  BY <1>5 DEF StepGoes
<1>7. chain \in Chain /\ Shows(pool, chain) /\ pool.price = chain.price /\ fee = chain.fee[down]
  BY <1>3, <1>4 DEF PoolShows
<1>8. Walking(w, chain, down, exactIn, amount) /\ exactIn \in BOOLEAN
  BY <1>1, <1>2, RouteIs
<1>9. /\ price \in Int /\ liquidity \in Nat /\ liquidity \in Int /\ r \in Nat \ {0}
      /\ swap.in \in Nat /\ swap.out \in Nat /\ Moving(pool, swap, bound, down)
  BY <1>1, EngineAssumption DEF Looping, Swap
<1>10. Stands(w[n], r, swap.in, swap.out)  BY <1>1 DEF Tracks
<1>11. StepNow = SwapStep(price, target, liquidity, fee, r, exactIn)  BY DEF StepNow
<1>12. UsedNow = IF exactIn THEN StepNow.in ELSE StepNow.out  BY DEF UsedNow
<1>13. /\ GoesNow.price = StepNow.price /\ GoesNow.liquidity = liquidity + ToNow.net
       /\ GoesNow.remaining = r - UsedNow
       /\ GoesNow.in = swap.in + StepNow.in /\ GoesNow.out = swap.out + StepNow.out
  BY DEF GoesNow
<1>14. Tracks(GoesNow) <=>
         Stands(w[Units(chain, down, IF GoesNow.remaining # 0 THEN GoesNow.price ELSE bound)],
                GoesNow.remaining, GoesNow.in, GoesNow.out)
  BY DEF Tracks
<1>15. ErrorNow = IF ToNow.net = None THEN "InsufficientLiquidity"
                  ELSE IF liquidity + ToNow.net \notin 0..MaxLiquidity THEN "Overflow" ELSE "Ok"
  BY DEF ErrorNow
<1> HIDE DEF chain, down, bound, exactIn, amount, w, price, r, liquidity, fee, target
<1>16. ErrorNow = "Ok"
  <2>1. GoesNow.liquidity = NetOver(chain.nets, MinTick - 1, GoesNow.tick)
    BY <1>3, <1>4, <1>6, <1>7, TrueLiquidity
  <2>2. GoesNow.tick \in Int /\ MinTick - 1 <= GoesNow.tick /\ GoesNow.tick <= MaxTick
    BY <1>3, <1>4, <1>6, LoopsInside
  <2>3. GoesNow.tick \in MinTick - 1 .. MaxTick  BY <2>2, TicksAssumption
  <2>4. NetOver(chain.nets, MinTick - 1, GoesNow.tick) \in 0..MaxLiquidity
    BY <1>7, <2>3, ChainIs
  <2>5. None \notin Int  BY EngineAssumption
  <2> QED  BY <1>6, <1>13, <1>15, <2>1, <2>4, <2>5
<1>17. Stretch(w, n, price, target, down, liquidity, fee, exactIn)
  BY <1>3, <1>4, <1>6, <1>7, <1>8, <1>9, StretchAhead DEF price, liquidity
<1>18. /\ target \in Int
       /\ IF down THEN bound <= target /\ target <= price
          ELSE target <= bound /\ price <= target
  BY <1>6 DEF Toward
<1>19. /\ bound \in Int
       /\ IF down THEN Low <= bound /\ bound <= price /\ price <= pool.price
          ELSE pool.price <= price /\ price <= bound /\ bound <= High
  BY <1>9 DEF Moving, Bounds, price
<1>20. pool.price \in Int /\ Low <= pool.price /\ pool.price <= High
  <2>1. pool.price \in Low..High  BY <1>3 DEF Fetched
  <2> QED  BY <2>1, EndsAre
<1>21. SqrtAt(MinTick) <= price /\ price <= SqrtAt(MaxTick)
  <2>1. Low <= price /\ price <= High  BY <1>4, <1>9, <1>19, <1>20, EndsAre
  <2>2. SqrtAt(MinTick) < Low /\ High < SqrtAt(MaxTick)  BY EndsAre DEF Low, High
  <2> QED  BY <1>9, <2>1, <2>2, EndsAre
<1>22. /\ n = Way(chain.price, price, down) /\ n \in Nat
       /\ Units(chain, down, bound) \in Nat /\ Units(chain, down, bound) <= Reachable(chain, down)
  <2>1. Bounds(bound, price, down)  BY <1>9 DEF Moving, price
  <2>2. IF down THEN price <= chain.price ELSE chain.price <= price  BY <1>7, <1>19
  <2> QED  BY <1>4, <1>7, <1>9, <2>1, <2>2, UnitsAre
<1>23. /\ Units(chain, down, target) = Way(chain.price, target, down)
       /\ Units(chain, down, target) \in Nat
       /\ Units(chain, down, target) <= Units(chain, down, bound)
  <2>1. Bounds(bound, target, down)  BY <1>18, <1>19 DEF Bounds
  <2>2. IF down THEN target <= chain.price ELSE chain.price <= target
    BY <1>4, <1>7, <1>9, <1>18, <1>19, <1>20
  <2> QED  BY <1>4, <1>7, <1>18, <2>1, <2>2, UnitsAre
<1>24. n + way = Units(chain, down, target)
  <2>1. chain.price \in Int  BY <1>7, <1>20
  <2> HIDE DEF n
  <2> QED  BY <1>9, <1>18, <1>22, <1>23, <2>1 DEF Way
<1> DEFINE m == Units(chain, down, target)
           m2 == Units(chain, down, bound)
<1>25. Leaves(StepNow, w[m], r, swap.in, swap.out, exactIn)
  <2>1. IF down THEN target <= price ELSE price <= target  BY <1>18
  <2> HIDE DEF n
  <2>2. Leaves(SwapStep(price, target, liquidity, fee, r, exactIn), w[n + way], r,
               swap.in, swap.out, exactIn)
    BY <1>4, <1>6, <1>8, <1>9, <1>10, <1>17, <1>18, <1>21, <1>22, <2>1, StepIsWalked
  <2> HIDE DEF way
  <2> QED  BY <1>11, <1>24, <2>2
<1> HIDE DEF n, way, m, m2
<1>26. Stands(w[m], GoesNow.remaining, GoesNow.in, GoesNow.out)
  BY <1>12, <1>13, <1>25 DEF Leaves
<1>27. CASE GoesNow.remaining # 0
  <2>1. UsedNow # r
    <3>1. UsedNow = r => GoesNow.remaining = 0
      <4>1. r - r = 0  BY <1>9
      <4> QED  BY <1>13, <4>1
    <3> QED  BY <1>27, <3>1
  <2>2. GoesNow.price = target  BY <1>6, <1>13, <2>1
  <2> QED  BY <1>14, <1>16, <1>26, <1>27, <2>2 DEF m
<1>28. CASE GoesNow.remaining = 0
  <2>1. w[m].left = 0  BY <1>26, <1>28 DEF Stands
  <2>2. m \in Nat /\ m2 \in Nat /\ m <= m2 /\ m2 <= Reachable(chain, down)
    BY <1>22, <1>23 DEF m, m2
  <2>3. w[m2] = w[m]  BY <1>4, <1>7, <1>8, <2>1, <2>2, RouteEnds
  <2>4. Stands(w[m2], GoesNow.remaining, GoesNow.in, GoesNow.out)  BY <1>26, <2>3
  <2> QED  BY <1>14, <1>16, <1>28, <2>4 DEF m2
<1> QED  BY <1>27, <1>28

(* A walk that is left with something has taken the sum of the costs: what *)
(* it took is used up exactly there, and of one unit more the unit is left.*)
Takes(w, chain, down, n) ==
  \A k \in 1..n : /\ w[k].in = w[k - 1].in + Cost(chain, down, k)
                  /\ w[k].in \in Nat /\ w[k - 1].in \in Nat /\ Cost(chain, down, k) \in Nat

LEMMA WalkLeft ==
  ASSUME NEW chain \in Chain, NEW down \in BOOLEAN, NEW exactIn, NEW amount, NEW w,
         Walking(w, chain, down, exactIn, amount), NEW n \in Nat,
         n <= Reachable(chain, down), w[n].left # 0
  PROVE  \A k \in 0..n : w[k].left # 0 /\ w[k] \in Here
<1>1. Reachable(chain, down) \in Nat  BY ReachIs
<1> SUFFICES ASSUME NEW k \in 0..n PROVE w[k].left # 0 /\ w[k] \in Here
  OBVIOUS
<1>2. k \in Nat /\ k <= n /\ k \in 0..Reachable(chain, down)  BY <1>1
<1>3. w[k] \in Here  BY <1>2 DEF Walking
<1>4. w[k].left = 0 => w[n] = w[k]  BY <1>2, RouteEnds
<1> QED  BY <1>3, <1>4

LEMMA WalkTakes ==
  ASSUME NEW chain \in Chain, NEW down \in BOOLEAN, NEW amount, NEW w, NEW exactIn,
         exactIn = TRUE, Walking(w, chain, down, exactIn, amount), NEW n \in Nat,
         n <= Reachable(chain, down), w[n].left # 0
  PROVE  Takes(w, chain, down, n) /\ w[0].in = 0
<1>1. Reachable(chain, down) \in Nat  BY ReachIs
<1>2. \A k \in 0..n : w[k].left # 0 /\ w[k] \in Here  BY WalkLeft
<1>3. ASSUME NEW k \in 1..n
      PROVE  /\ w[k].in = w[k - 1].in + Cost(chain, down, k)
             /\ w[k].in \in Nat /\ w[k - 1].in \in Nat /\ Cost(chain, down, k) \in Nat
  <2>1. k - 1 \in 0..n /\ k \in 0..n /\ k \in 1..Reachable(chain, down)  BY <1>1
  <2>2. w[k] = OneUnit(w[k - 1], Yield(chain, down, k), Cost(chain, down, k), exactIn)
    BY <2>1 DEF Walking
  <2>3. w[k].left # 0 /\ w[k - 1].left # 0 /\ w[k] \in Here /\ w[k - 1] \in Here
    BY <1>2, <2>1
  <2>4. Cost(chain, down, k) \in Nat  BY <2>1, UnitIs
  <2>5. w[k].in = w[k - 1].in + Cost(chain, down, k)
    <3> DEFINE cost == Cost(chain, down, k)
               was == w[k - 1]
    <3> HIDE DEF cost, was
    <3>1. w[k] = OneUnit(was, Yield(chain, down, k), cost, exactIn)  BY <2>2 DEF was, cost
    <3>2. was.left >= cost
      <4> SUFFICES ASSUME ~(was.left >= cost) PROVE FALSE
        OBVIOUS
      <4>1. w[k].left = 0  BY <2>3, <3>1 DEF OneUnit, was
      <4> QED  BY <2>3, <4>1
    <3>3. w[k].in = was.in + cost  BY <2>3, <3>1, <3>2 DEF OneUnit, was
    <3> QED  BY <3>3 DEF was, cost
  <2> QED  BY <2>3, <2>4, <2>5 DEF Here
<1>4. w[0].in = 0  BY DEF Walking, Starts
<1> QED  BY <1>3, <1>4 DEF Takes

LEMMA TakesMore ==
  ASSUME NEW w, NEW chain, NEW down, NEW n \in Nat, Takes(w, chain, down, n), w[0].in = 0
  PROVE  \A k \in 0..n : w[k].in \in Nat /\ w[k].in <= w[n].in
<1> DEFINE S == {k \in 0..n : w[n - k].in \in Nat /\ w[n - k].in <= w[n].in}
<1>1. w[n].in \in Nat
  <2>1. CASE n = 0  BY <2>1
  <2>2. CASE n # 0
    <3>1. n \in 1..n  BY <2>2
    <3> QED  BY <3>1 DEF Takes
  <2> QED  BY <2>1, <2>2
<1>2. 0 \in S
  <2>1. n - 0 = n  OBVIOUS
  <2> QED  BY <1>1, <2>1
<1>3. ASSUME NEW k \in 0..n - 1, k \in S PROVE k + 1 \in S
  <2>1. n - k \in 1..n /\ (n - k) - 1 = n - (k + 1) /\ k + 1 \in 0..n  OBVIOUS
  <2>2. /\ w[n - k].in = w[n - (k + 1)].in + Cost(chain, down, n - k)
        /\ w[n - k].in \in Nat /\ w[n - (k + 1)].in \in Nat /\ Cost(chain, down, n - k) \in Nat
    BY <2>1 DEF Takes
  <2>3. w[n - k].in <= w[n].in  BY <1>3
  <2>4. w[n - (k + 1)].in <= w[n].in  BY <1>1, <2>2, <2>3
  <2> QED  BY <2>1, <2>2, <2>4
<1>4. 0..n \subseteq S
  <2> HIDE DEF S
  <2> QED  BY <1>2, <1>3, BoundedInduction
<1> SUFFICES ASSUME NEW k \in 0..n PROVE w[k].in \in Nat /\ w[k].in <= w[n].in
  OBVIOUS
<1>5. n - k \in 0..n /\ n - (n - k) = k  OBVIOUS
<1>6. n - k \in S  BY <1>4, <1>5
<1> QED  BY <1>5, <1>6

(* An exact input. *)
SpendsAll(exactIn) == exactIn = TRUE

LEMMA Capacity ==
  ASSUME NEW chain \in Chain, NEW down \in BOOLEAN, NEW n \in Nat,
         n <= Reachable(chain, down), NEW w, Takes(w, chain, down, n), w[0].in = 0,
         NEW amount \in Nat, w[n].in <= amount,
         NEW exactIn, SpendsAll(exactIn), NEW v, Walking(v, chain, down, exactIn, amount)
  PROVE  v[n].left = amount - w[n].in
<1> DEFINE S == {k \in 0..n : v[k].left = amount - w[k].in}
<1>1. Reachable(chain, down) \in Nat  BY ReachIs
<1>2. \A k \in 0..n : w[k].in \in Nat /\ w[k].in <= w[n].in  BY TakesMore
<1>3. 0 \in S
  <2>1. v[0].left = amount  BY DEF Walking, Starts
  <2>2. amount - 0 = amount /\ 0 \in 0..n  OBVIOUS
  <2>3. v[0].left = amount - w[0].in  BY <2>1, <2>2
  <2> QED  BY <2>2, <2>3
<1>4. ASSUME NEW k \in 0..n - 1, k \in S PROVE k + 1 \in S
  <2>1. k + 1 \in 1..n /\ (k + 1) - 1 = k /\ k + 1 \in 0..n /\ k \in 0..n
        /\ k + 1 \in 1..Reachable(chain, down) /\ k \in 0..Reachable(chain, down)
    BY <1>1
  <2> DEFINE cost == Cost(chain, down, k + 1)
             yield == Yield(chain, down, k + 1)
             was == v[k]
             now == v[k + 1]
             a == w[k].in
             b == w[k + 1].in
  <2>2. now = OneUnit(was, yield, cost, exactIn)
    <3>1. v[k + 1] = OneUnit(v[(k + 1) - 1], yield, cost, exactIn)  BY <2>1 DEF Walking
    <3> QED  BY <2>1, <3>1
  <2>3. was \in Here  BY <2>1 DEF Walking
  <2>4. was.left = amount - a  BY <1>4
  <2>5. b = a + cost /\ a \in Nat /\ cost \in Nat
    <3>1. /\ w[k + 1].in = w[(k + 1) - 1].in + cost /\ w[(k + 1) - 1].in \in Nat
          /\ cost \in Nat
      BY <2>1 DEF Takes
    <3> QED  BY <2>1, <3>1
  <2>6. b \in Nat /\ b <= amount
    <3>1. b \in Nat /\ b <= w[n].in /\ w[n].in \in Nat  BY <1>2, <2>1
    <3> QED  BY <3>1
  <2> HIDE DEF cost, yield, was, now, a, b
  <2>7. now.left = amount - b
    <3>1. CASE was.left = 0
      <4>1. now = was  BY <2>2, <3>1 DEF OneUnit
      <4>2. b = amount  BY <2>4, <2>5, <2>6, <3>1
      <4>3. amount - amount = 0  OBVIOUS
      <4> QED  BY <3>1, <4>1, <4>2, <4>3
    <3>2. CASE was.left # 0
      <4>1. was.left >= cost  BY <2>4, <2>5, <2>6
      <4>2. now.left = was.left - cost  BY <2>2, <3>2, <4>1 DEF OneUnit, SpendsAll
      <4> QED  BY <2>4, <2>5, <2>6, <4>2
    <3> QED  BY <3>1, <3>2
  <2> QED  BY <2>1, <2>7 DEF now, b
<1>5. 0..n \subseteq S
  <2> HIDE DEF S
  <2> QED  BY <1>3, <1>4, BoundedInduction
<1>6. n \in 0..n  OBVIOUS
<1>7. n \in S  BY <1>5, <1>6
<1> QED  BY <1>7

-----------------------------------------------------------------------------
(* What the answers must be. *)

QuoteIs(ans) ==
  (ans.verdict = "Ok" /\ ask.kind # "MaxAmountIn" /\ Whole) =>
    /\ ans.in = Truth.in /\ ans.out = Truth.out
    /\ ans.limited <=> \/ Truth.left # 0
                       \/ /\ ask.kind = "WithLimit"
                          /\ IF Falls THEN Stop >= Source.price ELSE Stop <= Source.price
CauseIs(ans) ==
  Whole =>
    /\ ans.verdict \in {"Unsupported", "AssetNotInPool"} => ~Serves
    /\ ~Serves => ans.verdict \in {"Unsupported", "AssetNotInPool", "Overflow"}
    /\ ans.verdict = "TickWindowExceeded" => UpTo(Edge, ask.amount).left # 0
    /\ ans.verdict = "InsufficientLiquidity" =>
         DOMAIN pool.data.nets = {} \/ Truth.left # 0
    /\ ans.verdict = "Overflow" => ask.amount > MaxI256
CapacityIs(ans) ==
  (ans.verdict = "Ok" /\ ask.kind = "MaxAmountIn" /\ Whole) =>
    UpTo(Reach, ans.in).left = 0 /\ UpTo(Reach, ans.in + 1).left # 0
Right(ans) == QuoteIs(ans) /\ CauseIs(ans) /\ CapacityIs(ans)

(* The walks that the properties compare with are along the route.         *)
LEMMA UpToIs ==
  ASSUME Placed, NEW bound, NEW amount
  PROVE  UpTo(bound, amount) = Path(Source, Down, ExactIn(ask), amount)[Units(Source, Down, bound)]
<1>1. UpTo(bound, amount)
        = Path(Source, Falls, ExactIn(ask), amount)[Units(Source, Falls, bound)]
  BY DEF UpTo, Walk
<1>2. Falls = Down  BY DEF Placed
<1> HIDE DEF Falls, Down, Source, ExactIn
<1> QED  BY <1>1, <1>2, Zenon

LEMMA TruthIs ==
  ASSUME Placed
  PROVE  Truth = Route[Units(Source, Down, Stop)]
<1>1. Truth = UpTo(Stop, Specified(ask))  BY DEF Truth
<1> HIDE DEF UpTo, Stop, Down, Source, ExactIn, Specified
<1> QED  BY <1>1, UpToIs DEF Route

(* Where the swap has come to an end, the walk is at its bound, and at the *)
(* caller's if nothing is left.                                            *)
LEMMA EndIs ==
  ASSUME EngineInv, swap # None, ~Running, Placed, Tracks(swap)
  PROVE  /\ swap.in \in Nat /\ swap.out \in Nat /\ swap.remaining \in Nat
         /\ Stands(Route[Units(Source, Down, Bind)], swap.remaining, swap.in, swap.out)
         /\ swap.remaining = 0 \/ Bind = Stop =>
              Stands(Truth, swap.remaining, swap.in, swap.out)
<1>1. pool # None /\ Looping(pool, swap, Bind, Down)  BY DEF EngineInv, LoopInv
<1>2. swap.in \in Nat /\ swap.out \in Nat /\ swap.remaining \in Nat
  BY <1>1, EngineAssumption DEF Looping, Swap
<1>3. swap.remaining = 0 \/ swap.price = Bind  BY DEF Running
<1>4. Stands(Route[Units(Source, Down, IF swap.remaining # 0 THEN swap.price ELSE Bind)],
             swap.remaining, swap.in, swap.out)
  BY DEF Tracks
<1>5. Truth = Route[Units(Source, Down, Stop)]  BY TruthIs
<1> DEFINE m == Units(Source, Down, Bind)
           u == Units(Source, Down, Stop)
           w == Route
           r == swap.remaining
<1>6. Stands(w[m], r, swap.in, swap.out)
  <2> HIDE DEF Bind, Source, Down, w
  <2> QED  BY <1>3, <1>4 DEF w
<1>7. Bind = Stop => Stands(Truth, r, swap.in, swap.out)
  <2>1. Bind = Stop => u = m  OBVIOUS
  <2> HIDE DEF u, m, w, r, Truth, Stop, Bind
  <2> QED  BY <1>5, <1>6, <2>1 DEF u, w
<1>8. ASSUME r = 0 PROVE Stands(Truth, r, swap.in, swap.out)
  <2>1. Source \in Chain /\ pool.price = Source.price /\ Source.price \in Int
    BY <1>1, PoolIs, ChainIs DEF PoolShows
  <2>2. Walking(w, Source, Down, ExactIn(ask), Specified(ask))  BY <1>1, RouteIs
  <2>3. /\ Down \in BOOLEAN /\ Bounds(Bind, pool.price, Down) /\ Bounds(Stop, pool.price, Down)
        /\ IF Down THEN Stop <= Bind ELSE Bind <= Stop
    BY DEF Placed
  <2> HIDE DEF Down, Stop, Bind, Source
  <2>4. /\ m = Way(Source.price, Bind, Down) /\ u = Way(Source.price, Stop, Down)
        /\ m \in Nat /\ u \in Nat /\ u <= Reachable(Source, Down)
    BY <2>1, <2>3, UnitsAre
  <2>5. m <= u
    <3> HIDE DEF m, u
    <3> QED  BY <2>1, <2>3, <2>4 DEF Way, Bounds
  <2>6. w[m].left = 0  BY <1>6, <1>8 DEF Stands
  <2> HIDE DEF m, u, w
  <2>7. w[u] = w[m]  BY <2>1, <2>2, <2>3, <2>4, <2>5, <2>6, RouteEnds
  <2> QED  BY <1>5, <1>6, <2>7 DEF u, w
<1> QED  BY <1>2, <1>6, <1>7, <1>8

(* The most that goes in: no input is used up by the whole range, so the   *)
(* swap ends at its bound, where the walk has taken all that it can.       *)
LEMMA CapacityIsRight ==
  ASSUME EngineInv, swap # None, ~Running, Placed, Tracks(swap), ask.kind = "MaxAmountIn"
  PROVE  UpTo(Reach, swap.in).left = 0 /\ UpTo(Reach, swap.in + 1).left # 0
<1>1. pool # None  BY DEF EngineInv, LoopInv
<1> DEFINE chain == Source
           down == Down
           exactIn == ExactIn(ask)
           m == Units(chain, down, Bind)
           end == Reachable(chain, down)
           w == Route
<1>2. chain \in Chain /\ pool.price = chain.price /\ chain.price \in Int
  BY <1>1, PoolIs, ChainIs DEF PoolShows
<1>3. down \in BOOLEAN /\ Bounds(Bind, pool.price, down) /\ Bind = Reach  BY DEF Placed
<1>4. Walking(w, chain, down, exactIn, Specified(ask))  BY <1>1, RouteIs
<1>5. /\ swap.in \in Nat /\ swap.remaining \in Nat
      /\ Stands(w[m], swap.remaining, swap.in, swap.out)
  BY EndIs
<1>6. exactIn = TRUE /\ Specified(ask) = MaxI256
  <2>1. ask.kind # "AmountIn"  OBVIOUS
  <2>2. exactIn  BY <2>1 DEF ExactIn
  <2>3. exactIn \in BOOLEAN  BY DEF ExactIn
  <2>4. Specified(ask) = MaxI256  BY DEF Specified
  <2> HIDE DEF exactIn
  <2> QED  BY <2>2, <2>3, <2>4
<1>a. exactIn \in BOOLEAN /\ SpendsAll(exactIn)
  <2> HIDE DEF exactIn
  <2> QED  BY <1>6 DEF SpendsAll
<1>7. w[end].left # 0
  <2>1. Walk(chain, down, TRUE, MaxI256, PriceExtreme(down)).left # 0
    <3> HIDE DEF chain, down
    <3> QED  BY <1>2, <1>3, LiquidityAssumption
  <2>2. Walk(chain, down, TRUE, MaxI256, PriceExtreme(down))
          = Path(chain, down, TRUE, MaxI256)[end]
    BY DEF Walk, Reachable
  <2>3. w = Path(chain, down, exactIn, Specified(ask))  BY DEF Route
  <2> HIDE DEF chain, down, exactIn, w
  <2>4. w = Path(chain, down, TRUE, MaxI256)  BY <1>6, <2>3, Zenon
  <2> HIDE DEF end
  <2> QED  BY <2>1, <2>2, <2>4
<1>8. UpTo(Reach, swap.in) = Path(chain, down, exactIn, swap.in)[m]
      /\ UpTo(Reach, swap.in + 1) = Path(chain, down, exactIn, swap.in + 1)[m]
  <2>1. \A amount : UpTo(Bind, amount) = Path(chain, down, exactIn, amount)[m]
    BY UpToIs
  <2> HIDE DEF m, UpTo, Bind, Reach, exactIn, down, chain
  <2> QED  BY <1>3, <2>1
<1> HIDE DEF chain, down, exactIn, w
<1>9. m \in Nat /\ m <= end /\ end \in Nat
  <2>1. m \in Nat /\ m <= end  BY <1>2, <1>3, UnitsAre
  <2>2. end \in Nat  BY <1>2, <1>3, ReachIs
  <2> QED  BY <2>1, <2>2
<1> HIDE DEF m
<1>10. w[m].left # 0
  <2>1. end <= Reachable(chain, down)
    <3>1. Reachable(chain, down) \in Nat  BY <1>9
    <3> QED  BY <3>1
  <2> HIDE DEF end
  <2>2. w[m].left = 0 => w[end] = w[m]
    <3> HIDE <1>6
    <3> QED  BY <1>2, <1>3, <1>4, <1>9, <2>1, RouteEnds
  <2> QED  BY <1>7, <2>2
<1>11. Takes(w, chain, down, m) /\ w[0].in = 0
  <2>1. m <= Reachable(chain, down)  BY <1>9
  <2> HIDE DEF end
  <2> QED  BY <1>2, <1>3, <1>4, <1>6, <1>9, <1>10, <2>1, WalkTakes
<1>12. w[m].in = swap.in  BY <1>5 DEF Stands
<1>13. ASSUME NEW amount \in Nat, swap.in <= amount
       PROVE  Path(chain, down, exactIn, amount)[m].left = amount - swap.in
  <2> DEFINE v == Path(chain, down, exactIn, amount)
  <2>1. Walking(v, chain, down, exactIn, amount)  BY <1>2, <1>3, <1>a, PathIs
  <2> HIDE DEF v
  <2>2. m <= Reachable(chain, down)  BY <1>9
  <2>3. w[m].in <= amount  BY <1>12, <1>13
  <2>4. v[m].left = amount - w[m].in
    <3> HIDE DEF end
    <3> QED  BY <1>2, <1>3, <1>9, <1>11, <1>a, <2>1, <2>2, <2>3, Capacity
  <2> QED  BY <1>12, <2>4 DEF v
<1>14. Path(chain, down, exactIn, swap.in)[m].left = 0
  <2>1. swap.in <= swap.in /\ swap.in - swap.in = 0  BY <1>5
  <2> QED  BY <1>5, <1>13, <2>1
<1>15. Path(chain, down, exactIn, swap.in + 1)[m].left # 0
  <2>1. swap.in + 1 \in Nat /\ swap.in <= swap.in + 1 /\ (swap.in + 1) - swap.in = 1  BY <1>5
  <2>2. Path(chain, down, exactIn, swap.in + 1)[m].left = 1  BY <1>13, <2>1
  <2> QED  BY <2>2
<1> QED  BY <1>8, <1>14, <1>15

LEMMA FinishIsRight ==
  ASSUME EngineInv, swap # None, ~Running, Askable(ask), Whole => Tracks(swap)
  PROVE  Right(Outcome)
<1> SUFFICES ASSUME Whole PROVE Right(Outcome)
  BY DEF Right, QuoteIs, CauseIs, CapacityIs
<1>1. ask # None /\ pool # None /\ ask \in Ask /\ Down \in BOOLEAN  BY DEF EngineInv, LoopInv
<1>2. Placed  BY <1>1, AskedWhere
<1>3. /\ swap.in \in Nat /\ swap.out \in Nat /\ swap.remaining \in Nat
      /\ Stands(Route[Units(Source, Down, Bind)], swap.remaining, swap.in, swap.out)
      /\ swap.remaining = 0 \/ Bind = Stop =>
           Stands(Truth, swap.remaining, swap.in, swap.out)
  BY <1>2, EndIs
<1>4. Serves  BY <1>2 DEF Placed
<1>5. CASE ask.kind = "MaxAmountIn"
  <2>1. Outcome = Gives(swap.in, 0, FALSE)  BY <1>5 DEF Outcome
  <2>2. Outcome.verdict = "Ok" /\ Outcome.in = swap.in  BY <2>1 DEF Gives
  <2>3. UpTo(Reach, swap.in).left = 0 /\ UpTo(Reach, swap.in + 1).left # 0
    BY <1>2, <1>5, CapacityIsRight
  <2> HIDE DEF Outcome, Truth, UpTo, Reach, Edge, Serves
  <2>4. QuoteIs(Outcome)  BY <1>5 DEF QuoteIs
  <2>5. CauseIs(Outcome)  BY <1>4, <2>2 DEF CauseIs
  <2>6. CapacityIs(Outcome)  BY <2>2, <2>3 DEF CapacityIs
  <2> QED  BY <2>4, <2>5, <2>6 DEF Right
<1>6. CASE ask.kind # "MaxAmountIn" /\ WindowExhausted
  <2>1. Outcome = Fails("TickWindowExceeded")  BY <1>6 DEF Outcome
  <2>2. Outcome.verdict = "TickWindowExceeded"  BY <2>1 DEF Fails
  <2>3. swap.remaining # 0 /\ StrictlyTighter(Down, WindowEdge(pool.data, Down), Limit(ask))
    BY <1>6 DEF WindowExhausted
  <2>4. Stop = Limit(ask) /\ Edge = WindowEdge(pool.data, Down) /\ Stop \in Int /\ Edge \in Int
        /\ Down \in BOOLEAN
        /\ Bind = IF Down THEN IF Stop > Edge THEN Stop ELSE Edge
                  ELSE IF Stop > Edge THEN Edge ELSE Stop
    BY <1>2 DEF Placed
  <2>5. Edge # Stop /\ Tighter(Down, Edge, Stop) = Edge
    <3> HIDE DEF Edge, Stop, Down
    <3> QED  BY <2>3, <2>4 DEF StrictlyTighter
  <2>6. Bind = Edge
    <3> HIDE DEF Edge, Stop, Down, Bind
    <3>1. Tighter(Down, Edge, Stop) = IF Down THEN IF Edge > Stop THEN Edge ELSE Stop
                                      ELSE IF Edge > Stop THEN Stop ELSE Edge
      BY <2>4, TighterIs
    <3> QED  BY <2>4, <2>5, <3>1
  <2>7. Specified(ask) = ask.amount  BY <1>6 DEF Specified
  <2>8. UpTo(Edge, ask.amount).left # 0
    <3>1. UpTo(Edge, ask.amount)
            = Path(Source, Down, ExactIn(ask), ask.amount)[Units(Source, Down, Edge)]
      BY <1>2, UpToIs
    <3>2. Route = Path(Source, Down, ExactIn(ask), ask.amount)  BY <2>7 DEF Route
    <3> HIDE DEF Edge, Bind, Source, Down, Route, UpTo, ExactIn
    <3>3. UpTo(Edge, ask.amount) = Route[Units(Source, Down, Bind)]  BY <2>6, <3>1, <3>2
    <3> QED  BY <1>3, <2>3, <3>3 DEF Stands
  <2> HIDE DEF Outcome, Truth, UpTo, Reach, Edge, Serves
  <2>9. QuoteIs(Outcome) /\ CapacityIs(Outcome)  BY <2>2 DEF QuoteIs, CapacityIs
  <2>10. CauseIs(Outcome)  BY <1>4, <2>2, <2>8 DEF CauseIs
  <2> QED  BY <2>9, <2>10 DEF Right
<1>7. CASE ask.kind # "MaxAmountIn" /\ ~WindowExhausted
  <2>1. Outcome = IF swap.remaining # 0 /\ ask.kind # "WithLimit"
                  THEN Fails("InsufficientLiquidity")
                  ELSE Gives(swap.in, swap.out, swap.remaining # 0)
    BY <1>7 DEF Outcome
  <2>2. swap.remaining = 0 \/ Bind = Stop
    <3> SUFFICES ASSUME swap.remaining # 0 PROVE Bind = Stop
      OBVIOUS
    <3>1. ~StrictlyTighter(Down, WindowEdge(pool.data, Down), Limit(ask))
      BY <1>7 DEF WindowExhausted
    <3>2. Stop = Limit(ask) /\ Edge = WindowEdge(pool.data, Down) /\ Stop \in Int /\ Edge \in Int
          /\ Down \in BOOLEAN
          /\ Bind = IF Down THEN IF Stop > Edge THEN Stop ELSE Edge
                    ELSE IF Stop > Edge THEN Edge ELSE Stop
      BY <1>2 DEF Placed
    <3> HIDE DEF Edge, Stop, Down, Bind
    <3>3. Edge = Stop \/ Tighter(Down, Edge, Stop) # Edge  BY <3>1, <3>2 DEF StrictlyTighter
    <3>4. Tighter(Down, Edge, Stop) = IF Down THEN IF Edge > Stop THEN Edge ELSE Stop
                                      ELSE IF Edge > Stop THEN Stop ELSE Edge
      BY <3>2, TighterIs
    <3> QED  BY <3>2, <3>3, <3>4
  <2>3. Truth.left = swap.remaining /\ Truth.in = swap.in /\ Truth.out = swap.out
    BY <1>3, <2>2 DEF Stands
  <2>4. ask.kind = "WithLimit" =>
          ~(IF Falls THEN Stop >= Source.price ELSE Stop <= Source.price)
    <3> SUFFICES ASSUME ask.kind = "WithLimit"
                 PROVE  ~(IF Falls THEN Stop >= Source.price ELSE Stop <= Source.price)
      OBVIOUS
    <3>1. ~LimitReached(ask)  BY DEF Askable
    <3>2. ~(IF Down THEN ClampedLimit(ask.limit) >= pool.price
            ELSE ClampedLimit(ask.limit) <= pool.price)
      BY <3>1 DEF LimitReached, Down
    <3>3. Stop = ClampedLimit(ask.limit)  BY <1>2 DEF Placed, Limit
    <3>4. Falls = Down /\ Down \in BOOLEAN  BY <1>2 DEF Placed
    <3>5. pool.price = Source.price  BY <1>1, PoolIs DEF PoolShows
    <3> HIDE DEF Falls, Down, Stop, Source, ClampedLimit
    <3>6. Falls <=> Down  BY <3>4
    <3> QED  BY <3>2, <3>3, <3>5, <3>6
  <2> HIDE DEF Outcome, Truth, UpTo, Reach, Edge, Serves, Falls, Stop, Source
  <2>5. CASE swap.remaining # 0 /\ ask.kind # "WithLimit"
    <3>1. Outcome.verdict = "InsufficientLiquidity"  BY <2>1, <2>5 DEF Fails
    <3>2. QuoteIs(Outcome) /\ CapacityIs(Outcome)  BY <3>1 DEF QuoteIs, CapacityIs
    <3>3. CauseIs(Outcome)  BY <1>4, <2>3, <2>5, <3>1 DEF CauseIs
    <3> QED  BY <3>2, <3>3 DEF Right
  <2>6. CASE ~(swap.remaining # 0 /\ ask.kind # "WithLimit")
    <3>1. Outcome = Gives(swap.in, swap.out, swap.remaining # 0)  BY <2>1, <2>6
    <3>2. /\ Outcome.verdict = "Ok" /\ Outcome.in = swap.in /\ Outcome.out = swap.out
          /\ Outcome.limited = (swap.remaining # 0)
      BY <3>1 DEF Gives
    <3>3. Outcome.limited <=> swap.remaining # 0  BY <3>2
    <3>4. QuoteIs(Outcome)  BY <2>3, <2>4, <3>2, <3>3 DEF QuoteIs
    <3>5. CauseIs(Outcome)  BY <1>4, <3>2 DEF CauseIs
    <3>6. CapacityIs(Outcome)  BY <1>7 DEF CapacityIs
    <3> QED  BY <3>4, <3>5, <3>6 DEF Right
  <2> QED  BY <2>5, <2>6
<1> QED  BY <1>5, <1>6, <1>7

(* The answer to a question that is refused, or has nothing to do. *)
Declined == IF Refusal(ask) # "Ok" THEN Fails(Refusal(ask)) ELSE Gives(0, 0, TRUE)

(* Nothing to do: the price is at the limit, or beyond it. *)
LEMMA NothingToDo ==
  ASSUME EngineInv, pool # None, ask \in Ask, Down \in BOOLEAN \ {None},
         ask.kind = "WithLimit", ClampedLimit(ask.limit) # None, LimitReached(ask),
         Specified(ask) \in Nat
  PROVE  /\ Truth.in = 0 /\ Truth.out = 0
         /\ IF Falls THEN Stop >= Source.price ELSE Stop <= Source.price
<1>1. Falls = Down  BY FallsAre
<1>2. Stop = Limit(ask) /\ Stop \in Low..High  BY StopIs
<1>3. Stop = ClampedLimit(ask.limit)  BY <1>2 DEF Limit
<1>4. Stop \in Int  BY <1>2, EndsAre
<1>5. Source \in Chain /\ pool.price = Source.price /\ Source.price \in Int
  BY PoolIs, ChainIs DEF PoolShows
<1>6. IF Down THEN Stop >= pool.price ELSE Stop <= pool.price
  BY <1>3 DEF LimitReached, Down
<1> DEFINE w == Path(Source, Down, ExactIn(ask), Specified(ask))
<1>7. Truth = Path(Source, Falls, ExactIn(ask), Specified(ask))[Units(Source, Falls, Stop)]
  BY DEF Truth, UpTo, Walk
<1>8. ExactIn(ask) \in BOOLEAN  BY DEF ExactIn
<1> HIDE DEF Falls, Down, Stop, Source, Truth, ExactIn, Specified
<1>9. Truth = w[Units(Source, Down, Stop)]  BY <1>1, <1>7, Zenon
<1>10. Units(Source, Down, Stop) = 0  BY <1>4, <1>5, <1>6 DEF Units
<1>11. w[0] = Starts(Specified(ask))
  <2>1. Walking(w, Source, Down, ExactIn(ask), Specified(ask))  BY <1>5, <1>8, PathIs
  <2> HIDE DEF w
  <2> QED  BY <2>1 DEF Walking
<1> HIDE DEF w
<1>12. Truth.in = 0 /\ Truth.out = 0  BY <1>9, <1>10, <1>11 DEF Starts
<1>13. Falls <=> Down  BY <1>1
<1> QED  BY <1>5, <1>6, <1>12, <1>13

LEMMA DeclinedIsRight ==
  EngineInv /\ pool # None /\ ask \in Ask /\ ~Askable(ask) => Right(Declined)
<1> SUFFICES ASSUME EngineInv, pool # None, ask \in Ask, ~Askable(ask) PROVE Right(Declined)
  OBVIOUS
<1> DEFINE refused == PoolRefusal(pool, ask)
           foreign == ask.kind = "WithLimit" /\ ClampedLimit(ask.limit) = None
           reached == ask.kind = "WithLimit" /\ LimitReached(ask)
           why == Refusal(ask)
<1>1. why = IF refused # "Ok" THEN refused
            ELSE IF Specified(ask) > MaxI256 THEN "Overflow"
            ELSE IF foreign THEN "AssetNotInPool"
            ELSE IF reached THEN "Ok"
            ELSE IF pool.data.bits = {} THEN "InsufficientLiquidity" ELSE "Ok"
  BY DEF Refusal
<1>2. ~(why = "Ok" /\ ~reached)  BY DEF Askable
<1>3. /\ refused \in {"Ok", "Unsupported", "AssetNotInPool"}
      /\ refused = "Ok" => Down # None
      /\ Serves <=> refused = "Ok" /\ ~foreign
  BY ServesIs
<1>4. why # "Ok" => Declined = Fails(why)  BY DEF Declined
<1>5. why = "Ok" => Declined = Gives(0, 0, TRUE)  BY DEF Declined
<1>6. \A error : Fails(error).verdict = error  BY DEF Fails
<1>7. ask.kind # "MaxAmountIn" => Specified(ask) = ask.amount  BY DEF Specified
<1>8. ask.kind = "MaxAmountIn" => Specified(ask) = MaxI256  BY DEF Specified
<1>9. MaxI256 \in Nat /\ ask.amount \in Nat  BY EngineAssumption DEF Ask
<1> HIDE DEF refused, foreign, reached, why, Declined, Serves, Truth, Reach, Edge, UpTo, Specified
<1>10. CASE refused # "Ok"
  <2>1. Declined.verdict = refused /\ ~Serves  BY <1>1, <1>3, <1>4, <1>6, <1>10
  <2>2. Declined.verdict \in {"Unsupported", "AssetNotInPool"}  BY <1>3, <1>10, <2>1
  <2>3. QuoteIs(Declined) /\ CapacityIs(Declined)  BY <2>2 DEF QuoteIs, CapacityIs
  <2>4. CauseIs(Declined)  BY <2>1, <2>2 DEF CauseIs
  <2> QED  BY <2>3, <2>4 DEF Right
<1>11. CASE refused = "Ok" /\ Specified(ask) > MaxI256
  <2>1. why = "Overflow"  BY <1>1, <1>11
  <2>2. Declined.verdict = "Overflow"  BY <1>4, <1>6, <2>1
  <2>3. ask.amount > MaxI256  BY <1>7, <1>8, <1>9, <1>11
  <2>4. QuoteIs(Declined) /\ CapacityIs(Declined)  BY <2>2 DEF QuoteIs, CapacityIs
  <2>5. CauseIs(Declined)  BY <2>2, <2>3 DEF CauseIs
  <2> QED  BY <2>4, <2>5 DEF Right
<1>12. CASE refused = "Ok" /\ ~(Specified(ask) > MaxI256) /\ foreign
  <2>1. why = "AssetNotInPool" /\ ~Serves  BY <1>1, <1>3, <1>12
  <2>2. Declined.verdict = "AssetNotInPool"  BY <1>4, <1>6, <2>1
  <2>3. QuoteIs(Declined) /\ CapacityIs(Declined)  BY <2>2 DEF QuoteIs, CapacityIs
  <2>4. CauseIs(Declined)  BY <2>1, <2>2 DEF CauseIs
  <2> QED  BY <2>3, <2>4 DEF Right
<1>13. CASE refused = "Ok" /\ ~(Specified(ask) > MaxI256) /\ ~foreign /\ reached
  <2>1. why = "Ok" /\ Serves  BY <1>1, <1>3, <1>13
  <2>2. Declined = Gives(0, 0, TRUE)  BY <1>5, <2>1
  <2>3. /\ Declined.verdict = "Ok" /\ Declined.in = 0 /\ Declined.out = 0
        /\ Declined.limited = TRUE
    BY <2>2 DEF Gives
  <2>4. ask.kind = "WithLimit" /\ LimitReached(ask) /\ ClampedLimit(ask.limit) # None
    BY <1>13 DEF reached, foreign
  <2>5. Down \in BOOLEAN \ {None}
    <3>1. Down \in BOOLEAN \cup {None}  BY DirectionIs DEF Down
    <3>2. Down # None  BY <1>3, <1>13
    <3> QED  BY <3>1, <3>2
  <2>6. Specified(ask) \in Nat  BY <1>7, <1>8, <1>9
  <2>7. /\ Truth.in = 0 /\ Truth.out = 0
        /\ IF Falls THEN Stop >= Source.price ELSE Stop <= Source.price
    BY <2>4, <2>5, <2>6, NothingToDo
  <2> HIDE DEF Falls, Stop, Source
  <2>8. QuoteIs(Declined)  BY <2>3, <2>4, <2>7 DEF QuoteIs
  <2>9. CapacityIs(Declined)  BY <2>4 DEF CapacityIs
  <2>10. CauseIs(Declined)  BY <2>1, <2>3 DEF CauseIs
  <2> QED  BY <2>8, <2>9, <2>10 DEF Right
<1>14. CASE refused = "Ok" /\ ~(Specified(ask) > MaxI256) /\ ~foreign /\ ~reached
  <2>1. why = "InsufficientLiquidity" /\ Serves /\ pool.data.bits = {}
    BY <1>1, <1>2, <1>3, <1>14
  <2>2. Declined.verdict = "InsufficientLiquidity"  BY <1>4, <1>6, <2>1
  <2>3. DOMAIN pool.data.nets = {}
    <3>1. pool.data.bits = {Compressed(t) : t \in DOMAIN pool.data.nets}
      BY PoolIs DEF Fetched, Mapped
    <3> QED  BY <2>1, <3>1
  <2>4. QuoteIs(Declined) /\ CapacityIs(Declined)  BY <2>2 DEF QuoteIs, CapacityIs
  <2>5. CauseIs(Declined)  BY <2>1, <2>2, <2>3 DEF CauseIs
  <2> QED  BY <2>4, <2>5 DEF Right
<1> QED  BY <1>10, <1>11, <1>12, <1>13, <1>14

(* What is right of an answer depends on the snapshot and the question.    *)
LEMMA RightStays ==
  ASSUME UNCHANGED <<pool, ask, blocks>>, NEW ans, Right(ans), answer' = ans
  PROVE  Right(answer)'
<1>0. pool' = pool /\ ask' = ask /\ blocks' = blocks  OBVIOUS
<1>1. Source' = Source  BY <1>0 DEF Source
<1>2. Falls' = Falls
  <2>1. Falls' <=> Falls  BY <1>0 DEF Falls
  <2>2. Falls \in BOOLEAN /\ Falls' \in BOOLEAN  BY DEF Falls
  <2> HIDE DEF Falls
  <2> QED  BY <2>1, <2>2, Zenon
<1>3. Whole' <=> Whole  BY <1>0, <1>1 DEF Whole
<1>4. Serves' <=> Serves  BY <1>0, <1>1 DEF Serves
<1> HIDE DEF Source, Falls, Whole, Serves
<1>5. Stop' = Stop  BY <1>0, <1>1, <1>2, Zenon DEF Stop
<1>6. Edge' = Edge  BY <1>0, <1>2, Zenon DEF Edge
<1>7. Reach' = Reach
  <2> HIDE DEF Stop, Edge
  <2> QED  BY <1>2, <1>5, <1>6, Zenon DEF Reach
<1> HIDE DEF Stop, Edge, Reach
<1>8. Truth' = Truth  BY <1>0, <1>1, <1>2, <1>5, Zenon DEF Truth, UpTo
<1>9. UpTo(Edge, ask.amount)' = UpTo(Edge, ask.amount)
  BY <1>0, <1>1, <1>2, <1>6, Zenon DEF UpTo
<1>10. /\ UpTo(Reach, answer.in)' = UpTo(Reach, ans.in)
       /\ UpTo(Reach, answer.in + 1)' = UpTo(Reach, ans.in + 1)
  BY <1>0, <1>1, <1>2, <1>7, Zenon DEF UpTo
<1> HIDE DEF Truth, UpTo
<1>11. QuoteIs(answer)'
  <2>1. QuoteIs(ans)  BY DEF Right
  <2>2. (IF Falls THEN Stop >= Source.price ELSE Stop <= Source.price)'
          <=> (IF Falls THEN Stop >= Source.price ELSE Stop <= Source.price)
    BY <1>1, <1>2, <1>5
  <2> QED  BY <1>0, <1>3, <1>8, <2>1, <2>2 DEF QuoteIs
<1>12. CauseIs(answer)'
  <2>1. CauseIs(ans)  BY DEF Right
  <2> QED  BY <1>0, <1>3, <1>4, <1>8, <1>9, <2>1 DEF CauseIs
<1>13. CapacityIs(answer)'
  <2>1. CapacityIs(ans)  BY DEF Right
  <2> QED  BY <1>0, <1>3, <1>10, <2>1 DEF CapacityIs
<1> QED  BY <1>11, <1>12, <1>13 DEF Right

LEMMA TracksStays ==
  ASSUME UNCHANGED <<pool, ask, blocks>>, NEW s, Tracks(s), swap' = s
  PROVE  Tracks(swap)'
<1>0. pool' = pool /\ ask' = ask /\ blocks' = blocks  OBVIOUS
<1>1. Source' = Source  BY <1>0 DEF Source
<1>2. Down' = Down /\ Bind' = Bind  BY BindStays
<1> HIDE DEF Source, Down, Bind
<1>3. Route' = Route  BY <1>0, <1>1, <1>2, Zenon DEF Route
<1> HIDE DEF Route
<1> QED  BY <1>1, <1>2, <1>3, Zenon DEF Tracks, Stands

LEMMA AskedStays ==
  ASSUME UNCHANGED pool, NEW a, ask' = a
  PROVE  /\ Askable(ask)' <=> Askable(a)
         /\ Refusal(ask)' = Refusal(a) /\ Specified(ask)' = Specified(a)
<1>1. Refusal(ask)' = Refusal(a)
  BY DEF Refusal, PoolRefusal, UniswapV3Refusal, SlipstreamRefusal, UniswapV4Refusal,
         Specified, ClampedLimit, LimitReached, Direction
<1>2. Askable(ask)' <=> Askable(a)
  <2>1. LimitReached(ask)' <=> LimitReached(a)
    BY DEF LimitReached, ClampedLimit, Direction
  <2> HIDE DEF Refusal, LimitReached
  <2> QED  BY <1>1, <2>1 DEF Askable
<1>3. Specified(ask)' = Specified(a)  BY DEF Specified
<1> QED  BY <1>1, <1>2, <1>3

(* The swap is on the walk, and the answer is right. *)
WalkInv ==
  /\ swap # None => answer = None /\ Askable(ask) /\ (Whole => Tracks(swap))
  /\ answer # None => swap = None /\ ask # None /\ Right(answer)

LEMMA WholeStays == ASSUME UNCHANGED <<pool, blocks>> PROVE Whole' <=> Whole
<1>1. Source' = Source  BY DEF Source
<1> HIDE DEF Source
<1> QED  BY <1>1 DEF Whole

LEMMA DeclinesRight ==
  ASSUME EngineInv, EngineInv', WalkInv, pool # None, UNCHANGED sourceVars,
         NEW a \in Asks(pool) \cap Ask, Refuse(a)
  PROVE  WalkInv'
<1>1. pool' = pool /\ ask = None /\ ask' = a /\ ~Askable(a) /\ swap' = swap
      /\ answer' = IF Refusal(a) # "Ok" THEN Fails(Refusal(a)) ELSE Gives(0, 0, TRUE)
  BY DEF Refuse, Asked
<1>2. swap = None /\ a # None  BY <1>1, EngineAssumption DEF EngineInv, LoopInv
<1>3. Refusal(ask)' = Refusal(a) /\ ~Askable(ask)'  BY <1>1, AskedStays
<1>4. (EngineInv /\ pool # None /\ ask \in Ask /\ ~Askable(ask))' => Right(Declined)'
  BY DeclinedIsRight, PTL
<1>5. Right(Declined)'  BY <1>1, <1>3, <1>4
<1>6. answer' = Declined'
  <2> HIDE DEF Refusal
  <2> QED  BY <1>1, <1>3 DEF Declined, Fails, Gives
<1>7. Right(answer)'
  <2> HIDE DEF Declined
  <2>1. QuoteIs(answer)'  BY <1>5, <1>6 DEF Right, QuoteIs
  <2>2. CauseIs(answer)'  BY <1>5, <1>6 DEF Right, CauseIs
  <2>3. CapacityIs(answer)'  BY <1>5, <1>6 DEF Right, CapacityIs
  <2> QED  BY <2>1, <2>2, <2>3 DEF Right
<1> HIDE DEF Right
<1> QED  BY <1>1, <1>2, <1>7 DEF WalkInv

LEMMA BeginsRight ==
  ASSUME EngineInv, EngineInv', WalkInv, pool # None, UNCHANGED sourceVars,
         NEW a \in Asks(pool) \cap Ask, Begin(a)
  PROVE  WalkInv'
<1>1. pool' = pool /\ ask = None /\ ask' = a /\ Askable(a) /\ answer' = answer
      /\ swap' = [ price |-> pool.price, tick |-> pool.tick,
                   liquidity |-> pool.liquidity, remaining |-> Specified(a),
                   in |-> 0, out |-> 0 ]
  BY DEF Begin, Asked
<1>2. answer = None  BY <1>1 DEF WalkInv
<1>3. Specified(ask)' = Specified(a) /\ Askable(ask)'  BY <1>1, AskedStays
<1>4. (EngineInv /\ pool # None /\ ask \in Ask /\ Askable(ask))' => Tracks(Starting)'
  BY BeginTracks, PTL
<1>5. Tracks(Starting)'  BY <1>1, <1>3, <1>4
<1>6. swap' = Starting'
  <2> HIDE DEF Specified
  <2> QED  BY <1>1, <1>3 DEF Starting
<1>7. Tracks(swap)'
  <2> HIDE DEF Starting
  <2> QED  BY <1>5, <1>6 DEF Tracks
<1> HIDE DEF Tracks, Askable, Whole
<1> QED  BY <1>1, <1>2, <1>3, <1>7 DEF WalkInv

LEMMA StepsRight ==
  ASSUME EngineInv, WalkInv, UNCHANGED sourceVars, Step
  PROVE  WalkInv'
<1>1. swap # None /\ Running /\ UNCHANGED <<pool, ask, blocks>>
  BY DEF Step, Running, sourceVars
<1>2. /\ ask # None /\ pool # None /\ ask \in Ask /\ Down \in BOOLEAN
      /\ Looping(pool, swap, Bind, Down)
  BY <1>1 DEF EngineInv, LoopInv
<1>3. Fetched(pool)  BY <1>2, PoolIs
<1>4. \/ swap' = None /\ ErrorNow # "Ok"
      \/ UNCHANGED answer /\ swap' = GoesNow
  BY <1>2, <1>3, SwapSteps
<1>5. answer = None /\ Askable(ask) /\ (Whole => Tracks(swap))  BY <1>1 DEF WalkInv
<1>6. Whole' <=> Whole  BY <1>1, WholeStays
<1>7. Whole => ErrorNow = "Ok" /\ Tracks(GoesNow)  BY <1>1, <1>5, StepTracks
<1>8. Askable(ask)'
  <2>1. PICK a : a = ask  OBVIOUS
  <2>2. ask' = a /\ UNCHANGED pool  BY <1>1, <2>1
  <2>3. Askable(ask)' <=> Askable(a)  BY <2>2, AskedStays
  <2> HIDE DEF Askable
  <2> QED  BY <1>5, <2>1, <2>3
<1>9. CASE swap' = None /\ ErrorNow # "Ok"
  <2>1. ~Whole'  BY <1>6, <1>7, <1>9
  <2>2. Right(answer)'  BY <2>1 DEF Right, QuoteIs, CauseIs, CapacityIs
  <2>3. ask' # None  BY <1>1, <1>2
  <2> HIDE DEF Right
  <2> QED  BY <1>9, <2>2, <2>3 DEF WalkInv
<1>10. CASE UNCHANGED answer /\ swap' = GoesNow
  <2>1. Whole' => Tracks(swap)'
    <3>1. PICK s : s = GoesNow  OBVIOUS
    <3>2. swap' = s  BY <1>10, <3>1
    <3>3. Tracks(GoesNow) => Tracks(s)
      <4> HIDE DEF GoesNow
      <4> QED  BY <3>1
    <3>4. Tracks(s) => Tracks(swap)'  BY <1>1, <3>2, TracksStays
    <3> QED  BY <1>6, <1>7, <3>3, <3>4
  <2>2. answer' = None  BY <1>5, <1>10
  <2> HIDE DEF Tracks, Whole, Askable
  <2> QED  BY <1>8, <2>1, <2>2 DEF WalkInv
<1> QED  BY <1>4, <1>9, <1>10

LEMMA FinishesRight ==
  ASSUME EngineInv, WalkInv, UNCHANGED sourceVars, Finish
  PROVE  WalkInv'
<1>1. swap # None /\ ~Running /\ swap' = None /\ answer' = Outcome
      /\ UNCHANGED <<pool, ask, blocks>>
  BY DEF Finish, sourceVars
<1>2. Askable(ask) /\ (Whole => Tracks(swap)) /\ ask # None
  BY <1>1 DEF WalkInv, EngineInv, LoopInv
<1>3. Right(Outcome)  BY <1>1, <1>2, FinishIsRight
<1>4. PICK ans : ans = Outcome  OBVIOUS
<1>5. Right(ans)
  <2> HIDE DEF Outcome
  <2> QED  BY <1>3, <1>4
<1>6. answer' = ans  BY <1>1, <1>4
<1>7. Right(answer)'  BY <1>1, <1>5, <1>6, RightStays
<1>8. ask' # None  BY <1>1, <1>2
<1> HIDE DEF Right
<1> QED  BY <1>1, <1>7, <1>8 DEF WalkInv

LEMMA WalkNext == ASSUME EngineInv, EngineInv', WalkInv, [Next]_vars PROVE WalkInv'
<1>1. CASE UNCHANGED vars
  <2>1. UNCHANGED <<pool, ask, blocks>> /\ swap' = swap /\ answer' = answer
    BY <1>1 DEF vars
  <2>2. swap' # None => answer' = None /\ Askable(ask)' /\ (Whole' => Tracks(swap)')
    <3> SUFFICES ASSUME swap # None
                 PROVE  answer' = None /\ Askable(ask)' /\ (Whole' => Tracks(swap)')
      BY <2>1
    <3>1. answer = None /\ Askable(ask) /\ (Whole => Tracks(swap))  BY DEF WalkInv
    <3>2. Whole' <=> Whole  BY <2>1, WholeStays
    <3>3. PICK s, a : s = swap /\ a = ask  OBVIOUS
    <3>4. Tracks(s) => Tracks(swap)'  BY <2>1, <3>3, TracksStays
    <3>5. Askable(ask)' <=> Askable(a)  BY <2>1, <3>3, AskedStays
    <3> HIDE DEF Tracks, Askable, Whole
    <3> QED  BY <2>1, <3>1, <3>2, <3>3, <3>4, <3>5
  <2>3. answer' # None => swap' = None /\ ask' # None /\ Right(answer)'
    <3> SUFFICES ASSUME answer # None PROVE swap' = None /\ ask' # None /\ Right(answer)'
      BY <2>1
    <3>1. swap = None /\ ask # None /\ Right(answer)  BY DEF WalkInv
    <3>2. PICK ans : ans = answer  OBVIOUS
    <3>3. Right(ans)
      <4> HIDE DEF Right
      <4> QED  BY <3>1, <3>2
    <3>4. Right(answer)'  BY <2>1, <3>2, <3>3, RightStays
    <3> QED  BY <2>1, <3>1, <3>4
  <2> HIDE DEF Right, Tracks, Askable, Whole
  <2> QED  BY <2>2, <2>3 DEF WalkInv
<1>2. CASE ChainMoves \/ Round1 \/ Round2 \/ TransportFails \/ TakePool
  <2>1. UNCHANGED <<ask, swap, answer>>
    BY <1>2 DEF ChainMoves, Round1, Round2, TransportFails, TakePool, engineVars
  <2>2. ask = None
    <3>1. stage # "Built" \/ pool = None
      BY <1>2 DEF ChainMoves, Round1, Round2, TransportFails, TakePool
    <3> QED  BY <3>1 DEF EngineInv, LoopInv
  <2>3. swap = None /\ answer = None  BY <2>2 DEF EngineInv, LoopInv, WalkInv
  <2>4. swap' = None /\ answer' = None  BY <2>1, <2>3
  <2> QED  BY <2>4 DEF WalkInv
<1>3. CASE Engine
  <2>1. UNCHANGED sourceVars  BY <1>3 DEF Engine
  <2>2. CASE Question
    <3>1. pool # None /\ \E a \in Asks(pool) \cap Ask : Refuse(a) \/ Begin(a)
      BY <2>2 DEF Question
    <3>2. PICK a \in Asks(pool) \cap Ask : Refuse(a) \/ Begin(a)  BY <3>1
    <3> QED  BY <2>1, <3>1, <3>2, DeclinesRight, BeginsRight
  <2>3. CASE Step  BY <2>1, <2>3, StepsRight
  <2>4. CASE Finish  BY <2>1, <2>4, FinishesRight
  <2> QED  BY <1>3, <2>2, <2>3, <2>4 DEF Engine, EngineNext
<1> QED  BY <1>1, <1>2, <1>3 DEF Next

THEOREM WalkAlways == Spec => []WalkInv
<1>1. Init => WalkInv  BY DEF Init, WalkInv
<1>2. EngineInv /\ EngineInv' /\ WalkInv /\ [Next]_vars => WalkInv'  BY WalkNext
<1> QED  BY <1>1, <1>2, EngineAlways, PTL DEF Spec

(* QuotesAsTheChain: if a refresh lost no tick of the window and the chain *)
(* did not move between its rounds, then what amount_out, amount_in and    *)
(* quote_with_limit answer is what the chain itself would give, to the     *)
(* unit: one unit of price after the other through the chain's own         *)
(* liquidity, to where the amount is used up or the price limit is reached *)
(* (protocols/concentrated.rs, simulate).  For every pool, both            *)
(* directions, every amount, limit, window, tick spacing and word size.    *)
THEOREM QuotesAsTheChainAlways == Spec => []QuotesAsTheChain
<1>1. WalkInv => QuotesAsTheChain  BY DEF WalkInv, Right, QuoteIs, QuotesAsTheChain
<1> QED  BY <1>1, WalkAlways, PTL

(* RefusesForCause: the errors of the entry points mean what they say.  A  *)
(* pool refuses a pair, a limit or its hooks exactly if it does not serve  *)
(* them; TickWindowExceeded is only reported if the amount is not used up  *)
(* within the window, InsufficientLiquidity only if the chain itself could *)
(* not serve the swap, or no tick was found, and Overflow only of an       *)
(* amount beyond an I256: never by the loop itself, which from a whole     *)
(* snapshot finds every tick that it crosses and never has more liquidity  *)
(* than a u128 holds (uniswap/v3.rs, uniswap/v4.rs,                        *)
(* aerodrome/slipstream.rs and protocols/concentrated.rs).                 *)
THEOREM RefusesForCauseAlways == Spec => []RefusesForCause
<1>1. WalkInv => RefusesForCause  BY DEF WalkInv, Right, CauseIs, RefusesForCause
<1> QED  BY <1>1, WalkAlways, PTL

(* MaxIsCapacity: what max_amount_in answers from a whole snapshot is the  *)
(* largest input that the window takes: swapped against the chain, all of  *)
(* it is used up by the time the price comes to the window's edge or the   *)
(* end of the range of prices, and of one unit more something is left.     *)
THEOREM MaxIsCapacityAlways == Spec => []MaxIsCapacity
<1>1. WalkInv => MaxIsCapacity  BY DEF WalkInv, Right, CapacityIs, MaxIsCapacity
<1> QED  BY <1>1, WalkAlways, PTL
=============================================================================
