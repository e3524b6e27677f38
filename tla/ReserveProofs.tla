---------------------------- MODULE ReserveProofs ----------------------------
(***************************************************************************)
(* Quotes of Uniswap V2 and of Aerodrome's volatile pools, for every pool, *)
(* fee and amount.  What stable pools quote is the end of an iteration, of *)
(* which nothing is said here but that it is a number, and what the search *)
(* for an input makes of it.                                               *)
(***************************************************************************)
EXTENDS ReserveQuotes, CommonLemmas

(* What a quotient is: the division of U256. *)
LEMMA Quotient ==
  ASSUME NEW a \in Int, NEW b \in Int, b > 0
  PROVE  /\ a \div b \in Int
         /\ b * (a \div b) <= a
         /\ a < b * (a \div b + 1)
  BY SMT

(* A quotient is at least what fits, times the divisor, into the dividend. *)
LEMMA QuotientAtLeast ==
  ASSUME NEW a \in Int, NEW b \in Int, b > 0, NEW c \in Int, b * c <= a
  PROVE  a \div b >= c
<1> DEFINE q == a \div b
<1>1. q \in Int /\ a < b * (q + 1)
  BY Quotient
<1>2. b * c < b * (q + 1)
  BY <1>1
<1>3. CASE q + 1 <= c
  <2>1. b * (q + 1) <= b * c
    BY <1>1, <1>3
  <2> QED
    BY <2>1, <1>2, <1>1
<1> QED
  BY <1>1, <1>3

LEMMA QuotientNatural ==
  ASSUME NEW a \in Nat, NEW b \in Int, b > 0
  PROVE  a \div b \in Nat
  BY Quotient, QuotientAtLeast

-----------------------------------------------------------------------------
(* A swap against a constant product: n more on a side where there is r    *)
(* gives back at least y of s, once n * (s - y) covers r * y ...           *)
LEMMA ProductGivesAtLeast ==
  ASSUME NEW r \in Nat, NEW s \in Nat, NEW n \in Nat, NEW y \in Nat,
         r > 0, r * y <= n * (s - y)
  PROVE  (n * s) \div (r + n) >= y
<1>1. n * (s - y) = n * s - n * y /\ (r + n) * y = r * y + n * y
  OBVIOUS
<1>2. n * s \in Int /\ n * y \in Int /\ r * y \in Int /\ r + n \in Int /\ r + n > 0
  OBVIOUS
<1>3. (r + n) * y <= n * s
  BY <1>1, <1>2
<1> QED
  BY <1>2, <1>3, QuotientAtLeast

(* ... and what it gives is the most that leaves the product no less.      *)
LEMMA ProductGivesTheMost ==
  ASSUME NEW r \in Nat, NEW s \in Nat, NEW n \in Nat, r > 0, s > 0
  PROVE  LET out == (n * s) \div (r + n)
         IN  /\ out \in Nat /\ out < s
             /\ (r + n) * (s - out) >= r * s
             /\ (r + n) * (s - (out + 1)) < r * s
<1> DEFINE m == r + n
           out == (n * s) \div m
<1>1. n * s \in Nat /\ m \in Nat /\ m > 0 /\ r * s \in Nat /\ r * s > 0
  OBVIOUS
<1>2. /\ out \in Int /\ m * out <= n * s
      /\ n * s < m * (out + 1)
      /\ out \in Nat
  BY <1>1, Quotient, QuotientNatural
<1>3. m * s = r * s + n * s
  OBVIOUS
<1> HIDE DEF out
<1>4. m * (s - out) = m * s - m * out /\ m * (s - (out + 1)) = m * s - m * (out + 1)
  BY <1>1, <1>2
<1>5. m * s \in Int /\ m * out \in Int /\ m * (out + 1) \in Int
  BY <1>1, <1>2
<1>6. m * (s - out) >= r * s /\ m * (s - (out + 1)) < r * s
  BY <1>1, <1>2, <1>3, <1>4, <1>5
<1>7. out < s
  <2>1. CASE s <= out
    <3>1. m * (s - out) <= 0
      BY <1>1, <1>2, <2>1
    <3> QED
      BY <3>1, <1>1, <1>6, <1>2
  <2> QED
    BY <2>1, <1>2
<1> QED
  BY <1>2, <1>6, <1>7 DEF out

-----------------------------------------------------------------------------
LEMMA PoolNumbers ==
  ASSUME NEW p \in ReservePool, NEW from \in Side
  PROVE  /\ 1 - from \in Side
         /\ p.reserves[from] \in Nat /\ p.reserves[1 - from] \in Nat
         /\ p.fee \in Nat /\ BPS_ONE \in Nat /\ BPS_ONE > 0
         /\ BPS_ONE - p.fee \in Nat
         /\ Empty(p) <=> p.reserves[from] = 0 \/ p.reserves[1 - from] = 0
         /\ p.reserves[0] * p.reserves[1] = p.reserves[from] * p.reserves[1 - from]
<1>1. 1 - from \in Side
  BY DEF Side
<1>2. p.reserves \in [Side -> Nat] /\ p.fee \in 0..BPS_ONE
  BY DEF ReservePool
<1>3. p.reserves[from] \in Nat /\ p.reserves[1 - from] \in Nat
  BY <1>1, <1>2
<1>4. from = 0 \/ from = 1
  BY DEF Side
<1>5. Empty(p) <=> p.reserves[from] = 0 \/ p.reserves[1 - from] = 0
  BY <1>4 DEF Empty
<1>6. p.reserves[0] * p.reserves[1] = p.reserves[from] * p.reserves[1 - from]
  <2>1. CASE from = 0
    BY <2>1
  <2>2. CASE from = 1
    <3>1. 1 - from = 0
      BY <2>2
    <3>2. p.reserves[0] \in Nat /\ p.reserves[1] \in Nat
      BY <1>3, <3>1, <2>2
    <3> QED
      BY <3>1, <3>2, <2>2
  <2> QED
    BY <2>1, <2>2, <1>4
<1> QED
  BY <1>1, <1>2, <1>3, <1>5, <1>6, ReservePoolsAssumption

(* amount_in of v2.rs: its input brings the output asked for.              *)
LEMMA V2InputReaches ==
  ASSUME NEW p \in ReservePool, NEW from \in Side, NEW y \in Nat,
         V2AmountIn(p, from, y) # Refused
  PROVE  /\ V2AmountIn(p, from, y) \in Nat
         /\ V2AmountOut(p, from, V2AmountIn(p, from, y)) # Refused
         /\ V2AmountOut(p, from, V2AmountIn(p, from, y)) >= y
<1> DEFINE rI == p.reserves[from]
           rO == p.reserves[1 - from]
           g == BPS_ONE - p.fee
           need == rI * y * BPS_ONE
           per == (rO - y) * g
           x == need \div per + 1
<1>1. /\ rI \in Nat /\ rO \in Nat /\ g \in Nat /\ BPS_ONE \in Nat /\ BPS_ONE > 0
      /\ Empty(p) <=> rI = 0 \/ rO = 0
  BY PoolNumbers
<1>2. rI > 0 /\ y < rO /\ g > 0 /\ V2AmountIn(p, from, y) = x
  <2>1. rI # 0 /\ ~(y >= rO) /\ p.fee # BPS_ONE /\ V2AmountIn(p, from, y) = x
    BY DEF V2AmountIn
  <2>2. p.fee \in Nat
    BY PoolNumbers
  <2> QED
    BY <2>1, <2>2, <1>1
<1>3. V2AmountOut(p, from, x) = (x * g * rO) \div (rI * BPS_ONE + x * g)
  BY <1>1, <1>2 DEF V2AmountOut
<1> HIDE DEF rI, rO, g
<1>4. /\ rO - y \in Nat /\ rO - y > 0 /\ rI * y \in Nat /\ rI * BPS_ONE \in Nat
      /\ rI * BPS_ONE > 0
  BY <1>1, <1>2
<1>5. need \in Nat /\ per \in Nat /\ per > 0
  BY <1>1, <1>2, <1>4
<1> HIDE DEF need, per
<1>6. x \in Nat /\ need < per * x
  BY <1>5, Quotient, QuotientNatural
<1> HIDE DEF x
<1>7. x * g \in Nat
  BY <1>1, <1>6
<1>8. (rI * BPS_ONE) * y = need
  BY <1>1 DEF need
<1>9. (x * g) * (rO - y) = per * x
  BY <1>1, <1>4, <1>6 DEF per
<1>10. ((x * g) * rO) \div (rI * BPS_ONE + x * g) >= y
  BY <1>1, <1>4, <1>5, <1>6, <1>7, <1>8, <1>9, ProductGivesAtLeast
<1>11. ((x * g) * rO) \div (rI * BPS_ONE + x * g) \in Nat
  BY <1>1, <1>4, <1>7, QuotientNatural
<1> QED
  BY <1>2, <1>3, <1>6, <1>10, <1>11, ReservePoolsAssumption

-----------------------------------------------------------------------------
(* after_fee leaves no more than there was, and an amount grossed up as    *)
(* amount_in does still leaves what is needed.                             *)
LEMMA FeeLeaves ==
  ASSUME NEW p \in ReservePool, NEW x \in Nat
  PROVE  AfterFee(p, x) \in Nat
<1> DEFINE q == (x * p.fee) \div BPS_ONE
<1>1. p.fee \in Nat /\ BPS_ONE \in Nat /\ BPS_ONE > 0 /\ p.fee <= BPS_ONE
  BY ReservePoolsAssumption DEF ReservePool
<1>2. x * p.fee \in Nat /\ x * BPS_ONE \in Nat /\ x * p.fee <= x * BPS_ONE
  BY <1>1
<1>3. q \in Nat /\ BPS_ONE * q <= x * p.fee
  BY <1>1, <1>2, Quotient, QuotientNatural
<1> HIDE DEF q
<1>4. CASE q > x
  <2>1. BPS_ONE * q > BPS_ONE * x /\ BPS_ONE * x = x * BPS_ONE
    BY <1>1, <1>3, <1>4
  <2> QED
    BY <2>1, <1>1, <1>2, <1>3
<1> QED
  BY <1>3, <1>4 DEF AfterFee, q

LEMMA GrossedUp ==
  ASSUME NEW p \in ReservePool, NEW net \in Nat, p.fee # BPS_ONE
  PROVE  LET x == (net * BPS_ONE) \div (BPS_ONE - p.fee) + 1
         IN  x \in Nat /\ AfterFee(p, x) >= net
<1> DEFINE g == BPS_ONE - p.fee
           x == (net * BPS_ONE) \div g + 1
           q == (x * p.fee) \div BPS_ONE
<1>1. /\ p.fee \in Nat /\ BPS_ONE \in Nat /\ BPS_ONE > 0
      /\ g \in Nat /\ g > 0 /\ p.fee = BPS_ONE - g
  BY ReservePoolsAssumption DEF ReservePool
<1>2. net * BPS_ONE \in Nat
  BY <1>1
<1> HIDE DEF g
<1>3. x \in Nat /\ net * BPS_ONE < g * x
  BY <1>1, <1>2, Quotient, QuotientNatural
<1> HIDE DEF x
<1>4. x * p.fee = x * BPS_ONE - g * x
  BY <1>1, <1>3
<1>5. x * p.fee \in Nat /\ g * x \in Nat /\ x * BPS_ONE \in Nat
  BY <1>1, <1>3
<1>6. q \in Nat /\ BPS_ONE * q <= x * p.fee
  BY <1>1, <1>5, Quotient, QuotientNatural
<1> HIDE DEF q
<1>7. BPS_ONE * q <= x * BPS_ONE - net * BPS_ONE
  BY <1>2, <1>3, <1>4, <1>5, <1>6, <1>1
<1>8. BPS_ONE * q <= BPS_ONE * (x - net)
  BY <1>1, <1>3, <1>7
<1>9. ~(q > x - net)
  <2>1. SUFFICES ASSUME q > x - net PROVE FALSE
    OBVIOUS
  <2>2. BPS_ONE * q > BPS_ONE * (x - net)
    BY <1>1, <1>3, <1>6, <2>1
  <2> QED
    BY <2>2, <1>8, <1>1, <1>3, <1>6
<1>10. x - q >= net
  BY <1>9, <1>3, <1>6
<1> QED
  BY <1>3, <1>10 DEF AfterFee, x, q, g

(* The candidate of amount_in of volatile.rs is enough: "a guaranteed      *)
(* upper bound".                                                           *)
LEMMA VolatileCandidateReaches ==
  ASSUME NEW p \in ReservePool, NEW from \in Side, NEW y \in Nat,
         VolatileCandidate(p, from, y) # Refused
  PROVE  /\ VolatileCandidate(p, from, y) \in Nat
         /\ VolatileAmountOut(p, from, VolatileCandidate(p, from, y)) # Refused
         /\ VolatileAmountOut(p, from, VolatileCandidate(p, from, y)) >= y
<1> DEFINE rI == p.reserves[from]
           rO == p.reserves[1 - from]
           net == (rI * y) \div (rO - y) + 1
           x == (net * BPS_ONE) \div (BPS_ONE - p.fee) + 1
           n == AfterFee(p, x)
<1>1. /\ rI \in Nat /\ rO \in Nat
      /\ Empty(p) <=> rI = 0 \/ rO = 0
  BY PoolNumbers
<1>2. rI > 0 /\ y < rO /\ p.fee # BPS_ONE /\ VolatileCandidate(p, from, y) = x
  <2>1. rI # 0 /\ ~(y >= rO) /\ p.fee # BPS_ONE /\ VolatileCandidate(p, from, y) = x
    BY DEF VolatileCandidate
  <2> QED
    BY <2>1, <1>1
<1>3. VolatileAmountOut(p, from, x) = (n * rO) \div (rI + n)
  BY <1>1, <1>2 DEF VolatileAmountOut
<1> HIDE DEF rI, rO
<1>4. rO - y \in Nat /\ rO - y > 0 /\ rI * y \in Nat
  BY <1>1, <1>2
<1>5. net \in Nat /\ rI * y < (rO - y) * net
  BY <1>4, Quotient, QuotientNatural
<1> HIDE DEF net
<1>6. x \in Nat /\ n >= net
  BY <1>2, <1>5, GrossedUp
<1> HIDE DEF x
<1>7. n \in Nat
  BY <1>6, FeeLeaves
<1> HIDE DEF n
<1>8. (rO - y) * net <= n * (rO - y)
  BY <1>4, <1>5, <1>6, <1>7
<1>9. n * (rO - y) \in Int /\ (rO - y) * net \in Int
  BY <1>4, <1>5, <1>7
<1>10. rI * y <= n * (rO - y)
  BY <1>4, <1>5, <1>8, <1>9
<1>11. (n * rO) \div (rI + n) >= y
  BY <1>1, <1>2, <1>7, <1>10, ProductGivesAtLeast
<1>12. (n * rO) \div (rI + n) \in Nat
  BY <1>1, <1>2, <1>7, QuotientNatural
<1> QED
  BY <1>2, <1>3, <1>6, <1>11, <1>12, ReservePoolsAssumption

-----------------------------------------------------------------------------
(* What a trade makes of the reserves.                                     *)
LEMMA AfterReserves ==
  ASSUME NEW p \in ReservePool, NEW from \in Side, NEW x \in Nat, NEW y \in Int
  PROVE  /\ After(p, from, x, y).reserves[from]
               = p.reserves[from] + (IF p.kind \in {"V2", "Curve"} THEN x ELSE AfterFee(p, x))
         /\ After(p, from, x, y).reserves[1 - from] = p.reserves[1 - from] - y
<1>1. After(p, from, x, y).reserves = [side \in Side |->
        IF side # from THEN p.reserves[side] - y
        ELSE p.reserves[side] + (IF p.kind \in {"V2", "Curve"} THEN x ELSE AfterFee(p, x))]
  BY DEF After, ReservePool
<1>2. 1 - from \in Side /\ 1 - from # from
  BY DEF Side
<1> HIDE DEF After
<1> QED
  BY <1>1, <1>2, Zenon

LEMMA VolatileAfter ==
  ASSUME NEW p \in ReservePool, p.kind = "Volatile", NEW from \in Side,
         NEW x \in Nat, NEW y \in Int
  PROVE  After(p, from, x, y).reserves[0] * After(p, from, x, y).reserves[1]
           = (p.reserves[from] + AfterFee(p, x)) * (p.reserves[1 - from] - y)
<1> DEFINE after == After(p, from, x, y)
           a == p.reserves[from] + AfterFee(p, x)
           b == p.reserves[1 - from] - y
<1>1. a \in Int /\ b \in Int
  BY PoolNumbers, FeeLeaves
<1>2. after.reserves[from] = a /\ after.reserves[1 - from] = b
  <2>1. (IF p.kind \in {"V2", "Curve"} THEN x ELSE AfterFee(p, x)) = AfterFee(p, x)
    OBVIOUS
  <2>2. /\ after.reserves[from]
              = p.reserves[from] + (IF p.kind \in {"V2", "Curve"} THEN x ELSE AfterFee(p, x))
        /\ after.reserves[1 - from] = b
    BY AfterReserves, Zenon
  <2> QED
    BY <2>1, <2>2, Zenon
<1> HIDE DEF a, b, after
<1>3. after.reserves[0] * after.reserves[1] = a * b
  <2>1. CASE from = 0
    BY <1>2, <2>1
  <2>2. CASE from = 1
    <3>1. after.reserves[1] = a /\ after.reserves[0] = b
      BY <1>2, <2>2
    <3> QED
      BY <3>1, <1>1
  <2> QED
    BY <2>1, <2>2 DEF Side
<1> QED
  BY <1>3 DEF after, a, b

(* What amount_out quotes of a pool of a constant product: a positive      *)
(* answer is the most the contract accepts.                                *)
LEMMA QuoteAccepted ==
  ASSUME NEW p \in ReservePool, p.kind \in {"V2", "Volatile"}, NEW from \in Side,
         NEW x \in Nat, AmountOut(p, from, x) # Refused
  PROVE  /\ AmountOut(p, from, x) \in Nat
         /\ Accepts(p, from, x, AmountOut(p, from, x))
         /\ ~Accepts(p, from, x, AmountOut(p, from, x) + 1)
<1> DEFINE rI == p.reserves[from]
           rO == p.reserves[1 - from]
           g == BPS_ONE - p.fee
           n == AfterFee(p, x)
           y == AmountOut(p, from, x)
<1>1. /\ rI \in Nat /\ rO \in Nat /\ g \in Nat /\ n \in Nat
      /\ BPS_ONE \in Nat /\ BPS_ONE > 0
      /\ Empty(p) <=> rI = 0 \/ rO = 0
      /\ p.reserves[0] * p.reserves[1] = rI * rO
  BY PoolNumbers, FeeLeaves
<1>2. ~Empty(p)
  BY DEF AmountOut, V2AmountOut, VolatileAmountOut
<1>3. rI > 0 /\ rO > 0
  BY <1>1, <1>2
<1>4. CASE p.kind = "V2"
  <2> DEFINE r == rI * BPS_ONE
             m == x * g
  <2>1. y = (m * rO) \div (r + m)
    BY <1>2, <1>4 DEF AmountOut, V2AmountOut
  <2>2. r \in Nat /\ r > 0 /\ m \in Nat /\ r * rO = (rI * rO) * BPS_ONE
    BY <1>1, <1>3
  <2>3. \A z \in Int : Accepts(p, from, x, z) <=>
           z < rO /\ (r + m) * (rO - z) >= (rI * rO) * BPS_ONE
    <3>1. TAKE z \in Int
    <3>2. After(p, from, x, z).reserves[1 - from] = rO - z
      BY AfterReserves, Zenon
    <3>3. Accepts(p, from, x, z) <=>
            /\ z < rO
            /\ (r + m) * After(p, from, x, z).reserves[1 - from]
                 >= p.reserves[0] * p.reserves[1] * BPS_ONE
      BY <1>4 DEF Accepts
    <3> HIDE DEF r, m, rI, rO
    <3> QED
      BY <3>2, <3>3, <1>1, Zenon
  <2> HIDE DEF r, m, y, rI, rO
  <2>4. /\ y \in Nat /\ y < rO
        /\ (r + m) * (rO - y) >= r * rO
        /\ (r + m) * (rO - (y + 1)) < r * rO
    BY <1>1, <1>3, <2>1, <2>2, ProductGivesTheMost
  <2>5. (r + m) * (rO - (y + 1)) \in Int /\ r * rO \in Int
    BY <1>1, <2>2, <2>4
  <2>6. Accepts(p, from, x, y) /\ ~Accepts(p, from, x, y + 1)
    BY <2>2, <2>3, <2>4, <2>5
  <2> QED
    BY <2>4, <2>6 DEF y
<1>5. CASE p.kind = "Volatile"
  <2>1. y = (n * rO) \div (rI + n)
    BY <1>2, <1>5 DEF AmountOut, VolatileAmountOut
  <2>2. \A z \in Int : Accepts(p, from, x, z) <=>
           z < rO /\ (rI + n) * (rO - z) >= rI * rO
    <3>1. TAKE z \in Int
    <3> DEFINE after == After(p, from, x, z)
    <3>2. after.reserves[0] * after.reserves[1] = (rI + n) * (rO - z)
      BY <1>5, VolatileAfter, Zenon
    <3>3. Accepts(p, from, x, z) <=>
            /\ z < rO
            /\ after.reserves[0] * after.reserves[1] >= p.reserves[0] * p.reserves[1]
      BY <1>5 DEF Accepts
    <3> HIDE DEF after, n, rI, rO
    <3> QED
      BY <3>2, <3>3, <1>1, Zenon
  <2> HIDE DEF n, y, rI, rO
  <2>3. /\ y \in Nat /\ y < rO
        /\ (rI + n) * (rO - y) >= rI * rO
        /\ (rI + n) * (rO - (y + 1)) < rI * rO
    BY <1>1, <1>3, <2>1, ProductGivesTheMost
  <2>4. (rI + n) * (rO - (y + 1)) \in Int /\ rI * rO \in Int
    BY <1>1, <2>3
  <2>5. Accepts(p, from, x, y) /\ ~Accepts(p, from, x, y + 1)
    BY <2>2, <2>3, <2>4
  <2> QED
    BY <2>3, <2>5 DEF y
<1> QED
  BY <1>4, <1>5
-----------------------------------------------------------------------------
(* Nothing brings nothing, where the search starts.                        *)
LEMMA NothingBrings ==
  ASSUME NEW p \in ReservePool, p.kind # "V2", NEW from \in Side, NEW y \in Nat, y > 0
  PROVE  ~Brings(p, from, y, 0)
<1>1. CASE p.kind = "Volatile"
  <2> DEFINE rI == p.reserves[from]
             rO == p.reserves[1 - from]
  <2>1. SUFFICES ASSUME AmountOut(p, from, 0) # Refused
                 PROVE  AmountOut(p, from, 0) = 0
    BY DEF Brings
  <2>2. AmountOut(p, from, 0) = VolatileAmountOut(p, from, 0)
    BY <1>1 DEF AmountOut
  <2>3. ~Empty(p)
    BY <2>1, <2>2 DEF VolatileAmountOut
  <2>4. /\ rI \in Nat /\ rO \in Nat /\ rI # 0 /\ p.fee \in Nat
        /\ BPS_ONE \in Nat /\ BPS_ONE > 0
    BY <2>3, PoolNumbers
  <2>5. AfterFee(p, 0) = 0
    <3>1. 0 * p.fee = 0 /\ 0 \div BPS_ONE = 0
      BY <2>4
    <3> QED
      BY <3>1 DEF AfterFee
  <2>6. AmountOut(p, from, 0) = (0 * rO) \div (rI + 0)
    BY <2>2, <2>3, <2>5 DEF VolatileAmountOut
  <2> HIDE DEF rI, rO
  <2>7. 0 * rO = 0 /\ rI + 0 = rI /\ 0 \div rI = 0
    BY <2>4
  <2> QED
    BY <2>6, <2>7
<1>2. CASE p.kind = "Stable"
  BY <1>2 DEF Brings, AmountOut, StableAmountOut
<1>3. CASE p.kind = "Curve"
  BY <1>3 DEF Brings, AmountOut, CurveAmountOut
<1> QED
  BY <1>1, <1>2, <1>3 DEF ReservePool

(* What is true between two steps.  It says nothing of the numbers of a    *)
(* stable pool, which Newton's iteration gives, nor of a Curve pool's.     *)
Shape ==
  /\ pool \in ReservePool
  /\ ask \in Ask \cup {None}
  /\ ask = None => search = None /\ answer = None
  /\ search # None => /\ answer = None /\ ask.exactIn = FALSE /\ pool.kind # "V2"
                      /\ Candidate(pool, ask.from, ask.amount) # Refused

Inv == Shape /\ SearchBrackets /\ ExactOutReaches /\ QuoteIsBest

LEMMA InitInv == Init => Inv
  BY ReserveQuotesAssumption
     DEF Init, Inv, Shape, SearchBrackets, ExactOutReaches, QuoteIsBest, Answered

LEMMA ExactInInv ==
  ASSUME Inv, NEW from \in Side, NEW x \in Amounts, QuoteExactIn(from, x)
  PROVE  Inv'
<1> USE DEF Inv
<1>1. /\ pool' = pool /\ search' = None /\ search = None /\ x \in Nat
      /\ ask' = [exactIn |-> TRUE, from |-> from, amount |-> x]
      /\ answer' = AmountOut(pool, from, x) /\ pool \in ReservePool
  BY ReserveQuotesAssumption DEF QuoteExactIn, Shape
<1>2. ask' \in Ask /\ ask' # None
  <2>1. ask' \in Ask
    BY <1>1 DEF Ask
  <2> QED
    BY <2>1, ReserveQuotesAssumption
<1>3. Shape' /\ SearchBrackets' /\ ExactOutReaches'
  BY <1>1, <1>2 DEF Shape, SearchBrackets, ExactOutReaches, Answered
<1>4. QuoteIsBest'
  <2>1. SUFFICES ASSUME AmountOut(pool, from, x) # Refused,
                        pool.kind \in {"V2", "Volatile"}
                 PROVE  /\ Accepts(pool, from, x, AmountOut(pool, from, x))
                        /\ ~Accepts(pool, from, x, AmountOut(pool, from, x) + 1)
    BY <1>1 DEF QuoteIsBest, Answered
  <2> QED
    BY <1>1, <2>1, QuoteAccepted
<1> QED
  BY <1>3, <1>4

LEMMA ExactOutInv ==
  ASSUME Inv, NEW from \in Side, NEW y \in Amounts, QuoteExactOut(from, y)
  PROVE  Inv'
<1> USE DEF Inv
<1>1. /\ pool' = pool /\ search = None /\ answer = None /\ y \in Nat
      /\ ask' = [exactIn |-> FALSE, from |-> from, amount |-> y]
      /\ pool \in ReservePool
  BY ReserveQuotesAssumption DEF QuoteExactOut, Shape
<1>2. ask' \in Ask /\ ask' # None
  <2>1. ask' \in Ask
    BY <1>1 DEF Ask
  <2> QED
    BY <2>1, ReserveQuotesAssumption
<1>3. QuoteIsBest'
  BY <1>1 DEF QuoteIsBest, Answered
<1>4. CASE pool.kind = "V2"
  <2>1. answer' = V2AmountIn(pool, from, y) /\ search' = None
    BY <1>1, <1>4 DEF QuoteExactOut
  <2>2. Shape' /\ SearchBrackets'
    BY <1>1, <1>2, <2>1 DEF Shape, SearchBrackets
  <2>3. ASSUME V2AmountIn(pool, from, y) # Refused
        PROVE  Brings(pool, from, y, V2AmountIn(pool, from, y))
    BY <1>1, <1>4, <2>3, V2InputReaches DEF Brings, AmountOut
  <2>4. ExactOutReaches'
    BY <1>1, <2>1, <2>3 DEF ExactOutReaches, Answered, Reaches, Brings
  <2> QED
    BY <1>3, <2>2, <2>4
<1>5. CASE pool.kind # "V2" /\ Candidate(pool, from, y) = Refused
  <2>1. answer' = Refused /\ search' = None
    BY <1>1, <1>5 DEF QuoteExactOut
  <2> QED
    BY <1>1, <1>2, <1>3, <2>1 DEF Shape, SearchBrackets, ExactOutReaches, Answered
<1>6. CASE pool.kind # "V2" /\ Candidate(pool, from, y) # Refused
  <2>1. answer' = None /\ search' = [lo |-> 0, hi |-> Candidate(pool, from, y)]
    BY <1>1, <1>6 DEF QuoteExactOut
  <2>2. Shape' /\ ExactOutReaches'
    BY <1>1, <1>2, <1>6, <2>1 DEF Shape, ExactOutReaches, Answered
  <2>3. SearchBrackets'
    BY <1>1, <1>6, <2>1, NothingBrings DEF SearchBrackets, Reaches, Brings
  <2> QED
    BY <1>3, <2>2, <2>3
<1> QED
  BY <1>4, <1>5, <1>6

LEMMA SearchInv ==
  ASSUME Inv, Bisect \/ Found
  PROVE  Inv'
<1> USE DEF Inv
<1> DEFINE hi == search.hi
           top == Candidate(pool, ask.from, ask.amount)
<1>1. /\ pool' = pool /\ ask' = ask /\ search # None /\ ask # None
      /\ answer = None /\ ask.exactIn = FALSE /\ pool.kind # "V2"
      /\ top # Refused
  BY DEF Bisect, Found, Shape
<1>2. pool \in ReservePool /\ ask \in Ask
  BY <1>1 DEF Shape
<1>3. CASE Bisect
  <2> DEFINE mid == search.lo + (hi - search.lo) \div 2
  <2>1. /\ search' = IF Reaches(mid) THEN [lo |-> search.lo, hi |-> mid]
                     ELSE [lo |-> mid, hi |-> hi]
        /\ answer' = None
    BY <1>1, <1>3 DEF Bisect
  <2>2. Shape' /\ ExactOutReaches' /\ QuoteIsBest'
    BY <1>1, <1>2, <2>1 DEF Shape, ExactOutReaches, QuoteIsBest, Answered
  <2> HIDE DEF mid
  <2>3. SearchBrackets'
    BY <1>1, <2>1 DEF SearchBrackets, Reaches
  <2> QED
    BY <2>2, <2>3
<1>4. CASE Found
  <2>1. answer' = hi /\ search' = None
    BY <1>4 DEF Found
  <2>2. Shape' /\ SearchBrackets' /\ QuoteIsBest'
    BY <1>1, <1>2, <2>1 DEF Shape, SearchBrackets, QuoteIsBest, Answered
  <2>3. Reaches(hi) \/ hi = top \/ ask.amount = 0
    BY <1>1, <1>2 DEF SearchBrackets, Ask
  <2>4. ASSUME pool.kind = "Volatile"
        PROVE  Brings(pool, ask.from, ask.amount, top)
    <3>1. ask.from \in Side /\ ask.amount \in Nat
      BY <1>2 DEF Ask
    <3>2. top = VolatileCandidate(pool, ask.from, ask.amount)
      BY <2>4 DEF Candidate
    <3> QED
      BY <1>1, <1>2, <2>4, <3>1, <3>2, VolatileCandidateReaches DEF Brings, AmountOut
  <2>5. pool.kind \in {"Volatile", "Stable", "Curve"}
    BY <1>1, <1>2 DEF ReservePool
  <2>6. ExactOutReaches'
    BY <1>1, <2>1, <2>3, <2>4, <2>5 DEF ExactOutReaches, Answered, Reaches, Brings
  <2> QED
    BY <2>2, <2>6
<1> QED
  BY <1>3, <1>4

LEMMA TradeInv ==
  ASSUME Inv, Trade
  PROVE  Inv'
<1> USE DEF Inv
<1>1. /\ ask' = None /\ answer' = None /\ search' = search
      /\ answer \in Nat /\ ask \in Ask /\ pool \in ReservePool /\ search = None
  BY ReserveQuotesAssumption DEF Trade, Shape
<1> DEFINE from == ask.from
<1>2. from \in Side /\ Paid \in Nat /\ Received \in Nat
  BY <1>1 DEF Ask, Paid, Received
<1>3. Received < pool.reserves[1 - from]
  BY DEF Trade, Accepts
<1>4. pool' \in ReservePool
  <2> DEFINE n == IF pool.kind \in {"V2", "Curve"} THEN Paid ELSE AfterFee(pool, Paid)
             after == [side \in Side |-> IF side # from THEN pool.reserves[side] - Received
                                        ELSE pool.reserves[side] + n]
  <2>1. pool' = [pool EXCEPT !.reserves = after]
    BY <1>1 DEF Trade, After, ReservePool
  <2>2. n \in Nat
    BY <1>1, <1>2, FeeLeaves
  <2>3. ASSUME NEW side \in Side
        PROVE  after[side] \in Nat
    <3>1. side = from \/ side = 1 - from
      BY <1>2 DEF Side
    <3>2. pool.reserves[from] \in Nat /\ pool.reserves[1 - from] \in Nat
      BY <1>1, <1>2, PoolNumbers
    <3> QED
      BY <1>2, <1>3, <2>2, <3>1, <3>2
  <2>4. after \in [Side -> Nat]
    BY <2>3
  <2> HIDE DEF after
  <2> QED
    BY <1>1, <2>1, <2>4 DEF ReservePool
<1> QED
  BY <1>1, <1>4, ReserveQuotesAssumption
     DEF Shape, SearchBrackets, ExactOutReaches, QuoteIsBest, Answered

LEMMA StepInv == Inv /\ [Next]_vars => Inv'
<1>1. SUFFICES ASSUME Inv, [Next]_vars PROVE Inv'
  OBVIOUS
<1>2. ASSUME NEW from \in Side, NEW amount \in Amounts,
             QuoteExactIn(from, amount) \/ QuoteExactOut(from, amount)
      PROVE  Inv'
  BY <1>1, <1>2, ExactInInv, ExactOutInv
<1>3. CASE Bisect \/ Found
  BY <1>1, <1>3, SearchInv
<1>4. CASE Trade
  BY <1>1, <1>4, TradeInv
<1>5. CASE UNCHANGED vars
  BY <1>1, <1>5 DEF vars, Inv, Shape, SearchBrackets, ExactOutReaches, QuoteIsBest,
                    Answered, Reaches
<1> QED
  BY <1>1, <1>2, <1>3, <1>4, <1>5 DEF Next, Quote

(* The binary search of minimal_exact_out_input keeps its invariant, for   *)
(* whatever a stable pool's iteration gives.                               *)
THEOREM SearchBracketsAlways == Spec => []SearchBrackets
<1>1. Inv => SearchBrackets
  BY DEF Inv
<1> QED
  BY InitInv, StepInv, <1>1, PTL DEF Spec

(* The input that an exact output is told brings it, of Uniswap V2's and   *)
(* Aerodrome's volatile pools of any size and fee; and of stable and Curve *)
(* pools as far as the candidate did that their search started from.       *)
THEOREM ExactOutReachesAlways == Spec => []ExactOutReaches
<1>1. Inv => ExactOutReaches
  BY DEF Inv
<1> QED
  BY InitInv, StepInv, <1>1, PTL DEF Spec

(* What amount_out quotes of those pools is accepted by the contract, and  *)
(* one unit more would not be.                                             *)
THEOREM QuoteIsBestAlways == Spec => []QuoteIsBest
<1>1. Inv => QuoteIsBest
  BY DEF Inv
<1> QED
  BY InitInv, StepInv, <1>1, PTL DEF Spec
-----------------------------------------------------------------------------
(* What goes in for an exact output, and what comes back for it.           *)

(* More on one side of a constant product gives back no less.              *)
LEMMA ProductGrows ==
  ASSUME NEW r \in Nat, NEW s \in Nat, NEW n \in Nat, NEW m \in Nat,
         r > 0, s > 0, n <= m
  PROVE  (n * s) \div (r + n) <= (m * s) \div (r + m)
<1> DEFINE q == (n * s) \div (r + n)
<1>1. n * s \in Nat /\ r + n \in Nat /\ r + n > 0
  OBVIOUS
<1>2. q \in Nat /\ q < s
  BY ProductGivesTheMost
<1>3. (r + n) * q <= n * s
  BY <1>1, Quotient
<1> HIDE DEF q
<1>4. r * q <= n * (s - q)
  <2>1. (r + n) * q = r * q + n * q /\ n * (s - q) = n * s - n * q
    BY <1>2
  <2>2. r * q \in Int /\ n * q \in Int /\ n * s \in Int
    BY <1>2
  <2> QED
    BY <1>3, <2>1, <2>2
<1>5. n * (s - q) <= m * (s - q)
  BY <1>2
<1>6. r * q <= m * (s - q)
  <2>1. r * q \in Int /\ n * (s - q) \in Int /\ m * (s - q) \in Int
    BY <1>2
  <2> QED
    BY <1>4, <1>5, <2>1
<1>7. (m * s) \div (r + m) >= q
  BY <1>2, <1>6, ProductGivesAtLeast
<1>8. (m * s) \div (r + m) \in Int
  BY Quotient
<1> QED
  BY <1>2, <1>7, <1>8 DEF q

(* More is left of more. *)
LEMMA FeeGrows ==
  ASSUME NEW p \in ReservePool, NEW x \in Nat, NEW z \in Nat, x <= z
  PROVE  AfterFee(p, x) <= AfterFee(p, z)
<1> DEFINE f == p.fee
           q == (x * f) \div BPS_ONE
           w == (z * f) \div BPS_ONE
<1>1. f \in Nat /\ f <= BPS_ONE /\ BPS_ONE \in Nat /\ BPS_ONE > 0
  BY ReservePoolsAssumption DEF ReservePool
<1> HIDE DEF f
<1>2. x * f \in Nat /\ z * f \in Nat /\ z * f = x * f + (z - x) * f
  BY <1>1
<1>3. q \in Int /\ w \in Int /\ x * f < BPS_ONE * (q + 1) /\ BPS_ONE * w <= z * f
  BY <1>1, <1>2, Quotient
<1> HIDE DEF q, w
<1>4. (z - x) * f <= (z - x) * BPS_ONE
  BY <1>1
<1> DEFINE d == z - x
<1>5. d \in Nat /\ d * f \in Int /\ d * BPS_ONE = BPS_ONE * d
  BY <1>1
<1>6. BPS_ONE * w < BPS_ONE * (q + 1) + BPS_ONE * d
  <2>1. BPS_ONE * w \in Int /\ BPS_ONE * (q + 1) \in Int /\ BPS_ONE * d \in Int
    BY <1>1, <1>3, <1>5
  <2> HIDE DEF d
  <2>2. z * f = x * f + d * f /\ d * f <= BPS_ONE * d
    BY <1>2, <1>4, <1>5 DEF d
  <2> QED
    BY <1>2, <1>3, <1>5, <2>1, <2>2
<1>7. BPS_ONE * w < BPS_ONE * (q + 1 + d)
  <2> HIDE DEF d
  <2>1. BPS_ONE * (q + 1 + d) = BPS_ONE * (q + 1) + BPS_ONE * d
    BY <1>1, <1>3, <1>5
  <2> QED
    BY <1>6, <2>1
<1>8. w < q + 1 + d
  <2> HIDE DEF d
  <2> QED
    BY <1>1, <1>3, <1>5, <1>7
<1>9. x - q <= z - w
  BY <1>3, <1>8
<1> QED
  BY <1>9 DEF AfterFee, q, w, f

(* An input that is enough stays enough when there is more of it.          *)
LEMMA VolatileGrows ==
  ASSUME NEW p \in ReservePool, p.kind = "Volatile", NEW from \in Side, NEW y \in Nat \ {0}
  PROVE  ForwardGrows(p, from, y)
<1> SUFFICES ASSUME Candidate(p, from, y) # Refused,
                    NEW x \in 0..Candidate(p, from, y), NEW z \in 0..x,
                    Brings(p, from, y, z)
             PROVE  Brings(p, from, y, x)
  BY DEF ForwardGrows
<1> DEFINE rI == p.reserves[from]
           rO == p.reserves[1 - from]
<1>1. z \in Nat /\ z <= x /\ y \in Nat /\ x \in Nat
  <2>1. Candidate(p, from, y) \in Nat
    BY VolatileCandidateReaches DEF Candidate
  <2> QED
    BY <2>1
<1>2. AmountOut(p, from, z) = VolatileAmountOut(p, from, z)
      /\ AmountOut(p, from, x) = VolatileAmountOut(p, from, x)
  BY DEF AmountOut
<1>3. ~Empty(p)
  BY <1>2 DEF Brings, VolatileAmountOut
<1>4. rI \in Nat /\ rO \in Nat /\ rI > 0 /\ rO > 0
  BY <1>3, PoolNumbers
<1> DEFINE n == AfterFee(p, z)
           m == AfterFee(p, x)
<1>5. n \in Nat /\ m \in Nat /\ n <= m
  BY <1>1, FeeLeaves, FeeGrows
<1>6. AmountOut(p, from, z) = (n * rO) \div (rI + n)
      /\ AmountOut(p, from, x) = (m * rO) \div (rI + m)
  BY <1>2, <1>3 DEF VolatileAmountOut
<1> HIDE DEF n, m, rI, rO
<1>7. (n * rO) \div (rI + n) <= (m * rO) \div (rI + m)
  BY <1>4, <1>5, ProductGrows
<1>8. (n * rO) \div (rI + n) \in Nat /\ (m * rO) \div (rI + m) \in Nat
  BY <1>4, <1>5, ProductGivesTheMost
<1>9. (n * rO) \div (rI + n) >= y
  BY <1>6 DEF Brings
<1> QED
  BY <1>1, <1>6, <1>7, <1>8, <1>9, ReservePoolsAssumption DEF Brings

(* A quotient is at most what its dividend fits into.                      *)
LEMMA QuotientAtMost ==
  ASSUME NEW a \in Int, NEW b \in Int, b > 0, NEW c \in Int, a < b * (c + 1)
  PROVE  a \div b <= c
<1> DEFINE q == a \div b
<1>1. q \in Int /\ b * q <= a
  BY Quotient
<1> HIDE DEF q
<1>2. b * q \in Int /\ b * (c + 1) \in Int
  BY <1>1
<1>3. b * q < b * (c + 1)
  BY <1>1, <1>2
<1>4. q < c + 1
  BY <1>1, <1>3
<1> QED
  BY <1>1, <1>4 DEF q

(* The other side of ProductGivesAtLeast.                                  *)
LEMMA ProductGivesLess ==
  ASSUME NEW r \in Nat, NEW s \in Nat, NEW n \in Nat, NEW y \in Nat,
         r > 0, n * (s - y) < r * y
  PROVE  (n * s) \div (r + n) < y
<1>1. n * (s - y) = n * s - n * y /\ (r + n) * y = r * y + n * y
  OBVIOUS
<1>2. n * s \in Int /\ n * y \in Int /\ r * y \in Int /\ r + n \in Int /\ r + n > 0
  OBVIOUS
<1>3. n * s < (r + n) * y
  BY <1>1, <1>2
<1>4. n * s < (r + n) * ((y - 1) + 1)
  BY <1>3
<1>5. (n * s) \div (r + n) <= y - 1
  BY <1>2, <1>4, QuotientAtMost
<1> QED
  BY <1>2, <1>5, Quotient

(* amount_in of v2.rs asks for one unit more than need be, and no more.    *)
LEMMA V2LessFails ==
  ASSUME NEW p \in ReservePool, p.kind = "V2", NEW from \in Side, NEW y \in Nat,
         V2AmountIn(p, from, y) # Refused, NEW x \in 0..V2AmountIn(p, from, y) - 2
  PROVE  ~Brings(p, from, y, x)
<1> DEFINE rI == p.reserves[from]
           rO == p.reserves[1 - from]
           g == BPS_ONE - p.fee
           need == rI * y * BPS_ONE
           per == (rO - y) * g
<1>1. /\ rI \in Nat /\ rO \in Nat /\ g \in Nat /\ BPS_ONE \in Nat /\ BPS_ONE > 0
      /\ p.fee \in Nat
      /\ Empty(p) <=> rI = 0 \/ rO = 0
  BY PoolNumbers
<1>2. /\ rI # 0 /\ ~(y >= rO) /\ p.fee # BPS_ONE
      /\ V2AmountIn(p, from, y) = need \div per + 1
  BY DEF V2AmountIn
<1>3. rI > 0 /\ y < rO /\ g > 0 /\ rO > 0 /\ rO - y \in Nat /\ rO - y > 0
  <2>1. g # 0
    BY <1>1, <1>2
  <2> HIDE DEF rI, rO, g, need, per
  <2> QED
    BY <1>1, <1>2, <2>1
<1>4. AmountOut(p, from, x) = ((x * g) * rO) \div (rI * BPS_ONE + x * g)
  <2>1. ~Empty(p)
    BY <1>1, <1>3
  <2> QED
    BY <2>1 DEF AmountOut, V2AmountOut
<1> HIDE DEF rI, rO, g
<1>5. need \in Nat /\ per \in Nat /\ per > 0
  <2>1. rI * y \in Nat
    BY <1>1
  <2> QED
    BY <1>1, <1>3, <2>1
<1> HIDE DEF need, per
<1>6. need \div per \in Nat /\ per * (need \div per) <= need
  BY <1>5, Quotient, QuotientNatural
<1> DEFINE q == need \div per
<1> HIDE DEF q
<1>7. x \in Nat /\ x < q /\ q \in Nat /\ per * q <= need
  <2>1. x \in 0..(q + 1) - 2
    BY <1>2 DEF q
  <2> QED
    BY <1>6, <2>1 DEF q
<1>8. per * x < per * q /\ per * x \in Int /\ per * q \in Int
  BY <1>5, <1>7
<1>9. per * x < need
  BY <1>5, <1>7, <1>8
<1> DEFINE n == x * g
           r == rI * BPS_ONE
<1>10. n \in Nat /\ r \in Nat /\ r > 0
  BY <1>1, <1>3, <1>7
<1>11. n * (rO - y) = per * x /\ r * y = need
  <2>1. \A a, b, c \in Nat : (a * b) * c = (c * b) * a
    OBVIOUS
  <2>2. \A a, b, c \in Nat : (a * b) * c = (a * c) * b
    OBVIOUS
  <2>3. n * (rO - y) = per * x
    BY <1>1, <1>3, <1>7, <2>1 DEF per
  <2>4. r * y = need
    BY <1>1, <2>2 DEF need
  <2> QED
    BY <2>3, <2>4
<1> HIDE DEF n, r
<1>12. (n * rO) \div (r + n) < y
  BY <1>1, <1>9, <1>10, <1>11, ProductGivesLess
<1>13. (n * rO) \div (r + n) \in Int
  BY <1>1, <1>10, Quotient
<1> QED
  BY <1>4, <1>12, <1>13 DEF Brings, n, r

-----------------------------------------------------------------------------
(* What went into a constant product, x against a reserve of r, comes back *)
(* out for n at most, if n * r is no more than what was left, t, times x.  *)
LEMMA ProductReturns ==
  ASSUME NEW r \in Nat, NEW x \in Nat, NEW t \in Nat, NEW n \in Nat,
         t > 0, n * r <= t * x
  PROVE  (n * (r + x)) \div (t + n) <= x
<1>1. n * (r + x) = n * r + n * x /\ (t + n) * (x + 1) = t * x + n * x + (t + n)
  OBVIOUS
<1>2. n * r \in Int /\ n * x \in Int /\ t * x \in Int /\ t + n \in Int /\ t + n > 0
  OBVIOUS
<1>3. n * (r + x) < (t + n) * (x + 1) /\ n * (r + x) \in Int
  BY <1>1, <1>2
<1> QED
  BY <1>2, <1>3, QuotientAtMost

(* The inequality behind an output of a constant product.                  *)
LEMMA ProductBalance ==
  ASSUME NEW r \in Nat, NEW s \in Nat, NEW n \in Nat, NEW y \in Nat, r > 0, s > 0,
         y <= (n * s) \div (r + n)
  PROVE  r * y <= n * (s - y) /\ y < s
<1>1. n * s \in Nat /\ r + n \in Nat /\ r + n > 0
  OBVIOUS
<1> DEFINE q == (n * s) \div (r + n)
<1>2. q \in Nat /\ q < s /\ (r + n) * q <= n * s
  BY <1>1, Quotient, ProductGivesTheMost
<1> HIDE DEF q
<1>3. (r + n) * y <= (r + n) * q
  BY <1>1, <1>2 DEF q
<1>4. (r + n) * y \in Int /\ (r + n) * q \in Int
  BY <1>2
<1>5. (r + n) * y <= n * s
  BY <1>1, <1>2, <1>3, <1>4
<1>6. (r + n) * y = r * y + n * y /\ n * (s - y) = n * s - n * y
  OBVIOUS
<1>7. r * y \in Int /\ n * y \in Int
  OBVIOUS
<1> QED
  BY <1>1, <1>2, <1>5, <1>6, <1>7 DEF q

LEMMA FeeTakes ==
  ASSUME NEW p \in ReservePool, NEW x \in Nat
  PROVE  AfterFee(p, x) <= x
<1>1. x * p.fee \in Nat /\ BPS_ONE > 0 /\ BPS_ONE \in Int
  BY ReservePoolsAssumption DEF ReservePool
<1>2. (x * p.fee) \div BPS_ONE \in Nat
  BY <1>1, QuotientNatural
<1> QED
  BY <1>2 DEF AfterFee

(* A trade leaves a pool of the same kind and fee.                         *)
LEMMA AfterIsPool ==
  ASSUME NEW p \in ReservePool, NEW from \in Side, NEW x \in Nat, NEW y \in Nat,
         y <= p.reserves[1 - from]
  PROVE  /\ After(p, from, x, y) \in ReservePool
         /\ After(p, from, x, y).kind = p.kind /\ After(p, from, x, y).fee = p.fee
<1> DEFINE n == IF p.kind \in {"V2", "Curve"} THEN x ELSE AfterFee(p, x)
           after == [side \in Side |-> IF side # from THEN p.reserves[side] - y
                                      ELSE p.reserves[side] + n]
<1>1. After(p, from, x, y) = [p EXCEPT !.reserves = after]
  BY DEF After, ReservePool
<1>2. n \in Nat
  BY FeeLeaves
<1>3. ASSUME NEW side \in Side
      PROVE  after[side] \in Nat
  <2>1. side = from \/ side = 1 - from
    BY DEF Side
  <2>2. p.reserves[from] \in Nat /\ p.reserves[1 - from] \in Nat
    BY PoolNumbers
  <2> QED
    BY <1>2, <2>1, <2>2
<1>4. after \in [Side -> Nat]
  BY <1>3
<1> HIDE DEF after
<1> QED
  BY <1>1, <1>4 DEF ReservePool

(* What a constant product gave for x, sold back, brings in x at most.     *)
LEMMA SoldBack ==
  ASSUME NEW p \in ReservePool, p.kind \in {"V2", "Volatile"}, NEW from \in Side,
         NEW x \in Nat, NEW y \in Nat, y = 0 \/ Brings(p, from, y, x),
         y <= p.reserves[1 - from],
         AmountOut(After(p, from, x, y), 1 - from, y) # Refused
  PROVE  AmountOut(After(p, from, x, y), 1 - from, y) <= x
<1> DEFINE rI == p.reserves[from]
           rO == p.reserves[1 - from]
           g == BPS_ONE - p.fee
           t == rO - y
           after == After(p, from, x, y)
           back == AmountOut(after, 1 - from, y)
           in == IF p.kind = "V2" THEN x ELSE AfterFee(p, x)
<1>1. /\ rI \in Nat /\ rO \in Nat /\ g \in Nat /\ BPS_ONE \in Nat /\ BPS_ONE > 0
      /\ p.fee \in Nat /\ 1 - from \in Side /\ 1 - (1 - from) = from
      /\ g <= BPS_ONE
  BY PoolNumbers DEF Side
<1>e. Empty(p) <=> rI = 0 \/ rO = 0
  BY PoolNumbers
<1>2. /\ after \in ReservePool /\ after.kind = p.kind /\ after.fee = p.fee
      /\ after.reserves[1 - from] = t /\ after.reserves[from] = rI + in
  <2>1. after \in ReservePool /\ after.kind = p.kind /\ after.fee = p.fee
    BY AfterIsPool
  <2>2. /\ after.reserves[1 - from] = t
        /\ after.reserves[from] = rI + (IF p.kind \in {"V2", "Curve"} THEN x ELSE AfterFee(p, x))
    BY AfterReserves
  <2>3. in = IF p.kind \in {"V2", "Curve"} THEN x ELSE AfterFee(p, x)
    OBVIOUS
  <2> HIDE DEF after, in
  <2> QED
    BY <2>1, <2>2, <2>3
<1>3. Empty(after) <=> t = 0 \/ rI + in = 0
  <2> HIDE DEF after, t, in, rI
  <2>1. Empty(after) <=> after.reserves[1 - from] = 0 \/ after.reserves[1 - (1 - from)] = 0
    BY <1>1, <1>2, PoolNumbers
  <2> QED
    BY <1>1, <1>2, <2>1
<1>4. ~Empty(after)
  <2>1. AmountOut(after, 1 - from, y) # Refused
    OBVIOUS
  <2> HIDE DEF after
  <2> QED
    BY <1>2, <2>1 DEF AmountOut, V2AmountOut, VolatileAmountOut
<1>5. t \in Nat /\ t > 0 /\ rO > 0 /\ in \in Nat /\ in <= x
  BY <1>1, <1>3, <1>4, FeeLeaves, FeeTakes
<1>6. y > 0 => rI > 0
  <2>1. y > 0 => ~Empty(p)
    <3> HIDE DEF after
    <3> QED
      BY DEF Brings, AmountOut, V2AmountOut, VolatileAmountOut
  <2> QED
    BY <1>1, <1>e, <2>1
<1>7. CASE p.kind = "V2"
  <2> DEFINE n == y * g
             m == x * g
  <2>1. back = (n * (rI + x)) \div (t * BPS_ONE + n)
    <3>1. back = V2AmountOut(after, 1 - from, y)
      BY <1>2, <1>7 DEF AmountOut
    <3>2. /\ after.fee = p.fee /\ after.reserves[1 - from] = t
          /\ after.reserves[1 - (1 - from)] = rI + x
      BY <1>1, <1>2, <1>7
    <3> HIDE DEF after, t, rI
    <3> QED
      BY <1>4, <3>1, <3>2 DEF V2AmountOut
  <2>2. n \in Nat /\ m \in Nat /\ t * BPS_ONE \in Nat /\ t * BPS_ONE > 0 /\ rI * BPS_ONE \in Nat
    BY <1>1, <1>5
  <2>3. n * rI <= (t * BPS_ONE) * x
    <3>1. CASE y = 0
      <4> n = 0
        BY <1>1, <3>1
      <4> HIDE DEF n, rI, t
      <4>1. n * rI = 0 /\ (t * BPS_ONE) * x \in Nat
        BY <1>1, <2>2
      <4> QED
        BY <4>1
    <3>2. CASE y > 0
      <4>1. Brings(p, from, y, x) /\ rI > 0
        BY <1>6, <3>2
      <4>2. y <= (m * rO) \div (rI * BPS_ONE + m)
        BY <4>1, <1>1, <1>7 DEF Brings, AmountOut, V2AmountOut
      <4> HIDE DEF m, n, rI, rO, t, g
      <4>3. (rI * BPS_ONE) * y <= m * t
        <5>1. rI * BPS_ONE > 0
          BY <1>1, <4>1
        <5> QED
          BY <1>1, <1>5, <2>2, <4>2, <5>1, ProductBalance DEF t
      <4>4. n * rI <= (rI * BPS_ONE) * y
        <5>1. y * g <= y * BPS_ONE /\ y * g \in Nat /\ y * BPS_ONE \in Nat
          BY <1>1
        <5>2. (y * g) * rI <= (y * BPS_ONE) * rI
          BY <1>1, <5>1
        <5>3. (y * BPS_ONE) * rI = (rI * BPS_ONE) * y
          BY <1>1
        <5> QED
          BY <5>2, <5>3 DEF n
      <4>5. m * t <= (t * BPS_ONE) * x
        <5>1. x * g <= x * BPS_ONE /\ x * g \in Nat /\ x * BPS_ONE \in Nat
          BY <1>1
        <5>2. (x * g) * t <= (x * BPS_ONE) * t
          BY <1>5, <5>1
        <5>3. (x * BPS_ONE) * t = (t * BPS_ONE) * x
          BY <1>1, <1>5
        <5> QED
          BY <5>2, <5>3 DEF m
      <4>6. /\ n * rI \in Int /\ (rI * BPS_ONE) * y \in Int
            /\ m * t \in Int /\ (t * BPS_ONE) * x \in Int
        BY <1>1, <1>5, <2>2
      <4> QED
        BY <4>3, <4>4, <4>5, <4>6
    <3> QED
      BY <3>1, <3>2
  <2> HIDE DEF n, m, rI, rO, t, back
  <2>4. back <= x
    BY <1>1, <2>1, <2>2, <2>3, ProductReturns
  <2> QED
    BY <2>4 DEF back
<1>8. CASE p.kind = "Volatile"
  <2> DEFINE n == AfterFee(p, y)
  <2>0. in = AfterFee(p, x)
    BY <1>8
  <2>1. back = (n * (rI + in)) \div (t + n)
    <3>1. back = VolatileAmountOut(after, 1 - from, y)
      BY <1>2, <1>8 DEF AmountOut
    <3>2. /\ AfterFee(after, y) = n /\ after.reserves[1 - from] = t
          /\ after.reserves[1 - (1 - from)] = rI + in
      <4>1. AfterFee(after, y) = n
        BY <1>2 DEF AfterFee
      <4> QED
        BY <4>1, <1>1, <1>2
    <3> HIDE DEF after, t, rI, in, n
    <3> QED
      BY <1>4, <3>1, <3>2 DEF VolatileAmountOut
  <2>2. n \in Nat /\ n <= y
    BY FeeLeaves, FeeTakes
  <2>3. n * rI <= t * in
    <3>1. CASE y = 0
      <4> n = 0
        BY <2>2, <3>1
      <4> HIDE DEF n, rI, t, in
      <4>1. n * rI = 0 /\ t * in \in Nat
        BY <1>1, <1>5
      <4> QED
        BY <4>1
    <3>2. CASE y > 0
      <4>1. Brings(p, from, y, x) /\ rI > 0
        BY <1>6, <3>2
      <4>2. y <= (in * rO) \div (rI + in)
        BY <4>1, <1>1, <1>8, <2>0 DEF Brings, AmountOut, VolatileAmountOut
      <4> HIDE DEF n, rI, rO, t, g, in
      <4>3. rI * y <= in * t
        BY <1>1, <1>5, <2>2, <4>1, <4>2, ProductBalance DEF t
      <4>4. n * rI <= y * rI
        BY <1>1, <2>2
      <4>5. y * rI = rI * y /\ in * t = t * in
        BY <1>1, <1>5
      <4>6. n * rI \in Int /\ y * rI \in Int /\ t * in \in Int
        BY <1>1, <1>5, <2>2
      <4> QED
        BY <4>3, <4>4, <4>5, <4>6
    <3> QED
      BY <3>1, <3>2
  <2> HIDE DEF n, rI, rO, t, back, in
  <2>4. back <= in /\ back \in Int
    <3>1. t + n > 0 /\ t + n \in Int /\ n * (rI + in) \in Int
      BY <1>1, <1>5, <2>2
    <3> QED
      BY <1>1, <1>5, <2>1, <2>2, <2>3, <3>1, ProductReturns, Quotient
  <2>5. back <= x
    BY <1>5, <2>4
  <2> QED
    BY <2>5 DEF back
<1> QED
  BY <1>7, <1>8

-----------------------------------------------------------------------------
(* The numbers of a stable pool.  Wherever Newton's iteration ends, it     *)
(* ends at a number or refuses.                                            *)
MaybeNat == Nat \cup {Refused}

LEMMA ScaledNumber ==
  ASSUME NEW x \in Nat, NEW unit \in Nat \ {0}
  PROVE  Scale(x, unit) \in Nat
<1>1. x * E18 \in Nat /\ unit \in Int /\ unit > 0
  BY ReservePoolsAssumption
<1> QED
  BY <1>1, QuotientNatural DEF Scale

LEMMA InvariantNumber ==
  ASSUME NEW x \in Nat, NEW y \in Nat
  PROVE  StableInvariant(x, y) \in Nat /\ Slope(x, y) \in Nat
<1>1. E18 \in Int /\ E18 > 0
  BY ReservePoolsAssumption
<1> DEFINE xy == (x * y) \div E18
           xx == (x * x) \div E18
           yy == (y * y) \div E18
<1>2. x * y \in Nat /\ x * x \in Nat /\ y * y \in Nat
  OBVIOUS
<1>3. xy \in Nat /\ xx \in Nat /\ yy \in Nat
  BY <1>1, <1>2, QuotientNatural
<1>4. StableInvariant(x, y) = (xy * (xx + yy)) \div E18
      /\ Slope(x, y) = (3 * x * yy) \div E18 + (xx * x) \div E18
  BY DEF StableInvariant, Slope
<1> HIDE DEF xy, xx, yy
<1>5. xy * (xx + yy) \in Nat /\ 3 * x * yy \in Nat /\ xx * x \in Nat
  BY <1>3
<1>6. /\ (xy * (xx + yy)) \div E18 \in Nat
      /\ (3 * x * yy) \div E18 \in Nat /\ (xx * x) \div E18 \in Nat
  BY <1>1, <1>5, QuotientNatural
<1> QED
  BY <1>4, <1>6

LEMMA NewtonStepNumber ==
  ASSUME NEW p, NEW x \in Nat, NEW k \in Nat, NEW y \in Int,
         NEW following \in [Int -> MaybeNat]
  PROVE  NewtonStep(p, x, k, y, following) \in MaybeNat
<1> DEFINE here == StableInvariant(x, y)
           gap == IF here < k THEN k - here ELSE here - k
           dy == (gap * E18) \div Slope(x, y)
<1>1. CASE y < 0 \/ Slope(x, y) = 0
  BY <1>1 DEF NewtonStep, MaybeNat
<1>2. CASE y \in Nat /\ Slope(x, y) # 0
  <2>1. here \in Nat /\ Slope(x, y) \in Nat \ {0}
    BY <1>2, InvariantNumber
  <2>2. gap \in Nat
    <3> HIDE DEF here
    <3> QED
      BY <2>1
  <2>3. gap * E18 \in Nat /\ Slope(x, y) \in Int /\ Slope(x, y) > 0
    BY <2>1, <2>2, ReservePoolsAssumption
  <2>4. dy \in Int
    <3> HIDE DEF gap
    <3> QED
      BY <2>3, Quotient
  <2>5. /\ y + dy \in Int /\ y - dy \in Int /\ y + 1 \in Int /\ y - 1 \in Int
        /\ y + 1 \in Nat
    <3> HIDE DEF dy
    <3> QED
      BY <1>2, <2>4
  <2>6. \A z \in Int : following[z] \in MaybeNat
    OBVIOUS
  <2>7. NewtonStep(p, x, k, y, following)
          \in {Refused, y, y + 1, following[y + dy], following[y - dy],
               following[y + 1], following[y - 1]}
    <3>1. ~(y < 0 \/ Slope(x, y) = 0)
      BY <1>2
    <3> QED
      BY <3>1, Zenon DEF NewtonStep
  <2> HIDE DEF dy
  <2>8. {y, y + 1, following[y + dy], following[y - dy],
         following[y + 1], following[y - 1], Refused} \subseteq MaybeNat
    BY <1>2, <2>5, <2>6 DEF MaybeNat
  <2> QED
    BY <2>7, <2>8
<1> QED
  BY <1>1, <1>2

LEMMA GetYNumber ==
  ASSUME NEW p, NEW x \in Nat, NEW k \in Nat, NEW start \in Int
  PROVE  GetY(p, x, k, start) \in MaybeNat
<1> DEFINE n == NewtonSteps
           D == [Int -> MaybeNat]
           Is(f) == f = [left \in 0..n |->
                          [y \in Int |-> IF left = 0 THEN Refused
                                         ELSE NewtonStep(p, x, k, y, f[left - 1])]]
           Row(following) == [y \in Int |-> NewtonStep(p, x, k, y, following)]
           base == [y \in Int |-> Refused]
           step == [left \in 1..n |-> [following \in D |-> Row(following)]]
<1>0. n \in Nat
  BY ReservePoolsAssumption
<1>1. base \in D
  BY DEF MaybeNat
<1>2. \A following \in D : Row(following) \in D
  BY NewtonStepNumber
<1>3. step \in [1..n -> [D -> D]]
  <2> HIDE DEF Row, D
  <2> QED
    BY <1>2
<1>4. PICK g : Climbs(g, n, D, base, step)
  <2> HIDE DEF step, n, base, D
  <2> QED
    BY <1>0, <1>1, <1>3, RecursionUp
<1>5. g \in [0..n -> D] /\ g[0] = base /\ \A i \in 1..n : g[i] = Row(g[i - 1])
  <2>1. g \in [0..n -> D] /\ g[0] = base /\ \A i \in 1..n : g[i] = step[i][g[i - 1]]
    BY <1>4 DEF Climbs
  <2>2. ASSUME NEW i \in 1..n
        PROVE  step[i][g[i - 1]] = Row(g[i - 1])
    <3>1. i - 1 \in 0..n
      BY <1>0
    <3>2. g[i - 1] \in D
      BY <2>1, <3>1
    <3>3. \A d \in D : step[i][d] = Row(d)
      <4> HIDE DEF Row, D
      <4> QED
        OBVIOUS
    <3> HIDE DEF Row, D, step
    <3> QED
      BY <3>2, <3>3
  <2> HIDE DEF Row, D, step
  <2> QED
    BY <2>1, <2>2
<1>6. \E f : Is(f)
  <2>1. ASSUME NEW left \in 0..n
        PROVE  g[left] = [y \in Int |-> IF left = 0 THEN Refused
                                        ELSE NewtonStep(p, x, k, y, g[left - 1])]
    <3>1. CASE left = 0
      BY <3>1, <1>5
    <3>2. CASE left # 0
      <4>1. left \in 1..n
        BY <3>2, <1>0
      <4>2. g[left] = Row(g[left - 1])
        BY <4>1, <1>5
      <4> QED
        BY <3>2, <4>2
    <3> QED
      BY <3>1, <3>2
  <2>2. g = [left \in 0..n |-> g[left]]
    BY <1>5
  <2>3. Is(g)
    BY <2>1, <2>2
  <2> HIDE DEF Is
  <2> QED
    BY <2>3
<1> DEFINE f == CHOOSE f : Is(f)
<1>7. Is(f)
  BY <1>6
<1>8. GetY(p, x, k, start) = f[n][start]
  BY DEF GetY
<1> HIDE DEF f
<1> DEFINE S == {left \in 0..n : f[left] \in D}
<1>9. 0..n \subseteq S
  <2>1. 0 \in S
    <3>1. f[0] = base
      BY <1>0, <1>7
    <3> QED
      BY <3>1, <1>0, <1>1
  <2>2. ASSUME NEW i \in 0..n - 1, i \in S
        PROVE  i + 1 \in S
    <3>1. i + 1 \in 0..n /\ i + 1 # 0 /\ (i + 1) - 1 = i
      BY <1>0
    <3>2. f[i + 1] = Row(f[i])
      BY <1>7, <3>1
    <3> HIDE DEF Row, D
    <3> QED
      BY <1>2, <2>2, <3>1, <3>2
  <2> HIDE DEF S, n
  <2> QED
    BY <1>0, <2>1, <2>2, BoundedInduction
<1> QED
  BY <1>0, <1>8, <1>9

LEMMA ScaledReserveNumber ==
  ASSUME NEW p \in ReservePool, NEW side \in Side
  PROVE  /\ p.units[side] \in Nat \ {0}
         /\ ScaledReserve(p, side) \in Nat
         /\ StableK(p, p.reserves[0], p.reserves[1]) \in Nat
<1>1. \A s \in Side : p.units[s] \in Nat \ {0} /\ p.reserves[s] \in Nat
  BY DEF ReservePool
<1>2. 0 \in Side /\ 1 \in Side
  BY DEF Side
<1>3. /\ Scale(p.reserves[0], p.units[0]) \in Nat
      /\ Scale(p.reserves[1], p.units[1]) \in Nat
  BY <1>1, <1>2, ScaledNumber
<1> QED
  BY <1>1, <1>3, ScaledNumber, InvariantNumber DEF StableK, ScaledReserve

LEMMA StableOutNumber ==
  ASSUME NEW p \in ReservePool, NEW from \in Side, NEW x \in Nat
  PROVE  StableAmountOut(p, from, x) \in MaybeNat
<1> DEFINE reserveOut == ScaledReserve(p, 1 - from)
           given == Scale(AfterFee(p, x), p.units[from]) + ScaledReserve(p, from)
           k == StableK(p, p.reserves[0], p.reserves[1])
           y == GetY(p, given, k, reserveOut)
           unit == p.units[1 - from]
<1>1. 1 - from \in Side
  BY PoolNumbers
<1>2. reserveOut \in Nat /\ k \in Nat /\ unit \in Nat /\ given \in Nat
  <2>1. AfterFee(p, x) \in Nat /\ p.units[from] \in Nat \ {0}
    BY FeeLeaves, ScaledReserveNumber
  <2>2. Scale(AfterFee(p, x), p.units[from]) \in Nat
    BY <2>1, ScaledNumber
  <2> QED
    BY <1>1, <2>2, ScaledReserveNumber
<1>3. y \in MaybeNat
  <2> HIDE DEF given, k, reserveOut
  <2> QED
    BY <1>2, GetYNumber
<1>4. StableAmountOut(p, from, x)
        = IF x = 0 \/ Empty(p) THEN Refused
          ELSE IF y = Refused THEN Refused
          ELSE IF y > reserveOut THEN Refused
          ELSE ((reserveOut - y) * unit) \div E18
  BY DEF StableAmountOut
<1> HIDE DEF y, reserveOut, unit
<1>5. ASSUME y # Refused, ~(y > reserveOut)
      PROVE  ((reserveOut - y) * unit) \div E18 \in Nat
  <2>1. reserveOut - y \in Nat
    BY <1>2, <1>3, <1>5 DEF MaybeNat
  <2>2. (reserveOut - y) * unit \in Nat /\ E18 \in Int /\ E18 > 0
    BY <1>2, <2>1, ReservePoolsAssumption
  <2> QED
    BY <2>2, QuotientNatural
<1> QED
  BY <1>4, <1>5 DEF MaybeNat

LEMMA RoundedUpNumber ==
  ASSUME NEW a \in Nat, NEW b \in Nat, b > 0
  PROVE  CeilDiv(a, b) \in Nat
<1>1. a + b - 1 \in Nat
  OBVIOUS
<1> QED
  BY <1>1, QuotientNatural DEF CeilDiv

LEMMA StableCandidateNumber ==
  ASSUME NEW p \in ReservePool, NEW from \in Side, NEW y \in Nat
  PROVE  StableCandidate(p, from, y) \in MaybeNat
<1> DEFINE reserveIn == ScaledReserve(p, from)
           left == ScaledReserve(p, 1 - from) - CeilDiv(y * E18, p.units[1 - from])
           k == StableK(p, p.reserves[0], p.reserves[1])
           new == GetY(p, left, k, reserveIn)
           net == CeilDiv((new - reserveIn) * p.units[from], E18)
<1>1. 1 - from \in Side /\ p.fee \in Nat /\ BPS_ONE \in Nat /\ BPS_ONE - p.fee \in Nat
  BY PoolNumbers
<1>2. /\ reserveIn \in Nat /\ k \in Nat /\ p.units[from] \in Nat \ {0}
      /\ ScaledReserve(p, 1 - from) \in Nat /\ p.units[1 - from] \in Nat \ {0}
      /\ E18 \in Nat /\ E18 > 0
  BY <1>1, ScaledReserveNumber, ReservePoolsAssumption
<1>3. left \in Int
  <2>1. y * E18 \in Nat
    BY <1>2
  <2>2. CeilDiv(y * E18, p.units[1 - from]) \in Nat
    BY <1>2, <2>1, RoundedUpNumber
  <2> QED
    BY <1>2, <2>2
<1>4. StableCandidate(p, from, y)
        = IF y = 0 \/ Empty(p) \/ p.fee = BPS_ONE THEN Refused
          ELSE IF left < 0 THEN Refused
          ELSE IF new = Refused THEN Refused
          ELSE IF new < reserveIn THEN Refused
          ELSE CeilDiv(net * BPS_ONE, BPS_ONE - p.fee) + 1
  BY DEF StableCandidate
<1>5. ASSUME ~(left < 0) PROVE new \in MaybeNat
  <2> HIDE DEF left, k, reserveIn
  <2> QED
    BY <1>2, <1>3, <1>5, GetYNumber
<1> HIDE DEF left, new, reserveIn
<1>6. ASSUME ~(left < 0), new # Refused, ~(new < reserveIn), p.fee # BPS_ONE
      PROVE  CeilDiv(net * BPS_ONE, BPS_ONE - p.fee) + 1 \in Nat
  <2>1. new - reserveIn \in Nat
    BY <1>2, <1>5, <1>6 DEF MaybeNat
  <2>2. (new - reserveIn) * p.units[from] \in Nat
    BY <1>2, <2>1
  <2>3. net \in Nat
    BY <1>2, <2>2, RoundedUpNumber
  <2> HIDE DEF net
  <2>4. net * BPS_ONE \in Nat /\ BPS_ONE - p.fee > 0
    BY <1>1, <1>6, <2>3
  <2>5. CeilDiv(net * BPS_ONE, BPS_ONE - p.fee) \in Nat
    BY <1>1, <2>4, RoundedUpNumber
  <2> QED
    BY <2>5
<1> QED
  BY <1>4, <1>6 DEF MaybeNat

-----------------------------------------------------------------------------
(* What the search and the trades need to know beyond Inv.  Of Curve it is *)
(* what its types say.                                                     *)
CurveAnswers ==
  \A p \in ReservePool, from \in Side :
    /\ CurveSpot(p, from) \in (Nat \X (Nat \ {0})) \cup {Refused}
    /\ \A x \in Nat : {CurveOut(p, from, x), CurveIn(p, from, x)} \subseteq Nat \cup {Refused}

Numbered(p) == p.kind = "Curve" => CurveAnswers

Numbers ==
  Numbered(pool) =>
    /\ search # None => /\ search.lo \in Nat /\ search.hi \in Nat
                        /\ search.lo <= Candidate(pool, ask.from, ask.amount)
                        /\ search.hi <= Candidate(pool, ask.from, ask.amount)
    /\ answer \in Nat \cup {None, Refused}

AnswerIs ==
  answer \notin {None, Refused} =>
    /\ ask.exactIn => answer = AmountOut(pool, ask.from, ask.amount)
    /\ ~ask.exactIn => IF pool.kind = "V2"
                       THEN answer = V2AmountIn(pool, ask.from, ask.amount)
                       ELSE Candidate(pool, ask.from, ask.amount) # Refused

Least ==
  /\ Numbered(pool)
  /\ Answered(FALSE)
  /\ pool.kind = "V2" \/ ForwardGrows(pool, ask.from, ask.amount)
  => NoLessWillDo

QuoteInv == Inv /\ Numbers /\ AnswerIs /\ Least

(* The types of what is quoted of a pool whose numbers are known.          *)
LEMMA QuotedNumber ==
  ASSUME NEW p \in ReservePool, Numbered(p), NEW from \in Side, NEW x \in Nat
  PROVE  AmountOut(p, from, x) \in MaybeNat
<1>1. CASE p.kind \in {"V2", "Volatile"}
  BY <1>1, QuoteAccepted DEF MaybeNat
<1>2. CASE p.kind = "Stable"
  BY <1>2, StableOutNumber DEF AmountOut
<1>3. CASE p.kind = "Curve"
  <2>1. AmountOut(p, from, x) = IF x = 0 THEN 0 ELSE CurveOut(p, from, x)
    BY <1>3 DEF AmountOut, CurveAmountOut
  <2>2. CurveOut(p, from, x) \in MaybeNat
    BY <1>3 DEF Numbered, CurveAnswers, MaybeNat
  <2> QED
    BY <2>1, <2>2 DEF MaybeNat
<1> QED
  BY <1>1, <1>2, <1>3 DEF ReservePool

LEMMA CandidateNumber ==
  ASSUME NEW p \in ReservePool, Numbered(p), p.kind # "V2", NEW from \in Side, NEW y \in Nat
  PROVE  Candidate(p, from, y) \in MaybeNat
<1>1. CASE p.kind = "Volatile"
  BY <1>1, VolatileCandidateReaches DEF Candidate, MaybeNat
<1>2. CASE p.kind = "Stable"
  BY <1>2, StableCandidateNumber DEF Candidate
<1>3. CASE p.kind = "Curve"
  <2>1. Candidate(p, from, y) = CurveIn(p, from, y)
    BY <1>3 DEF Candidate
  <2>2. CurveIn(p, from, y) \in MaybeNat
    BY <1>3 DEF Numbered, CurveAnswers, MaybeNat
  <2> QED
    BY <2>1, <2>2
<1> QED
  BY <1>1, <1>2, <1>3 DEF ReservePool

LEMMA InitQuoteInv == Init => QuoteInv
<1> SUFFICES ASSUME Init PROVE QuoteInv
  OBVIOUS
<1>1. Inv
  BY InitInv
<1>2. answer = None /\ search = None
  BY DEF Init
<1> QED
  BY <1>1, <1>2 DEF QuoteInv, Numbers, AnswerIs, Least, NoLessWillDo, Answered

LEMMA ExactInQuotes ==
  ASSUME QuoteInv, NEW from \in Side, NEW x \in Amounts, QuoteExactIn(from, x)
  PROVE  Numbers' /\ AnswerIs' /\ Least'
<1>1. /\ pool' = pool /\ search' = None /\ x \in Nat
      /\ ask' = [exactIn |-> TRUE, from |-> from, amount |-> x]
      /\ answer' = AmountOut(pool, from, x) /\ pool \in ReservePool
  BY ReserveQuotesAssumption DEF QuoteExactIn, Shape, QuoteInv, Inv
<1>2. Numbers'
  <2>1. Numbered(pool) => AmountOut(pool, from, x) \in Nat \cup {Refused}
    BY <1>1, QuotedNumber DEF MaybeNat
  <2> QED
    BY <1>1, <2>1 DEF Numbers, Numbered
<1>3. AnswerIs'
  BY <1>1 DEF AnswerIs
<1>4. Least'
  BY <1>1 DEF Least, NoLessWillDo, Answered
<1> QED
  BY <1>2, <1>3, <1>4

LEMMA ExactOutQuotes ==
  ASSUME QuoteInv, NEW from \in Side, NEW y \in Amounts, QuoteExactOut(from, y)
  PROVE  Numbers' /\ AnswerIs' /\ Least'
<1>1. /\ pool' = pool /\ search = None /\ answer = None /\ y \in Nat
      /\ ask' = [exactIn |-> FALSE, from |-> from, amount |-> y]
      /\ pool \in ReservePool
  BY ReserveQuotesAssumption DEF QuoteExactOut, Shape, QuoteInv, Inv
<1>2. CASE pool.kind = "V2"
  <2>1. answer' = V2AmountIn(pool, from, y) /\ search' = None
    BY <1>1, <1>2 DEF QuoteExactOut
  <2>2. Numbers'
    BY <1>1, <1>2, <2>1, V2InputReaches DEF Numbers
  <2>3. AnswerIs'
    BY <1>1, <1>2, <2>1 DEF AnswerIs
  <2>4. Least'
    <3>1. SUFFICES ASSUME V2AmountIn(pool, from, y) # Refused
                   PROVE  \A x \in 0..V2AmountIn(pool, from, y) - 2 : ~Brings(pool, from, y, x)
      BY <1>1, <1>2, <2>1 DEF Least, NoLessWillDo, Answered, Reaches, Brings
    <3> QED
      BY <1>1, <1>2, <3>1, V2LessFails
  <2> QED
    BY <2>2, <2>3, <2>4
<1>3. CASE pool.kind # "V2" /\ Candidate(pool, from, y) = Refused
  <2>1. answer' = Refused /\ search' = None
    BY <1>1, <1>3 DEF QuoteExactOut
  <2> QED
    BY <2>1 DEF Numbers, AnswerIs, Least, NoLessWillDo, Answered
<1>4. CASE pool.kind # "V2" /\ Candidate(pool, from, y) # Refused
  <2>1. answer' = None /\ search' = [lo |-> 0, hi |-> Candidate(pool, from, y)]
    BY <1>1, <1>4 DEF QuoteExactOut
  <2>2. Numbers'
    <3>1. Numbered(pool) => Candidate(pool, from, y) \in Nat
      BY <1>1, <1>4, CandidateNumber DEF MaybeNat
    <3> QED
      BY <1>1, <2>1, <3>1 DEF Numbers, Numbered
  <2> QED
    BY <2>1, <2>2 DEF AnswerIs, Least, NoLessWillDo, Answered
<1> QED
  BY <1>2, <1>3, <1>4

LEMMA SearchQuotes ==
  ASSUME QuoteInv, Bisect \/ Found
  PROVE  Numbers' /\ AnswerIs' /\ Least'
<1>1. /\ pool' = pool /\ ask' = ask /\ search # None /\ ask # None
      /\ answer = None /\ ask.exactIn = FALSE /\ pool.kind # "V2"
      /\ Candidate(pool, ask.from, ask.amount) # Refused
  BY DEF Bisect, Found, Shape, QuoteInv, Inv
<1>2. pool \in ReservePool /\ ask \in Ask
  BY <1>1 DEF Shape, QuoteInv, Inv
<1> DEFINE top == Candidate(pool, ask.from, ask.amount)
<1>3. Numbered(pool) => /\ search.lo \in Nat /\ search.hi \in Nat /\ top \in Nat
                        /\ search.lo <= top /\ search.hi <= top
  <2>1. ask.from \in Side /\ ask.amount \in Nat
    BY <1>2 DEF Ask
  <2> QED
    BY <1>1, <1>2, <2>1, CandidateNumber DEF QuoteInv, Numbers, MaybeNat
<1>4. CASE Bisect
  <2> DEFINE mid == search.lo + (search.hi - search.lo) \div 2
  <2>1. /\ search' = IF Reaches(mid) THEN [lo |-> search.lo, hi |-> mid]
                     ELSE [lo |-> mid, hi |-> search.hi]
        /\ answer' = None /\ search.hi - search.lo > 1
    BY <1>1, <1>4 DEF Bisect
  <2>2. Numbered(pool) => mid \in Nat /\ mid <= top
    <3>1. \A l, h \in Nat : h - l > 1 =>
            l + (h - l) \div 2 \in Nat /\ l + (h - l) \div 2 <= h
      OBVIOUS
    <3> HIDE DEF top
    <3> QED
      BY <1>3, <2>1, <3>1
  <2> HIDE DEF mid
  <2>3. Numbers'
    BY <1>1, <1>3, <2>1, <2>2 DEF Numbers, Numbered
  <2> QED
    BY <2>1, <2>3 DEF AnswerIs, Least, NoLessWillDo, Answered
<1>5. CASE Found
  <2>1. answer' = search.hi /\ search' = None /\ search.hi - search.lo <= 1
    BY <1>5 DEF Found
  <2>2. Numbers'
    BY <1>1, <1>3, <2>1 DEF Numbers, Numbered
  <2>3. AnswerIs'
    BY <1>1, <2>1 DEF AnswerIs
  <2>4. Least'
    <3>1. SUFFICES ASSUME Numbered(pool), ask.amount > 0,
                          ForwardGrows(pool, ask.from, ask.amount),
                          NEW x \in 0..search.hi - 1
                   PROVE  ~Brings(pool, ask.from, ask.amount, x)
      BY <1>1, <2>1 DEF Least, NoLessWillDo, Answered, Reaches, Brings, Numbered, ForwardGrows
    <3>2. x \in 0..search.lo /\ search.lo \in 0..top
      BY <1>3, <2>1, <3>1
    <3>3. ~Brings(pool, ask.from, ask.amount, search.lo)
      BY <1>1, <3>1 DEF QuoteInv, Inv, SearchBrackets, Reaches, Brings
    <3> QED
      BY <1>1, <3>1, <3>2, <3>3 DEF ForwardGrows
  <2> QED
    BY <2>2, <2>3, <2>4
<1> QED
  BY <1>4, <1>5

LEMMA QuoteStep == QuoteInv /\ [Next]_vars => QuoteInv'
<1> SUFFICES ASSUME QuoteInv, [Next]_vars PROVE QuoteInv'
  OBVIOUS
<1>1. Inv'
  BY StepInv DEF QuoteInv
<1>2. ASSUME NEW from \in Side, NEW amount \in Amounts,
             QuoteExactIn(from, amount) \/ QuoteExactOut(from, amount)
      PROVE  Numbers' /\ AnswerIs' /\ Least'
  BY <1>2, ExactInQuotes, ExactOutQuotes
<1>3. CASE Bisect \/ Found
  BY <1>1, <1>3, SearchQuotes DEF QuoteInv
<1>4. CASE Trade
  <2>1. answer' = None /\ search' = None
    BY <1>4, ReserveQuotesAssumption DEF Trade, QuoteInv, Inv, Shape
  <2> QED
    BY <1>1, <2>1 DEF QuoteInv, Numbers, AnswerIs, Least, NoLessWillDo, Answered
<1>5. CASE UNCHANGED vars
  BY <1>1, <1>5 DEF vars, QuoteInv, Numbers, AnswerIs, Least, NoLessWillDo, Answered, Reaches,
              Brings, Numbered, ForwardGrows
<1> QED
  BY <1>1, <1>2, <1>3, <1>4, <1>5 DEF Next, Quote, QuoteInv

(* The input quoted for an exact output is the least that brings it, of    *)
(* Aerodrome's volatile pools, and for Uniswap V2 within the unit that its *)
(* library adds, of any size and fee.  Of stable and Curve pools it is, as *)
(* minimal_exact_out_input says, where the forward quote grows below the   *)
(* candidate, whatever the iteration or curve-math (in numbers) answers.   *)
THEOREM NoLessWillDoAlways ==
  Spec => [](/\ \/ pool.kind \in {"V2", "Volatile"}
                \/ Answered(FALSE) => ForwardGrows(pool, ask.from, ask.amount)
             /\ pool.kind = "Curve" => CurveAnswers
             => NoLessWillDo)
<1>1. QuoteInv => (/\ \/ pool.kind \in {"V2", "Volatile"}
                      \/ Answered(FALSE) => ForwardGrows(pool, ask.from, ask.amount)
                   /\ pool.kind = "Curve" => CurveAnswers
                   => NoLessWillDo)
  <2> SUFFICES ASSUME QuoteInv, Answered(FALSE), Numbered(pool),
                      \/ pool.kind \in {"V2", "Volatile"}
                      \/ ForwardGrows(pool, ask.from, ask.amount)
               PROVE  NoLessWillDo
    BY DEF NoLessWillDo, Numbered
  <2>1. pool \in ReservePool /\ ask.from \in Side /\ ask.amount \in Nat \ {0}
    BY DEF QuoteInv, Inv, Shape, Answered, Ask
  <2>2. pool.kind = "V2" \/ ForwardGrows(pool, ask.from, ask.amount)
    BY <2>1, VolatileGrows
  <2> QED
    BY <2>2 DEF QuoteInv, Least
<1> QED
  BY InitQuoteInv, QuoteStep, <1>1, PTL DEF Spec

(* Whatever is bought or sold of a Uniswap V2 or Aerodrome volatile pool   *)
(* at its quote, undoing it at once brings in no more than was paid: the   *)
(* roundings of amount_out and amount_in never add up in a trader's favour.*)
THEOREM NoRoundTripGainAlways ==
  Spec => [](pool.kind \in {"V2", "Volatile"} => NoRoundTripGain)
<1>1. QuoteInv => (pool.kind \in {"V2", "Volatile"} => NoRoundTripGain)
  <2> SUFFICES ASSUME QuoteInv, pool.kind \in {"V2", "Volatile"},
                      answer \notin {None, Refused},
                      AmountOut(After(pool, ask.from, Paid, Received),
                                1 - ask.from, Received) # Refused
               PROVE  AmountOut(After(pool, ask.from, Paid, Received),
                                1 - ask.from, Received) <= Paid
    BY DEF NoRoundTripGain
  <2>1. pool \in ReservePool /\ ask \in Ask /\ answer \in Nat
    BY DEF QuoteInv, Inv, Shape, Numbers, Numbered
  <2>2. ask.from \in Side /\ ask.amount \in Nat /\ ask.exactIn \in BOOLEAN
    BY <2>1 DEF Ask
  <2>3. Paid \in Nat /\ Received \in Nat
    BY <2>1, <2>2 DEF Paid, Received
  <2>4. CASE ask.exactIn
    <3>1. /\ Paid = ask.amount /\ Received = answer
          /\ answer = AmountOut(pool, ask.from, ask.amount)
      BY <2>4 DEF Paid, Received, QuoteInv, AnswerIs
    <3>2. Brings(pool, ask.from, Received, Paid)
      BY <2>1, <3>1 DEF Brings
    <3>3. Received < pool.reserves[1 - ask.from]
      BY <2>1, <2>2, <3>1, QuoteAccepted DEF Accepts
    <3>4. pool.reserves[1 - ask.from] \in Nat
      BY <2>1, <2>2, PoolNumbers
    <3>5. Received <= pool.reserves[1 - ask.from]
      BY <2>3, <3>3, <3>4
    <3> QED
      BY <2>1, <2>2, <2>3, <3>2, <3>5, SoldBack
  <2>5. CASE ~ask.exactIn
    <3>1. Paid = answer /\ Received = ask.amount
      BY <2>5 DEF Paid, Received
    <3>2. Received = 0 \/ Brings(pool, ask.from, Received, Paid)
      <4>1. CASE ask.amount > 0
        BY <2>2, <2>5, <3>1, <4>1
           DEF QuoteInv, Inv, ExactOutReaches, Answered, Reaches, Brings
      <4>2. CASE ~(ask.amount > 0)
        BY <2>2, <3>1, <4>2
      <4> QED
        BY <4>1, <4>2
    <3>3. ~(Received >= pool.reserves[1 - ask.from])
      <4>1. CASE pool.kind = "V2"
        <5>1. V2AmountIn(pool, ask.from, ask.amount) # Refused
          BY <2>5, <4>1 DEF QuoteInv, AnswerIs
        <5> QED
          BY <3>1, <5>1 DEF V2AmountIn
      <4>2. CASE pool.kind = "Volatile"
        <5>1. Candidate(pool, ask.from, ask.amount) # Refused
          BY <2>5, <4>2 DEF QuoteInv, AnswerIs
        <5> QED
          BY <3>1, <4>2, <5>1 DEF Candidate, VolatileCandidate
      <4> QED
        BY <4>1, <4>2
    <3>4. pool.reserves[1 - ask.from] \in Nat
      BY <2>1, <2>2, PoolNumbers
    <3>5. Received <= pool.reserves[1 - ask.from]
      BY <2>3, <3>3, <3>4
    <3> QED
      BY <2>1, <2>2, <2>3, <3>2, <3>5, SoldBack
  <2> QED
    BY <2>4, <2>5
<1> QED
  BY InitQuoteInv, QuoteStep, <1>1, PTL DEF Spec

-----------------------------------------------------------------------------
(* The price impact, of an ideal output and an actual one.                 *)
ImpactOf(ideal, actual) ==
  IF ideal = 0 \/ actual >= ideal THEN 0 ELSE ((ideal - actual) * BPS_ONE) \div ideal

LEMMA ImpactBounds ==
  ASSUME NEW i \in Nat, NEW a \in Nat
  PROVE  LET k == ImpactOf(i, a)
         IN  /\ k \in 0..BPS_ONE
             /\ a * BPS_ONE > i * (BPS_ONE - (k + 1)) \/ i = 0
             /\ a <= i => a * BPS_ONE <= i * (BPS_ONE - k)
             /\ a < i => i * (k + 1) > i * BPS_ONE - a * BPS_ONE
<1> DEFINE k == ImpactOf(i, a)
<1>1. BPS_ONE \in Nat /\ BPS_ONE > 0 /\ i * BPS_ONE \in Nat /\ a * BPS_ONE \in Nat
  BY ReservePoolsAssumption
<1>2. CASE i = 0 \/ a >= i
  <2>1. k = 0
    BY <1>2 DEF ImpactOf
  <2>2. a >= i => a * BPS_ONE >= i * BPS_ONE
    BY <1>1
  <2>3. i * (BPS_ONE - 1) = i * BPS_ONE - i /\ i * (BPS_ONE - 0) = i * BPS_ONE
    BY <1>1
  <2>4. a <= i => a * BPS_ONE <= i * BPS_ONE
    BY <1>1
  <2>5. k \in 0..BPS_ONE
    BY <1>1, <2>1
  <2>6. a * BPS_ONE > i * (BPS_ONE - (k + 1)) \/ i = 0
    BY <1>1, <1>2, <2>1, <2>2, <2>3
  <2>7. a <= i => a * BPS_ONE <= i * (BPS_ONE - k)
    BY <1>1, <2>1, <2>3, <2>4
  <2> HIDE DEF k
  <2>8. ~(a < i)
    BY <1>2
  <2> QED
    BY <2>5, <2>6, <2>7, <2>8 DEF k
<1>3. CASE ~(i = 0 \/ a >= i)
  <2> DEFINE loss == (i - a) * BPS_ONE
  <2>1. k = loss \div i
    BY <1>3 DEF ImpactOf
  <2>2. i > 0 /\ a < i /\ loss \in Nat /\ loss = i * BPS_ONE - a * BPS_ONE
    BY <1>1, <1>3
  <2> HIDE DEF loss, k
  <2>3. k \in Nat /\ i * k <= loss /\ loss < i * (k + 1)
    BY <2>1, <2>2, Quotient, QuotientNatural
  <2>4. i * (BPS_ONE - (k + 1)) = i * BPS_ONE - i * (k + 1)
        /\ i * (BPS_ONE - k) = i * BPS_ONE - i * k
    BY <1>1, <2>3
  <2>5. i * (k + 1) \in Int /\ i * k \in Int
    BY <2>3
  <2>6. k <= BPS_ONE
    <3>1. loss < i * (BPS_ONE + 1)
      <4>1. i * (BPS_ONE + 1) = i * BPS_ONE + i
        BY <1>1
      <4> QED
        BY <1>1, <2>2, <4>1
    <3> QED
      BY <1>1, <2>1, <2>2, <3>1, QuotientAtMost
  <2> QED
    BY <1>1, <2>2, <2>3, <2>4, <2>5, <2>6 DEF k
<1> QED
  BY <1>2, <1>3

(* An output that is short of the ideal one by the fee, up to a unit, is   *)
(* told an impact of the fee, up to as much.                               *)
LEMMA ImpactHoldsFee ==
  ASSUME NEW i \in Nat, NEW a \in Nat, a <= i, NEW g \in 0..BPS_ONE,
         a * BPS_ONE <= g * i + BPS_ONE
  PROVE  (ImpactOf(i, a) + 1) * (i * BPS_ONE) + BPS_ONE * BPS_ONE
           > (BPS_ONE - g) * (i * BPS_ONE)
<1> DEFINE k == ImpactOf(i, a)
           f == BPS_ONE - g
<1>1. BPS_ONE \in Nat /\ BPS_ONE > 0 /\ g \in Nat /\ f \in Nat
  BY ReservePoolsAssumption
<1>2. k \in Nat
  <2>1. k \in 0..BPS_ONE
    BY ImpactBounds
  <2> QED
    BY <1>1, <2>1
<1>3. f * i = i * BPS_ONE - g * i /\ g * i \in Nat /\ i * BPS_ONE \in Nat /\ a * BPS_ONE \in Nat
  BY <1>1
<1>4. f * i < (k + 1) * i + BPS_ONE
  <2>1. CASE a < i
    <3>1. i * (k + 1) > i * BPS_ONE - a * BPS_ONE
      BY <2>1, ImpactBounds
    <3> HIDE DEF k, f
    <3>2. (k + 1) * i = i * (k + 1) /\ i * (k + 1) \in Int
      BY <1>2
    <3> QED
      BY <1>1, <1>3, <3>1, <3>2
  <2>2. CASE a = i
    <3> HIDE DEF k, f
    <3>1. f * i <= BPS_ONE
      BY <1>1, <1>3, <2>2
    <3>2. (k + 1) * i >= i /\ (k + 1) * i \in Int
      BY <1>2
    <3>3. i > 0 => f * i < (k + 1) * i + BPS_ONE
      BY <1>1, <1>3, <3>1, <3>2
    <3>4. i = 0 => f * i < (k + 1) * i + BPS_ONE
      BY <1>1, <1>2
    <3> QED
      BY <3>3, <3>4
  <2> QED
    BY <2>1, <2>2
<1> HIDE DEF k, f
<1> DEFINE u == f * i
           v == (k + 1) * i
<1>5. u \in Nat /\ v \in Nat /\ u < v + BPS_ONE
  BY <1>1, <1>2, <1>4
<1>6. f * (i * BPS_ONE) = u * BPS_ONE /\ (k + 1) * (i * BPS_ONE) = v * BPS_ONE
  <2>1. \A x, y, z \in Nat : x * (y * z) = (x * y) * z
    OBVIOUS
  <2>2. k + 1 \in Nat
    BY <1>2
  <2> QED
    BY <1>1, <2>1, <2>2
<1> HIDE DEF u, v
<1>7. u * BPS_ONE < v * BPS_ONE + BPS_ONE * BPS_ONE
  <2>1. u * BPS_ONE < (v + BPS_ONE) * BPS_ONE
    BY <1>1, <1>5
  <2>2. (v + BPS_ONE) * BPS_ONE = v * BPS_ONE + BPS_ONE * BPS_ONE
    BY <1>1, <1>5
  <2> QED
    BY <2>1, <2>2
<1> QED
  BY <1>6, <1>7 DEF k, f

(* No output of a constant product beats its spot price; nor, of n of x    *)
(* that are left of the fee, the spot price of n.                          *)
LEMMA SpotBeats ==
  ASSUME NEW r \in Nat, NEW s \in Nat, NEW n \in Nat, NEW x \in Nat,
         r > 0, s > 0, n <= x
  PROVE  /\ (n * s) \div (r + n) <= (x * s) \div r
         /\ r * ((n * s) \div (r + n)) <= n * s
<1> DEFINE q == (n * s) \div (r + n)
<1>1. n * s \in Nat /\ r + n \in Nat /\ r + n > 0 /\ x * s \in Nat
  OBVIOUS
<1>2. q \in Nat /\ (r + n) * q <= n * s
  BY <1>1, Quotient, QuotientNatural
<1> HIDE DEF q
<1>3. (r + n) * q = r * q + n * q /\ r * q \in Nat /\ n * q \in Nat
  BY <1>2
<1>4. r * q <= n * s
  BY <1>1, <1>2, <1>3
<1>5. n * s <= x * s
  OBVIOUS
<1>6. r * q <= x * s
  BY <1>1, <1>3, <1>4, <1>5
<1>7. (x * s) \div r >= q /\ (x * s) \div r \in Int
  BY <1>1, <1>2, <1>6, QuotientAtLeast, Quotient
<1> QED
  BY <1>2, <1>4, <1>7 DEF q

LEMMA V2BelowSpot ==
  ASSUME NEW p \in ReservePool, p.kind = "V2", NEW from \in Side, NEW x \in Nat,
         V2AmountOut(p, from, x) # Refused
  PROVE  LET i == (x * p.reserves[1 - from]) \div p.reserves[from]
             a == V2AmountOut(p, from, x)
         IN  /\ i \in Nat /\ a \in Nat /\ a <= i
             /\ a * BPS_ONE <= (BPS_ONE - p.fee) * i + BPS_ONE
<1> DEFINE rI == p.reserves[from]
           rO == p.reserves[1 - from]
           g == BPS_ONE - p.fee
           i == (x * rO) \div rI
           a == V2AmountOut(p, from, x)
           n == x * g
           r == rI * BPS_ONE
<1>1. /\ rI \in Nat /\ rO \in Nat /\ g \in Nat /\ BPS_ONE \in Nat /\ BPS_ONE > 0
      /\ p.fee \in Nat /\ g <= BPS_ONE
  BY PoolNumbers
<1>2. ~Empty(p)
  BY DEF V2AmountOut
<1>3. rI > 0 /\ rO > 0
  BY <1>1, <1>2, PoolNumbers
<1>4. a = (n * rO) \div (r + n)
  BY <1>2 DEF V2AmountOut
<1> HIDE DEF rI, rO, g, a
<1>5. n \in Nat /\ r \in Nat /\ r > 0 /\ x * rO \in Nat /\ n <= x * BPS_ONE
  BY <1>1, <1>3
<1>6. a \in Nat /\ r * a <= n * rO
  BY <1>1, <1>3, <1>4, <1>5, SpotBeats, ProductGivesTheMost
<1>7. i \in Nat /\ rI * i <= x * rO /\ x * rO < rI * (i + 1)
  BY <1>3, <1>1, <1>5, Quotient, QuotientNatural
<1>8. r * a = rI * (a * BPS_ONE) /\ n * rO = g * (x * rO)
  <2>1. \A u, v, w \in Nat : (u * v) * w = u * (w * v)
    OBVIOUS
  <2>2. \A u, v, w \in Nat : (u * v) * w = v * (u * w)
    OBVIOUS
  <2> QED
    BY <1>1, <1>6, <2>1, <2>2
<1> DEFINE c == x * rO
           b == a * BPS_ONE
<1>9. c \in Nat /\ b \in Nat /\ rI * b <= g * c
  BY <1>1, <1>5, <1>6, <1>8
<1> HIDE DEF i, n, r, c
<1>10. a <= i
  <2>1. g * c <= BPS_ONE * c /\ g * c \in Int /\ BPS_ONE * c \in Int
    BY <1>1, <1>9
  <2>2. rI * b = BPS_ONE * (rI * a) /\ rI * a \in Nat /\ rI * b \in Int
    BY <1>1, <1>6
  <2>3. BPS_ONE * (rI * a) <= BPS_ONE * c
    BY <1>9, <2>1, <2>2
  <2> DEFINE d == rI * a
  <2> HIDE DEF d
  <2>4. d \in Nat /\ d <= c
    BY <1>1, <1>9, <2>2, <2>3 DEF d
  <2>5. c \div rI >= a
    BY <1>1, <1>3, <1>6, <1>9, <2>4, QuotientAtLeast DEF d
  <2> QED
    BY <2>5 DEF i, c
<1>11. b <= g * i + BPS_ONE
  <2> HIDE DEF b
  <2>1. g * c <= g * (rI * (i + 1)) /\ g * c \in Int /\ rI * (i + 1) \in Nat
    BY <1>1, <1>7, <1>9 DEF c
  <2>2. g * (rI * (i + 1)) = rI * (g * (i + 1)) /\ g * (i + 1) \in Nat
    BY <1>1, <1>7
  <2>3. rI * b \in Int /\ rI * (g * (i + 1)) \in Int
    BY <1>1, <1>9, <2>2
  <2>4. rI * b <= rI * (g * (i + 1))
    BY <1>9, <2>1, <2>2, <2>3
  <2>5. b <= g * (i + 1)
    <3> DEFINE e == g * (i + 1)
    <3> HIDE DEF e
    <3>1. e \in Nat /\ rI * b <= rI * e
      BY <2>2, <2>4 DEF e
    <3>2. b <= e
      BY <1>1, <1>3, <1>9, <3>1
    <3> QED
      BY <3>2 DEF e
  <2>6. g * (i + 1) = g * i + g /\ g * i \in Nat
    BY <1>1, <1>7
  <2> QED
    BY <1>1, <1>9, <2>5, <2>6
<1> QED
  BY <1>6, <1>7, <1>10, <1>11 DEF i, a, b, rI, rO, g

LEMMA VolatileBelowSpot ==
  ASSUME NEW p \in ReservePool, NEW from \in Side, NEW x \in Nat,
         VolatileAmountOut(p, from, x) # Refused
  PROVE  LET i == (x * p.reserves[1 - from]) \div p.reserves[from]
             a == VolatileAmountOut(p, from, x)
         IN  i \in Nat /\ a \in Nat /\ a <= i
<1> DEFINE rI == p.reserves[from]
           rO == p.reserves[1 - from]
           n == AfterFee(p, x)
<1>1. rI \in Nat /\ rO \in Nat /\ n \in Nat /\ n <= x
  BY PoolNumbers, FeeLeaves, FeeTakes
<1>2. ~Empty(p)
  BY DEF VolatileAmountOut
<1>3. rI > 0 /\ rO > 0
  BY <1>1, <1>2, PoolNumbers
<1>4. VolatileAmountOut(p, from, x) = (n * rO) \div (rI + n)
  BY <1>2 DEF VolatileAmountOut
<1> HIDE DEF rI, rO, n
<1>5. (n * rO) \div (rI + n) <= (x * rO) \div rI /\ (n * rO) \div (rI + n) \in Nat
  BY <1>1, <1>3, SpotBeats, ProductGivesTheMost
<1>6. x * rO \in Nat
  BY <1>1
<1>7. (x * rO) \div rI \in Nat
  BY <1>1, <1>3, <1>6, QuotientNatural
<1> QED
  BY <1>4, <1>5, <1>7 DEF rI, rO

(* What a Curve pool's spot price promises is a number, and so is what it  *)
(* gives.                                                                  *)
LEMMA CurveIdeal ==
  ASSUME CurveAnswers, NEW p \in ReservePool, p.kind = "Curve", NEW from \in Side,
         NEW x \in Nat, SpotPrice(p, from) # Refused, AmountOut(p, from, x) # Refused
  PROVE  Ideal(p, from, x) \in Nat /\ AmountOut(p, from, x) \in Nat
<1>1. AmountOut(p, from, x) \in Nat
  BY QuotedNumber DEF Numbered, MaybeNat
<1>2. \E num \in Nat, den \in Nat \ {0} : SpotPrice(p, from) = <<num, den>>
  <2>1. CASE CurveSpot(p, from) # Refused
    <3>1. SpotPrice(p, from) = CurveSpot(p, from)
      BY <2>1 DEF SpotPrice
    <3>2. CurveSpot(p, from) \in Nat \X (Nat \ {0})
      BY <2>1 DEF CurveAnswers
    <3> QED
      BY <3>1, <3>2
  <2>2. CASE CurveSpot(p, from) = Refused
    <3> DEFINE share == p.reserves[from] \div PROBE
               dx == IF share < 1 THEN 1 ELSE share
               dy == CurveOut(p, from, dx)
    <3>1. SpotPrice(p, from) = CurveProbe(p, from)
      BY <2>2 DEF SpotPrice
    <3>2. dy \notin {Refused, 0} /\ SpotPrice(p, from) = <<dy, dx>>
      BY <3>1 DEF CurveProbe
    <3>3. share \in Int
      <4>1. p.reserves[from] \in Int
        BY PoolNumbers
      <4> QED
        BY <4>1, ReservePoolsAssumption, Quotient
    <3>4. dx \in Nat \ {0}
      <4> HIDE DEF share
      <4> QED
        BY <3>3
    <3> HIDE DEF dx
    <3>5. dy \in Nat
      BY <3>2, <3>4 DEF CurveAnswers
    <3> QED
      BY <3>2, <3>4, <3>5
  <2> QED
    BY <2>1, <2>2
<1>3. PICK num \in Nat, den \in Nat \ {0} : SpotPrice(p, from) = <<num, den>>
  BY <1>2
<1>4. Ideal(p, from, x) = (x * num) \div den
  BY <1>3 DEF Ideal
<1>5. x * num \in Nat /\ den > 0 /\ den \in Int
  OBVIOUS
<1> QED
  BY <1>1, <1>4, <1>5, QuotientNatural

(* The impact that a pool tells of a quote is the loss it makes (see       *)
(* ImpactIsTheLoss), at any size: of a Curve pool, if curve-math answers   *)
(* in numbers; stable pools tell none.                                     *)
THEOREM ImpactIsTheLossAlways ==
  Spec => [](pool.kind # "Curve" \/ CurveAnswers => ImpactIsTheLoss)
<1>1. QuoteInv => (pool.kind # "Curve" \/ CurveAnswers => ImpactIsTheLoss)
  <2> DEFINE from == ask.from
             x == ask.amount
             i == Ideal(pool, from, x)
             k == ImpactOf(i, answer)
             spot == SpotPrice(pool, from)
  <2> SUFFICES ASSUME QuoteInv, pool.kind # "Curve" \/ CurveAnswers, Answered(TRUE),
                      PriceImpact(pool, from, x) # Refused
               PROVE  LET impact == PriceImpact(pool, from, x)
                          Left(share) == i * (BPS_ONE - share)
                      IN  /\ impact \in 0..BPS_ONE
                          /\ answer * BPS_ONE > Left(impact + 1) \/ Left(0) = 0
                          /\ answer * BPS_ONE <= Left(impact) \/ (pool.kind = "Curve" /\ impact = 0)
                          /\ pool.kind = "V2" =>
                               (impact + 1) * Left(0) + BPS_ONE * BPS_ONE > pool.fee * Left(0)
    BY Zenon DEF ImpactIsTheLoss
  <2>1. /\ pool \in ReservePool /\ from \in Side /\ x \in Nat
        /\ answer = AmountOut(pool, from, x) /\ answer # Refused
    <3>1. pool \in ReservePool /\ ask \in Ask
      BY DEF QuoteInv, Inv, Shape, Answered
    <3>2. answer = AmountOut(pool, from, x) /\ answer # Refused
      BY DEF QuoteInv, AnswerIs, Answered
    <3> QED
      BY <3>1, <3>2 DEF Ask
  <2>2. spot # Refused
    BY DEF PriceImpact
  <2>3. PriceImpact(pool, from, x) = k
    <3> HIDE DEF from, x, spot
    <3> QED
      BY <2>1, <2>2 DEF PriceImpact, ImpactOf, spot
  <2>4. pool.kind \in {"V2", "Volatile", "Curve"}
    <3>1. pool.kind # "Stable"
      BY <2>2 DEF SpotPrice, ReserveSpot
    <3> QED
      BY <2>1, <3>1 DEF ReservePool
  <2>5. pool.kind \in {"V2", "Volatile"} =>
          i = (x * pool.reserves[1 - from]) \div pool.reserves[from]
    <3> SUFFICES ASSUME pool.kind \in {"V2", "Volatile"}
                 PROVE  i = (x * pool.reserves[1 - from]) \div pool.reserves[from]
      OBVIOUS
    <3>1. spot = <<pool.reserves[1 - from], pool.reserves[from]>>
      BY <2>2 DEF SpotPrice, ReserveSpot
    <3> QED
      BY <3>1 DEF Ideal
  <2>6. i \in Nat /\ answer \in Nat /\ (pool.kind # "Curve" => answer <= i)
    <3>1. CASE pool.kind = "V2"
      BY <2>1, <2>5, <3>1, V2BelowSpot DEF AmountOut
    <3>2. CASE pool.kind = "Volatile"
      BY <2>1, <2>5, <3>2, VolatileBelowSpot DEF AmountOut
    <3>3. CASE pool.kind = "Curve"
      BY <2>1, <2>2, <3>3, CurveIdeal
    <3> QED
      BY <2>4, <3>1, <3>2, <3>3
  <2>7. pool.kind = "V2" => answer * BPS_ONE <= (BPS_ONE - pool.fee) * i + BPS_ONE
    BY <2>1, <2>5, V2BelowSpot DEF AmountOut
  <2>8. BPS_ONE \in Nat /\ pool.fee \in 0..BPS_ONE
    BY <2>1, ReservePoolsAssumption DEF ReservePool
  <2>n. k = 0 \/ answer <= i
    BY <2>6 DEF ImpactOf
  <2> HIDE DEF from, x, i, k, spot
  <2>9. /\ k \in 0..BPS_ONE
        /\ answer * BPS_ONE > i * (BPS_ONE - (k + 1)) \/ i = 0
        /\ answer <= i => answer * BPS_ONE <= i * (BPS_ONE - k)
    BY <2>6, ImpactBounds DEF k
  <2>10. pool.kind = "V2" =>
           (k + 1) * (i * (BPS_ONE - 0)) + BPS_ONE * BPS_ONE > pool.fee * (i * (BPS_ONE - 0))
    <3> DEFINE g == BPS_ONE - pool.fee
    <3>1. g \in 0..BPS_ONE /\ BPS_ONE - g = pool.fee /\ BPS_ONE - 0 = BPS_ONE
      BY <2>8
    <3> HIDE DEF g
    <3>2. pool.kind = "V2" => (k + 1) * (i * BPS_ONE) + BPS_ONE * BPS_ONE > (BPS_ONE - g) * (i * BPS_ONE)
      BY <2>6, <2>7, <3>1, ImpactHoldsFee DEF g, k
    <3> QED
      BY <3>1, <3>2
  <2>11. i = 0 => i * (BPS_ONE - 0) = 0
    BY <2>8
  <2> QED
    BY <2>3, <2>6, <2>9, <2>10, <2>11, <2>n
<1> QED
  BY InitQuoteInv, QuoteStep, <1>1, PTL DEF Spec
=============================================================================
