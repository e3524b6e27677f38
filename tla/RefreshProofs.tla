---------------------------- MODULE RefreshProofs ----------------------------
(***************************************************************************)
(* The backoff of retry_with_backoff, and what a refresh of pools with     *)
(* reserves returns, for all keys, configured pools, lost reads and        *)
(* attempts.                                                               *)
(***************************************************************************)
EXTENDS RefreshProperties, CommonLemmas

-----------------------------------------------------------------------------
(* The backoff. *)

(* Each factor is twice the one before.                                    *)
LEMMA FactorsAre ==
  /\ Factors \in [0..MAX_EXPONENT -> Nat] /\ Factors[0] = 1
  /\ \A k \in 1..MAX_EXPONENT : Factors[k] = 2 * Factors[k - 1]
<1> DEFINE M == MAX_EXPONENT
           step == [i \in 1..M |-> [x \in Nat |-> 2 * x]]
           Is(f) == f = [k \in 0..M |-> IF k = 0 THEN 1 ELSE 2 * f[k - 1]]
<1>0. M \in Nat  BY ReserveSourcesAssumption
<1> HIDE DEF M
<1>1. PICK g : Climbs(g, M, Nat, 1, step)
  <2>1. step \in [1..M -> [Nat -> Nat]]  OBVIOUS
  <2>2. 1 \in Nat  OBVIOUS
  <2> HIDE DEF step
  <2> QED  BY <1>0, <2>1, <2>2, RecursionUp
<1>2. g \in [0..M -> Nat] /\ g[0] = 1  BY <1>1 DEF Climbs
<1>3. ASSUME NEW k \in 1..M PROVE k - 1 \in 0..M /\ g[k] = 2 * g[k - 1]
  <2>1. k - 1 \in 0..M  BY <1>0
  <2>2. g[k] = step[k][g[k - 1]] /\ g[k - 1] \in Nat  BY <1>1, <2>1 DEF Climbs
  <2> QED  BY <2>1, <2>2
<1>4. Is(g)
  <2>1. \A k \in 0..M : g[k] = IF k = 0 THEN 1 ELSE 2 * g[k - 1]
    <3> SUFFICES ASSUME NEW k \in 0..M PROVE g[k] = IF k = 0 THEN 1 ELSE 2 * g[k - 1]
      OBVIOUS
    <3>1. CASE k = 0  BY <1>2, <3>1
    <3>2. CASE k # 0
      <4>1. k \in 1..M  BY <1>0, <3>2
      <4> QED  BY <1>3, <3>2, <4>1
    <3> QED  BY <3>1, <3>2
  <2> HIDE DEF step
  <2> QED  BY <1>2, <2>1
<1> DEFINE factor == CHOOSE f : Is(f)
<1>5. Is(factor)
  <2>1. \E f : Is(f)
    <3> HIDE DEF Is
    <3> QED  BY <1>4
  <2> HIDE DEF Is
  <2> QED  BY <2>1
<1>6. Factors = factor  BY DEF Factors, M
<1> HIDE DEF factor
<1>7. factor[0] = 1 /\ \A k \in 1..M : factor[k] = 2 * factor[k - 1]
  <2>1. \A k \in 1..M : k \in 0..M /\ k # 0  OBVIOUS
  <2>2. 0 \in 0..M  BY <1>0
  <2> QED  BY <1>5, <2>1, <2>2
<1> DEFINE T == {k \in 0..M : factor[k] = g[k]}
<1>8. 0..M \subseteq T
  <2>1. 0 \in T  BY <1>0, <1>2, <1>7
  <2>2. \A k \in 0..M - 1 : k \in T => k + 1 \in T
    <3> SUFFICES ASSUME NEW k \in 0..M - 1, factor[k] = g[k] PROVE factor[k + 1] = g[k + 1]
      BY <1>0
    <3>1. k + 1 \in 1..M /\ (k + 1) - 1 = k  BY <1>0
    <3>2. factor[k + 1] = 2 * factor[k]  BY <1>7, <3>1
    <3>3. g[k + 1] = 2 * g[k]  BY <1>3, <3>1
    <3> QED  BY <3>2, <3>3
  <2> HIDE DEF T
  <2> QED  BY <1>0, <2>1, <2>2, BoundedInduction
<1>9. factor \in [0..M -> Nat]
  <2>1. \A k \in 0..M : factor[k] \in Nat  BY <1>2, <1>8
  <2> QED  BY <1>5, <2>1
<1> QED  BY <1>6, <1>7, <1>9 DEF M

(* How long so many sleeps take. *)
Slept(sleeps) ==
  IF sleeps = 0 THEN 0
  ELSE 2 * Factors[Capped(sleeps - 1)] - 1
         + (sleeps - 1 - Capped(sleeps - 1)) * Factors[MAX_EXPONENT]

LEMMA SleptMore ==
  ASSUME NEW n \in Nat
  PROVE  Slept(n) \in Int /\ Slept(n + 1) = Slept(n) + Delay(n + 1)
<1> DEFINE M == MAX_EXPONENT
           top == Factors[M]
<1>0. M \in Nat  BY ReserveSourcesAssumption
<1>1. /\ \A k \in 0..M : Factors[k] \in Nat
      /\ Factors[0] = 1 /\ \A k \in 1..M : Factors[k] = 2 * Factors[k - 1]
  BY FactorsAre
<1>2. (n + 1) - 1 = n /\ n + 1 # 0  OBVIOUS
<1>3. Slept(n + 1) = 2 * Factors[Capped(n)] - 1 + (n - Capped(n)) * top
  BY <1>2 DEF Slept
<1>4. Delay(n + 1) = Factors[Capped(n)]  BY <1>2 DEF Delay
<1>5. top \in Nat  BY <1>0, <1>1
<1> HIDE DEF M, top
<1>6. CASE n = 0
  <2>1. Capped(n) = 0 /\ Slept(n) = 0  BY <1>0, <1>6 DEF Capped, Slept, M
  <2>2. (n - Capped(n)) * top = 0  BY <1>5, <1>6, <2>1
  <2> QED  BY <1>1, <1>3, <1>4, <2>1, <2>2
<1>7. CASE n # 0
  <2> DEFINE t == Capped(n - 1)
  <2>1. n - 1 \in Nat /\ t \in 0..M /\ t <= n - 1  BY <1>0, <1>7 DEF Capped, M
  <2>2. Slept(n) = 2 * Factors[t] - 1 + (n - 1 - t) * top
    BY <1>7 DEF Slept, top, M
  <2> DEFINE f == Factors[t]
             rest == (n - 1 - t) * top
  <2>3. f \in Nat /\ rest \in Int  BY <1>1, <1>5, <2>1
  <2>4. CASE n - 1 < M
    <3>1. t = n - 1 /\ n \in 1..M /\ Capped(n) = n  BY <1>0, <1>7, <2>4 DEF Capped, M
    <3>2. Factors[n] = 2 * f  BY <1>1, <3>1
    <3>3. (n - n) * top = 0 /\ rest = 0  BY <1>5, <3>1
    <3>4. Slept(n + 1) = 2 * Factors[n] - 1  BY <1>1, <1>3, <3>1, <3>3
    <3> QED  BY <1>4, <2>2, <2>3, <3>1, <3>2, <3>3, <3>4
  <2>5. CASE ~(n - 1 < M)
    <3>1. t = M /\ Capped(n) = M  BY <1>0, <1>7, <2>5 DEF Capped, M
    <3>2. f = top /\ Factors[Capped(n)] = top  BY <3>1 DEF top
    <3>3. (n - M) * top = (n - 1 - M) * top + top
      <4>1. n - 1 - M \in Int /\ n - M = (n - 1 - M) + 1  BY <1>0
      <4>2. \A a, b \in Int : (a + 1) * b = a * b + b  OBVIOUS
      <4> QED  BY <1>5, <4>1, <4>2
    <3> HIDE DEF f, rest
    <3>4. rest = (n - 1 - M) * top  BY <3>1 DEF rest
    <3>5. Slept(n + 1) = 2 * top - 1 + (rest + top)
      BY <1>3, <3>1, <3>2, <3>3, <3>4
    <3>6. Slept(n) = 2 * f - 1 + rest  BY <2>2 DEF f, rest
    <3> QED  BY <1>4, <1>5, <2>3, <3>2, <3>5, <3>6
  <2> QED  BY <2>4, <2>5
<1> QED  BY <1>6, <1>7

(* The count of failures is that of the sleeps, and of the last failure if *)
(* the last attempt failed.                                                *)
RetryInv ==
  /\ stage \in {"Idle", "Calling", "Sleeping", "Built", "Failed"}
  /\ maxAttempts \in Nat /\ attempt \in Nat
  /\ stage = "Idle" => attempt = 0 /\ waited = 0
  /\ BacksOff

LEMMA SleptInBacksOff ==
  BacksOff <=> (stage # "Idle" =>
                  LET last == IF maxAttempts = 0 THEN 1 ELSE maxAttempts
                  IN  IF stage = "Failed"
                      THEN attempt = last /\ waited = Slept(attempt - 1)
                      ELSE attempt < last /\ waited = Slept(attempt))
  BY DEF BacksOff, Slept

(* retry_with_backoff gives up at its last attempt and not before, and has *)
(* waited the sum of its delays, however many failures there were.         *)
THEOREM BacksOffAlways == Spec => []BacksOff
<1> USE DEF RetryInv
<1>1. Init => RetryInv  BY DEF Init, BacksOff
<1>2. RetryInv /\ [Next]_vars => RetryInv'
  <2> SUFFICES ASSUME RetryInv, [Next]_vars PROVE RetryInv'
    OBVIOUS
  <2> DEFINE last == IF maxAttempts = 0 THEN 1 ELSE maxAttempts
  <2>0. /\ stage = "Failed" => attempt = last /\ waited = Slept(attempt - 1)
        /\ stage \notin {"Idle", "Failed"} => attempt < last /\ waited = Slept(attempt)
    BY SleptInBacksOff
  <2>a. ASSUME stage' \in {"Calling", "Sleeping", "Built", "Failed"},
               maxAttempts' \in Nat, attempt' \in Nat,
               IF stage' = "Failed"
               THEN /\ attempt' = IF maxAttempts' = 0 THEN 1 ELSE maxAttempts'
                    /\ waited' = Slept(attempt' - 1)
               ELSE /\ attempt' < IF maxAttempts' = 0 THEN 1 ELSE maxAttempts'
                    /\ waited' = Slept(attempt')
        PROVE  RetryInv'
    <3>1. BacksOff'  BY <2>a DEF BacksOff, Slept
    <3> QED  BY <2>a, <3>1
  <2>1. ASSUME NEW asked \in Requests, NEW max \in Attempts, Refresh(asked, max)
        PROVE  RetryInv'
    <3>1. max \in Nat  BY ReserveSourcesAssumption
    <3>2. attempt' = 0 /\ waited' = 0 /\ maxAttempts' = max /\ stage' = "Calling"
      BY <2>1 DEF Refresh
    <3>3. Slept(0) = 0  BY DEF Slept
    <3> QED  BY <2>a, <3>1, <3>2, <3>3
  <2>2. ASSUME Answer PROVE RetryInv'
    <3>1. /\ stage = "Calling" /\ stage' = "Built"
          /\ UNCHANGED <<maxAttempts, attempt, waited>>
      BY <2>2 DEF Answer
    <3> QED  BY <2>0, <2>a, <3>1
  <2>3. ASSUME Fail PROVE RetryInv'
    <3>1. /\ stage = "Calling" /\ attempt' = attempt + 1 /\ maxAttempts' = maxAttempts
          /\ IF attempt + 1 >= maxAttempts
             THEN stage' = "Failed" /\ waited' = waited
             ELSE stage' = "Sleeping" /\ waited' = waited + Delay(attempt + 1)
      BY <2>3 DEF Fail
    <3>2. attempt < last /\ waited = Slept(attempt)  BY <2>0, <3>1
    <3>3. CASE attempt + 1 >= maxAttempts
      <4>1. attempt + 1 = last /\ (attempt + 1) - 1 = attempt  BY <3>2, <3>3
      <4> QED  BY <2>a, <3>1, <3>2, <3>3, <4>1
    <3>4. CASE ~(attempt + 1 >= maxAttempts)
      <4>1. attempt + 1 < last  BY <3>4
      <4>2. Slept(attempt + 1) = waited + Delay(attempt + 1)  BY <3>2, SleptMore
      <4> QED  BY <2>a, <3>1, <3>4, <4>1, <4>2
    <3> QED  BY <3>3, <3>4
  <2>4. ASSUME Wake PROVE RetryInv'
    <3>1. /\ stage = "Sleeping" /\ stage' = "Calling"
          /\ UNCHANGED <<maxAttempts, attempt, waited>>
      BY <2>4 DEF Wake
    <3> QED  BY <2>0, <2>a, <3>1
  <2>5. CASE UNCHANGED vars  BY <2>5 DEF vars, BacksOff
  <2> QED  BY <2>1, <2>2, <2>3, <2>4, <2>5 DEF Next
<1>3. RetryInv => BacksOff  OBVIOUS
<1> QED  BY <1>1, <1>2, <1>3, PTL DEF Spec

-----------------------------------------------------------------------------
(* What a pool is asked, line by line beside what is wanted of it. *)

(* Each part wanted is the answer to one call, by the same position; no    *)
(* call is made twice, and all are getters of G.                           *)
Lined(calls, wanted, G, C) ==
  /\ calls \in Seq(C) /\ wanted \in Seq(SUBSET C) /\ Len(wanted) = Len(calls)
  /\ \A k \in 1..Len(calls) : wanted[k] = {calls[k]} /\ calls[k].get \in G
  /\ \A j, k \in 1..Len(calls) : calls[j] = calls[k] => j = k

LEMMA LinedJoin ==
  ASSUME NEW C, NEW s, NEW w, NEW G, NEW t, NEW v, NEW H,
         Lined(s, w, G, C), Lined(t, v, H, C), G \cap H = {}
  PROVE  Lined(s \o t, w \o v, G \cup H, C)
<1> DEFINE m == Len(s)
           n == Len(t)
           calls == s \o t
           wanted == w \o v
<1>1. m \in Nat /\ n \in Nat /\ Len(w) = m /\ Len(v) = n
  BY LenProperties DEF Lined
<1>2. /\ calls \in Seq(C) /\ Len(calls) = m + n
      /\ \A k \in 1..m + n : calls[k] = IF k <= m THEN s[k] ELSE t[k - m]
  BY ConcatProperties DEF Lined
<1>3. /\ wanted \in Seq(SUBSET C) /\ Len(wanted) = m + n
      /\ \A k \in 1..m + n : wanted[k] = IF k <= m THEN w[k] ELSE v[k - m]
  <2> DEFINE D == SUBSET C
  <2>1. w \in Seq(D) /\ v \in Seq(D)  BY DEF Lined
  <2> HIDE DEF D
  <2>2. /\ w \o v \in Seq(D) /\ Len(w \o v) = Len(w) + Len(v)
        /\ \A k \in 1..Len(w) + Len(v) :
             (w \o v)[k] = IF k <= Len(w) THEN w[k] ELSE v[k - Len(w)]
    BY <2>1, ConcatProperties
  <2> QED  BY <1>1, <2>2 DEF D
<1>4. /\ \A k \in 1..m : w[k] = {s[k]} /\ s[k].get \in G
      /\ \A j, k \in 1..m : s[j] = s[k] => j = k
      /\ \A k \in 1..n : v[k] = {t[k]} /\ t[k].get \in H
      /\ \A j, k \in 1..n : t[j] = t[k] => j = k
  BY DEF Lined
<1> HIDE DEF calls, wanted, m, n
<1>5. ASSUME NEW k \in 1..m + n
      PROVE  /\ wanted[k] = {calls[k]} /\ calls[k].get \in G \cup H
             /\ k <= m => k \in 1..m /\ calls[k] = s[k] /\ calls[k].get \in G
             /\ ~(k <= m) => k - m \in 1..n /\ calls[k] = t[k - m] /\ calls[k].get \in H
  <2>1. CASE k <= m
    <3>1. k \in 1..m  BY <1>1, <2>1
    <3>2. calls[k] = s[k] /\ wanted[k] = w[k]  BY <1>2, <1>3, <2>1
    <3>3. w[k] = {s[k]} /\ s[k].get \in G  BY <1>4, <3>1
    <3> QED  BY <2>1, <3>1, <3>2, <3>3
  <2>2. CASE ~(k <= m)
    <3>1. k - m \in 1..n  BY <1>1, <2>2
    <3>2. calls[k] = t[k - m] /\ wanted[k] = v[k - m]  BY <1>2, <1>3, <2>2
    <3>3. v[k - m] = {t[k - m]} /\ t[k - m].get \in H  BY <1>4, <3>1
    <3> QED  BY <2>2, <3>1, <3>2, <3>3
  <2> QED  BY <2>1, <2>2
<1>6. ASSUME NEW j \in 1..m + n, NEW k \in 1..m + n, calls[j] = calls[k] PROVE j = k
  <2>1. (j <= m) <=> (k <= m)  BY <1>5, <1>6
  <2>2. CASE j <= m  BY <1>4, <1>5, <1>6, <2>1, <2>2
  <2>3. CASE ~(j <= m)
    <3>1. j - m = k - m  BY <1>4, <1>5, <1>6, <2>1, <2>3
    <3> QED  BY <1>1, <3>1
  <2> QED  BY <2>2, <2>3
<1>7. Lined(calls, wanted, G \cup H, C)  BY <1>2, <1>3, <1>5, <1>6 DEF Lined
<1> QED  BY <1>7 DEF calls, wanted

(* One call; the calls that own() of Wanted lines up, with different       *)
(* getters; the balances.                                                  *)
LEMMA LinedOne ==
  ASSUME NEW C, NEW call \in C, NEW G, call.get \in G
  PROVE  Lined(<<call>>, <<{call}>>, G, C)
<1>1. <<call>> \in Seq(C) /\ <<{call}>> \in Seq(SUBSET C)  OBVIOUS
<1>2. Len(<<call>>) = 1 /\ Len(<<{call}>>) = 1 /\ \A k \in 1..1 : k = 1  OBVIOUS
<1> QED  BY <1>1, <1>2 DEF Lined

Getter ==
  {"getReserves", "future_A", "A", "fee", "balances", "balances(int128)", "get_virtual_price",
   "offpeg_fee_multiplier", "stored_rates", "mid_fee", "out_fee", "fee_gamma", "D", "gamma",
   "price_scale"}

Apart(gets) == \A j, k \in DOMAIN gets : gets[j] = gets[k] => j = k

LEMMA LinedOwn ==
  ASSUME NEW C, NEW gets \in Seq(Getter), Apart(gets), NEW target,
         \A k \in DOMAIN gets : Call(target, gets[k], 0) \in C
  PROVE  Lined([k \in DOMAIN gets |-> Call(target, gets[k], 0)],
               [k \in DOMAIN gets |-> {Call(target, gets[k], 0)}],
               ToSet(gets), C)
<1> DEFINE n == Len(gets)
           s == [k \in DOMAIN gets |-> Call(target, gets[k], 0)]
           w == [k \in DOMAIN gets |-> {Call(target, gets[k], 0)}]
<1>1. n \in Nat /\ DOMAIN gets = 1..n  OBVIOUS
<1>2. \A k \in 1..n : w[k] = {s[k]} /\ s[k].get = gets[k] /\ gets[k] \in ToSet(gets)
  BY <1>1 DEF Call, ToSet
<1>3. s \in [1..n -> C] /\ w \in [1..n -> SUBSET C] /\ DOMAIN s = 1..n /\ DOMAIN w = 1..n
  BY <1>1
<1> HIDE DEF s, w, n
<1>4. /\ s \in Seq(C) /\ w \in Seq(SUBSET C)
      /\ Len(s) = n /\ Len(w) = n
  <2>1. s \in Seq(C) /\ w \in Seq(SUBSET C)  BY <1>1, <1>3, SeqDef
  <2> QED  BY <1>1, <1>3, <2>1, LenProperties
<1>5. \A j, k \in 1..n : s[j] = s[k] => j = k  BY <1>1, <1>2 DEF Apart
<1>6. Lined(s, w, ToSet(gets), C)  BY <1>2, <1>4, <1>5 DEF Lined
<1> QED  BY <1>6 DEF s, w

LEMMA LinedBalances ==
  ASSUME NEW C, NEW config, config.coins \in Nat,
         \A k \in DOMAIN Balances(config) : Balances(config)[k] \in C
  PROVE  /\ Lined(Balances(config), [k \in 1..config.coins |-> {Balances(config)[k]}],
                  {"balances", "balances(int128)"}, C)
         /\ Len(Balances(config)) = config.coins
<1> DEFINE n == config.coins
           s == Balances(config)
           w == [k \in 1..n |-> {s[k]}]
           get == IF config.variant = "StableSwapV0" THEN "balances(int128)" ELSE "balances"
<1>1. s = [k \in 1..n |-> Call(config.address, get, k - 1)]  BY DEF Balances
<1>2. \A k \in 1..n : s[k].get = get /\ s[k].arg = k - 1  BY <1>1 DEF Call
<1>3. get \in {"balances", "balances(int128)"}  OBVIOUS
<1>4. DOMAIN s = 1..n  BY <1>1
<1> HIDE DEF s, get
<1>5. s \in [1..n -> C] /\ w \in [1..n -> SUBSET C] /\ DOMAIN w = 1..n
  BY <1>1, <1>4 DEF s
<1>6. \A k \in 1..n : w[k] = {s[k]}  OBVIOUS
<1> HIDE DEF w, n
<1>7. n \in Nat  BY DEF n
<1>8. s \in Seq(C) /\ w \in Seq(SUBSET C)  BY <1>5, <1>7, SeqDef
<1>9. Len(s) = n /\ Len(w) = n  BY <1>4, <1>5, <1>7, <1>8, LenProperties
<1>10. ASSUME NEW j \in 1..n, NEW k \in 1..n, s[j] = s[k] PROVE j = k
  <2>1. j - 1 = k - 1  BY <1>2, <1>10
  <2> QED  BY <1>7, <2>1
<1>11. Lined(s, w, {"balances", "balances(int128)"}, C)
  BY <1>2, <1>3, <1>6, <1>8, <1>9, <1>10 DEF Lined
<1> QED  BY <1>9, <1>11 DEF s, w, n

(* What is at each place of two sequences joined. *)
IsJoin(q, s, t, m, n) ==
  /\ Len(q) = m + n /\ DOMAIN q = 1..m + n
  /\ \A k \in 1..m : q[k] = s[k]
  /\ \A k \in 1..n : q[m + k] = t[k]

LEMMA Joined ==
  ASSUME NEW C, NEW s \in Seq(C), NEW t \in Seq(C)
  PROVE  s \o t \in Seq(C) /\ IsJoin(s \o t, s, t, Len(s), Len(t))
<1> DEFINE q == s \o t
           m == Len(s)
           n == Len(t)
<1>1. /\ q \in Seq(C) /\ Len(q) = m + n
      /\ \A k \in 1..m + n : q[k] = IF k <= m THEN s[k] ELSE t[k - m]
      /\ m \in Nat /\ n \in Nat
  BY ConcatProperties, LenProperties
<1> HIDE DEF q, m, n
<1>2. DOMAIN q = 1..m + n  BY <1>1, LenProperties
<1>3. ASSUME NEW k \in 1..m PROVE q[k] = s[k]
  <2>1. k \in 1..m + n /\ k <= m  BY <1>1
  <2> QED  BY <1>1, <2>1
<1>4. ASSUME NEW k \in 1..n PROVE q[m + k] = t[k]
  <2>1. m + k \in 1..m + n /\ ~(m + k <= m) /\ (m + k) - m = k  BY <1>1
  <2> QED  BY <1>1, <2>1
<1>5. IsJoin(q, s, t, m, n)  BY <1>1, <1>2, <1>3, <1>4 DEF IsJoin
<1> QED  BY <1>1, <1>5 DEF q, m, n

LEMMA JoinTwo ==
  ASSUME NEW C, NEW x \in C, NEW y \in C
  PROVE  <<x>> \o <<y>> = <<x, y>>
<1> DEFINE t == <<x>> \o <<y>>
<1> DEFINE a == <<x>>
           b == <<y>>
<1>1. a \in Seq(C) /\ b \in Seq(C) /\ Len(a) = 1 /\ Len(b) = 1 /\ a[1] = x /\ b[1] = y
  OBVIOUS
<1> HIDE DEF a, b
<1>2. a \o b \in Seq(C) /\ IsJoin(a \o b, a, b, Len(a), Len(b))  BY <1>1, Joined
<1>3. t = a \o b  BY DEF a, b
<1> HIDE DEF t
<1>4. t[1] = x /\ t[2] = y
  <2>1. 1 \in 1..1 /\ 1 + 1 = 2  OBVIOUS
  <2>2. t[1] = a[1] /\ t[1 + 1] = b[1]  BY <1>1, <1>2, <1>3, <2>1 DEF IsJoin
  <2> QED  BY <1>1, <2>1, <2>2
<1>5. t \in Seq(C) /\ Len(t) = 2  BY <1>1, <1>2, <1>3 DEF IsJoin
<1>6. t = <<x, y>>  BY <1>4, <1>5
<1> QED  BY <1>6 DEF t

(* The calls of a stable Curve pool: the two that may give the             *)
(* amplification, one for each part, and what it may lack.                 *)
Stable(calls, wanted, x, y, s, o) ==
  /\ DOMAIN calls = 1..Len(calls)
  /\ Len(calls) = 2 + Len(s) + Len(o) /\ Len(s) \in Nat /\ Len(o) \in Nat
  /\ \A j, k \in 1..Len(calls) : calls[j] = calls[k] => j = k
  /\ calls[1] = x /\ calls[2] = y
  /\ \A k \in 1..Len(o) : calls[2 + Len(s) + k] = o[k]
  /\ Len(wanted) = 1 + Len(s) /\ DOMAIN wanted = 1..1 + Len(s)
  /\ wanted[1] = {x, y}
  /\ \A k \in 2..1 + Len(s) : wanted[k] = {calls[k + 1]}

LEMMA StableFits ==
  ASSUME NEW C, NEW x \in C, NEW y \in C, x.get = "future_A", y.get = "A",
         NEW s, NEW w, NEW G, Lined(s, w, G, C),
         NEW o, NEW v, NEW H, Lined(o, v, H, C),
         G \cap H = {}, (G \cup H) \cap {"future_A", "A"} = {}
  PROVE  Stable(<<x, y>> \o (s \o o), <<{x, y}>> \o w, x, y, s, o)
<1> DEFINE head == <<x, y>>
           rest == s \o o
           m == Len(s)
           n == Len(o)
           calls == head \o rest
           wanted == <<{x, y}>> \o w
<1>1. m \in Nat /\ n \in Nat  BY LenProperties DEF Lined
<1>2. Lined(<<x>>, <<{x}>>, {"future_A"}, C) /\ Lined(<<y>>, <<{y}>>, {"A"}, C)
  BY LinedOne
<1>3. Lined(rest, w \o v, G \cup H, C)  BY LinedJoin
<1>4. Lined(<<x>> \o <<y>>, <<{x}>> \o <<{y}>>, {"future_A"} \cup {"A"}, C)
  BY <1>2, LinedJoin
<1>5. Lined((<<x>> \o <<y>>) \o rest, (<<{x}>> \o <<{y}>>) \o (w \o v),
            ({"future_A"} \cup {"A"}) \cup (G \cup H), C)
  BY <1>3, <1>4, LinedJoin
<1>6. <<x>> \o <<y>> = head  BY JoinTwo
<1>7. calls \in Seq(C) /\ \A j, k \in 1..Len(calls) : calls[j] = calls[k] => j = k
  BY <1>5, <1>6 DEF Lined
<1>8. rest \in Seq(C) /\ Len(rest) = m + n /\ IsJoin(rest, s, o, m, n)
  <2>1. rest \in Seq(C) /\ IsJoin(rest, s, o, m, n)  BY Joined DEF Lined
  <2> QED  BY <2>1 DEF IsJoin
<1>9. head \in Seq(C) /\ Len(head) = 2 /\ head[1] = x /\ head[2] = y
  <2>1. head \in Seq(C) /\ Len(head) = 2  OBVIOUS
  <2>2. head[1] = x /\ head[2] = y  OBVIOUS
  <2> QED  BY <2>1, <2>2
<1> HIDE DEF head, rest, m, n
<1>10. IsJoin(calls, head, rest, 2, m + n)
  <2>1. IsJoin(head \o rest, head, rest, Len(head), Len(rest))  BY <1>8, <1>9, Joined
  <2> QED  BY <1>8, <1>9, <2>1
<1>11. calls[1] = x /\ calls[2] = y
  <2>1. 1 \in 1..2 /\ 2 \in 1..2  OBVIOUS
  <2>2. calls[1] = head[1] /\ calls[2] = head[2]  BY <1>10, <2>1 DEF IsJoin
  <2> QED  BY <1>9, <2>2
<1>12. ASSUME NEW k \in 1..m PROVE calls[k + 2] = s[k]
  <2>1. k \in 1..m + n /\ k + 2 = 2 + k  BY <1>1
  <2>2. calls[2 + k] = rest[k]  BY <1>10, <2>1 DEF IsJoin
  <2> QED  BY <1>8, <2>1, <2>2 DEF IsJoin
<1>13. ASSUME NEW k \in 1..n PROVE calls[2 + m + k] = o[k]
  <2>1. m + k \in 1..m + n /\ 2 + (m + k) = 2 + m + k  BY <1>1
  <2>2. calls[2 + (m + k)] = rest[m + k]  BY <1>10, <2>1 DEF IsJoin
  <2> QED  BY <1>8, <2>1, <2>2 DEF IsJoin
<1>14. /\ wanted[1] = {x, y} /\ Len(wanted) = 1 + m /\ DOMAIN wanted = 1..1 + m
       /\ \A k \in 2..1 + m : wanted[k] = w[k - 1]
  <2> DEFINE D == SUBSET C
             one == <<{x, y}>>
  <2>1. w \in Seq(D) /\ Len(w) = m  BY DEF Lined, m
  <2>2. one \in Seq(D) /\ Len(one) = 1 /\ one[1] = {x, y}  OBVIOUS
  <2> HIDE DEF D, one
  <2>a. one \o w \in Seq(D) /\ IsJoin(one \o w, one, w, Len(one), Len(w))
    BY <2>1, <2>2, Joined
  <2>3. IsJoin(one \o w, one, w, 1, m)  BY <2>1, <2>2, <2>a
  <2>4. Len(one \o w) = 1 + m /\ DOMAIN (one \o w) = 1..1 + m  BY <2>3 DEF IsJoin
  <2>5. (one \o w)[1] = {x, y}
    <3>1. 1 \in 1..1  OBVIOUS
    <3> QED  BY <2>2, <2>3, <3>1 DEF IsJoin
  <2>6. ASSUME NEW k \in 2..1 + m PROVE (one \o w)[k] = w[k - 1]
    <3>1. k - 1 \in 1..m /\ 1 + (k - 1) = k  BY <1>1
    <3>2. (one \o w)[1 + (k - 1)] = w[k - 1]  BY <2>3, <3>1 DEF IsJoin
    <3> QED  BY <3>1, <3>2
  <2> QED  BY <2>4, <2>5, <2>6 DEF one
<1>15. ASSUME NEW k \in 2..1 + m PROVE wanted[k] = {calls[k + 1]}
  <2>1. k - 1 \in 1..m /\ (k - 1) + 2 = k + 1  BY <1>1
  <2>2. w[k - 1] = {s[k - 1]}  BY <2>1 DEF Lined, m
  <2> HIDE DEF calls, wanted
  <2> QED  BY <1>12, <1>14, <2>1, <2>2
<1> HIDE DEF calls, wanted
<1>16. DOMAIN calls = 1..Len(calls)  BY <1>7, LenProperties
<1>17. Len(calls) = 2 + m + n  BY <1>1, <1>10 DEF IsJoin
<1>18. Stable(calls, wanted, x, y, s, o)
  BY <1>1, <1>7, <1>11, <1>13, <1>14, <1>15, <1>16, <1>17 DEF Stable, m, n
<1> QED  BY <1>18 DEF calls, wanted, head, rest

-----------------------------------------------------------------------------
(* Curve: the calls of each family and what they are for. *)

CurveAsked(config) ==
  {Call(target, get, arg) : target \in {config.address, config.base}, get \in Getter, arg \in Nat}

(* The configuration of a pool. *)
IsConfig(config, key) ==
  config.address = key.address /\ config.variant \in Variant /\ config.coins \in Nat \ {0}

LEMMA ConfigIs ==
  ASSUME NEW key, Readable("Curve", key)
  PROVE  IsConfig(Configs(key)[1], key)
<1> DEFINE S == {config \in ToSet(CurvePools) : config.address = key.address}
           P == Configs(key)
<1>1. CurvePools \in Seq(ToSet(CurvePools))  BY ReserveSourcesAssumption
<1>2. P = Passing(CurvePools, S)  BY DEF Configs
<1> HIDE DEF S, P
<1>3. PICK from : P \in Seq(ToSet(CurvePools)) /\ Picks(P, CurvePools, S, Len(CurvePools), from)
  BY <1>1, <1>2, PassingPicks
<1>4. P # <<>>  BY DEF Readable, P
<1>5. 1 \in 1..Len(P)  BY <1>3, <1>4
<1>6. P[1] \in S  BY <1>3, <1>5 DEF Picks
<1> QED  BY <1>6, ReserveSourcesAssumption DEF IsConfig, P, S

LEMMA CallIs ==
  ASSUME NEW target, NEW get, NEW arg
  PROVE  /\ Call(target, get, arg).target = target /\ Call(target, get, arg).get = get
         /\ Call(target, get, arg).arg = arg
  BY DEF Call

LEMMA AskedIs ==
  ASSUME NEW config, NEW get \in Getter, NEW arg \in Nat
  PROVE  /\ Call(config.address, get, arg) \in CurveAsked(config)
         /\ Call(config.base, get, arg) \in CurveAsked(config)
  BY DEF CurveAsked

LEMMA BalancesAre ==
  ASSUME NEW config, config.coins \in Nat
  PROVE  /\ Lined(Balances(config), [k \in 1..config.coins |-> {Balances(config)[k]}],
                  {"balances", "balances(int128)"}, CurveAsked(config))
         /\ Len(Balances(config)) = config.coins
<1>1. \A k \in DOMAIN Balances(config) : Balances(config)[k] \in CurveAsked(config)
  <2> DEFINE get == IF config.variant = "StableSwapV0" THEN "balances(int128)" ELSE "balances"
  <2>1. Balances(config) = [i \in 1..config.coins |-> Call(config.address, get, i - 1)]
    BY DEF Balances
  <2>2. get \in Getter  BY DEF Getter
  <2> HIDE DEF get
  <2>3. \A i \in 1..config.coins : i - 1 \in Nat  OBVIOUS
  <2> QED  BY <2>1, <2>2, <2>3, AskedIs
<1> QED  BY <1>1, LinedBalances

(* The fee and the balances, as they are asked and as they are wanted.     *)
FeeAndBalances(config) == <<Call(config.address, "fee", 0)>> \o Balances(config)
FeeAndBalanceParts(config) ==
  <<{Call(config.address, "fee", 0)}>> \o [k \in 1..config.coins |-> {Balances(config)[k]}]

LEMMA FeeAndBalancesAre ==
  ASSUME NEW config, config.coins \in Nat
  PROVE  /\ Lined(FeeAndBalances(config), FeeAndBalanceParts(config),
                  {"fee"} \cup {"balances", "balances(int128)"}, CurveAsked(config))
         /\ Len(FeeAndBalances(config)) = 1 + config.coins
<1> DEFINE C == CurveAsked(config)
           fee == Call(config.address, "fee", 0)
           B == Balances(config)
           W == [k \in 1..config.coins |-> {Balances(config)[k]}]
<1>1. fee \in C  BY AskedIs DEF Getter
<1>2. fee.get \in {"fee"}  BY CallIs
<1>3. Lined(B, W, {"balances", "balances(int128)"}, C) /\ Len(B) = config.coins
  BY BalancesAre
<1>a. FeeAndBalances(config) = <<fee>> \o B /\ FeeAndBalanceParts(config) = <<{fee}>> \o W
  BY DEF FeeAndBalances, FeeAndBalanceParts
<1> HIDE DEF C, fee, B, W
<1>4. Lined(<<fee>>, <<{fee}>>, {"fee"}, C)  BY <1>1, <1>2, LinedOne
<1>5. {"fee"} \cap {"balances", "balances(int128)"} = {}  OBVIOUS
<1>6. Lined(<<fee>> \o B, <<{fee}>> \o W, {"fee"} \cup {"balances", "balances(int128)"}, C)
  BY <1>3, <1>4, <1>5, LinedJoin
<1>7. Len(<<fee>> \o B) = 1 + config.coins
  <2>1. <<fee>> \in Seq(C) /\ B \in Seq(C) /\ Len(<<fee>>) = 1  BY <1>1, <1>3 DEF Lined
  <2> QED  BY <1>3, <2>1, ConcatProperties
<1> QED  BY <1>6, <1>7, <1>a DEF C

(* What a stable pool is asked for its amplification. *)
FutureA(config) == Call(config.address, "future_A", 0)
PresentA(config) == Call(config.address, "A", 0)
BasePrice(config) == Call(config.base, "get_virtual_price", 0)
OffPeg(config) == Call(config.address, "offpeg_fee_multiplier", 0)
Rates(config) == Call(config.address, "stored_rates", 0)

StableCalls(config) == <<FutureA(config), PresentA(config)>> \o FeeAndBalances(config)
StableParts(config) == <<{FutureA(config), PresentA(config)}>> \o FeeAndBalanceParts(config)

OneMore(x, y, z, t) == <<x, y, z>> \o t = <<x, y>> \o (<<z>> \o t)

LEMMA JoinOneMore ==
  ASSUME NEW C, NEW x \in C, NEW y \in C, NEW z \in C, NEW t \in Seq(C)
  PROVE  OneMore(x, y, z, t)
<1> DEFINE a == <<x, y>>
           b == <<z>>
           c == <<x, y, z>>
<1>1. a \in Seq(C) /\ Len(a) = 2 /\ a[1] = x /\ a[2] = y
  <2>1. a \in Seq(C) /\ Len(a) = 2  OBVIOUS
  <2>2. a[1] = x /\ a[2] = y  OBVIOUS
  <2> QED  BY <2>1, <2>2
<1>2. b \in Seq(C) /\ Len(b) = 1 /\ b[1] = z  OBVIOUS
<1>3. c = a \o b
  <2> DEFINE d == a \o b
  <2> HIDE DEF a, b
  <2>1. d \in Seq(C) /\ IsJoin(d, a, b, 2, 1)
    <3>1. d \in Seq(C) /\ IsJoin(d, a, b, Len(a), Len(b))  BY <1>1, <1>2, Joined
    <3> QED  BY <1>1, <1>2, <3>1
  <2> HIDE DEF d, c
  <2>2. 1 \in 1..2 /\ 2 \in 1..2 /\ 1 \in 1..1 /\ 2 + 1 = 3  OBVIOUS
  <2>3. d[1] = x /\ d[2] = y /\ d[2 + 1] = z  BY <1>1, <1>2, <2>1, <2>2 DEF IsJoin
  <2>4. Len(d) = 3 /\ d[3] = z  BY <2>1, <2>2, <2>3 DEF IsJoin
  <2>5. d = c  BY <2>1, <2>3, <2>4 DEF c
  <2> QED  BY <2>5 DEF d
<1> HIDE DEF a, b, c
<1>4. a \in Seq(C) /\ b \in Seq(C) /\ t \in Seq(C)  BY <1>1, <1>2
<1>5. (a \o b) \o t = a \o (b \o t)  BY ONLY <1>4, ConcatAssociative
<1> QED  BY <1>3, <1>5 DEF a, b, c, OneMore

LEMMA StableCallsAre ==
  ASSUME NEW config, config.coins \in Nat, config.variant \in Variant
  PROVE  LET family == Family(config.variant)
             stable == StableCalls(config)
         IN  /\ family = "Plain" => CurveCalls(config) = stable
             /\ family = "Meta" =>
                  CurveCalls(config) = IF config.base = None THEN stable
                                       ELSE Append(stable, BasePrice(config))
             /\ family = "ALend" => CurveCalls(config) = Append(stable, OffPeg(config))
             /\ family = "Ng" =>
                  CurveCalls(config) = stable \o <<OffPeg(config), Rates(config)>>
<1> DEFINE x == FutureA(config)
           y == PresentA(config)
           z == Call(config.address, "fee", 0)
           B == Balances(config)
           C == CurveAsked(config)
<1>1. x \in C /\ y \in C /\ z \in C  BY AskedIs DEF FutureA, PresentA, Getter
<1>2. B \in Seq(C)  BY BalancesAre DEF Lined
<1>3. StableCalls(config) = <<x, y>> \o (<<z>> \o B)  BY DEF StableCalls, FeeAndBalances
<1>a. <<x, y, z>> \o B = <<x, y>> \o (<<z>> \o B)
  <2> HIDE DEF x, y, z, B, C
  <2>1. x \in C /\ y \in C /\ z \in C /\ B \in Seq(C)  BY <1>1, <1>2
  <2>2. OneMore(x, y, z, B)  BY ONLY <2>1, JoinOneMore
  <2> QED  BY ONLY <2>2 DEF OneMore
<1>4. StableCalls(config) = <<x, y, z>> \o B  BY <1>3, <1>a
<1> QED  BY <1>4 DEF CurveCalls, FutureA, PresentA, BasePrice, OffPeg, Rates

(* The parts wanted of a stable pool. *)
LEMMA StableWanted ==
  ASSUME NEW key, source = "Curve", IsConfig(Configs(key)[1], key)
  PROVE  LET config == Configs(key)[1]
             family == Family(config.variant)
             stable == StableParts(config)
         IN  /\ family \in {"Plain", "Ng"} => Wanted(key) = stable
             /\ family = "Meta" =>
                  Wanted(key) = Append(stable, IF config.base = None THEN {}
                                               ELSE {BasePrice(config)})
             /\ family = "ALend" => Wanted(key) = stable \o <<{OffPeg(config)}>>
<1> DEFINE config == Configs(key)[1]
           a == key.address
           fees == [k \in DOMAIN <<"fee">> |-> {Call(a, <<"fee">>[k], 0)}]
           pegs == [k \in DOMAIN <<"offpeg_fee_multiplier">> |->
                      {Call(a, <<"offpeg_fee_multiplier">>[k], 0)}]
           balances == [i \in 1..config.coins |-> {Balances(config)[i]}]
           head == <<{Call(a, "future_A", 0)} \cup {Call(a, "A", 0)}>>
           stable == head \o fees \o balances
<1>1. config.address = a /\ config.coins \in Nat  BY DEF IsConfig
<1>2. fees = <<{Call(a, "fee", 0)}>> /\ pegs = <<{Call(a, "offpeg_fee_multiplier", 0)}>>
  OBVIOUS
<1>3. head = <<{FutureA(config), PresentA(config)}>>  BY <1>1 DEF FutureA, PresentA
<1>4. /\ Family(config.variant) \in {"Plain", "Ng"} => Wanted(key) = stable
      /\ Family(config.variant) = "Meta" =>
           Wanted(key) = Append(stable, IF config.base = None THEN {}
                                        ELSE {Call(config.base, "get_virtual_price", 0)})
      /\ Family(config.variant) = "ALend" => Wanted(key) = stable \o pegs
  BY DEF Wanted
<1>5. stable = StableParts(config)
  <2> DEFINE C == CurveAsked(config)
             D == SUBSET C
  <2>1. Call(a, "fee", 0) \in C /\ FutureA(config) \in C /\ PresentA(config) \in C
    BY <1>1, AskedIs DEF FutureA, PresentA, Getter
  <2>2. Lined(Balances(config), balances, {"balances", "balances(int128)"}, C)
    BY <1>1, BalancesAre
  <2>3. balances \in Seq(D)  BY <2>2 DEF Lined
  <2>4. fees \in Seq(D) /\ head \in Seq(D)
    <3>1. <<{Call(a, "fee", 0)}>> \in Seq(D)  BY <2>1
    <3>2. <<{FutureA(config), PresentA(config)}>> \in Seq(D)  BY <2>1
    <3> QED  BY <1>2, <1>3, <3>1, <3>2
  <2>5. FeeAndBalanceParts(config) = fees \o balances
    BY <1>1, <1>2 DEF FeeAndBalanceParts
  <2> HIDE DEF C, D, head, fees, balances
  <2>6. (head \o fees) \o balances = head \o (fees \o balances)
    BY ONLY <2>3, <2>4, ConcatAssociative
  <2> QED  BY <1>3, <2>5, <2>6 DEF StableParts
<1> QED  BY <1>1, <1>2, <1>4, <1>5 DEF BasePrice, OffPeg

(* A crypto pool is asked one call for each part, in the order of the      *)
(* parts.                                                                  *)
CryptoHead(config) ==
  <<PresentA(config)>> \o Balances(config)
    \o << Call(config.address, "mid_fee", 0), Call(config.address, "out_fee", 0),
          Call(config.address, "fee_gamma", 0), Call(config.address, "D", 0) >>
CryptoHeadParts(config) ==
  <<{PresentA(config)}>> \o [k \in 1..config.coins |-> {Balances(config)[k]}]
    \o << {Call(config.address, "mid_fee", 0)}, {Call(config.address, "out_fee", 0)},
          {Call(config.address, "fee_gamma", 0)}, {Call(config.address, "D", 0)} >>
CryptoHeadGets == {"A", "balances", "balances(int128)", "mid_fee", "out_fee", "fee_gamma", "D"}

LEMMA CryptoHeadLined ==
  ASSUME NEW config, config.coins \in Nat
  PROVE  /\ Lined(CryptoHead(config), CryptoHeadParts(config), CryptoHeadGets, CurveAsked(config))
         /\ Len(CryptoHead(config)) = 5 + config.coins
<1> DEFINE C == CurveAsked(config)
           x == PresentA(config)
           B == Balances(config)
           W == [k \in 1..config.coins |-> {Balances(config)[k]}]
           gets == <<"mid_fee", "out_fee", "fee_gamma", "D">>
           F == [k \in DOMAIN gets |-> Call(config.address, gets[k], 0)]
           P == [k \in DOMAIN gets |-> {Call(config.address, gets[k], 0)}]
<1>1. Lined(<<x>>, <<{x}>>, {"A"}, C)
  <2>1. x \in C /\ x.get \in {"A"}  BY AskedIs, CallIs DEF PresentA, Getter
  <2> HIDE DEF x, C
  <2> QED  BY <2>1, LinedOne
<1>2. Lined(B, W, {"balances", "balances(int128)"}, C) /\ Len(B) = config.coins
  BY BalancesAre
<1>3. gets \in Seq(Getter) /\ Apart(gets) /\ Len(gets) = 4 /\ DOMAIN gets = 1..4
  <2>1. gets \in Seq(Getter)  BY DEF Getter
  <2>2. Len(gets) = 4 /\ DOMAIN gets = 1..4  OBVIOUS
  <2>3. Apart(gets)  BY <2>2 DEF Apart
  <2> QED  BY <2>1, <2>2, <2>3
<1>4. ToSet(gets) = {"mid_fee", "out_fee", "fee_gamma", "D"}
  BY <1>3 DEF ToSet
<1>5. \A k \in DOMAIN gets : Call(config.address, gets[k], 0) \in C
  <2>1. \A k \in DOMAIN gets : gets[k] \in Getter  BY <1>3
  <2> HIDE DEF gets
  <2> QED  BY <2>1, AskedIs
<1>6. Lined(F, P, ToSet(gets), C)
  <2> HIDE DEF gets, C
  <2> QED  BY <1>3, <1>5, LinedOwn
<1>7. /\ F = << Call(config.address, "mid_fee", 0), Call(config.address, "out_fee", 0),
                Call(config.address, "fee_gamma", 0), Call(config.address, "D", 0) >>
      /\ P = << {Call(config.address, "mid_fee", 0)}, {Call(config.address, "out_fee", 0)},
                {Call(config.address, "fee_gamma", 0)}, {Call(config.address, "D", 0)} >>
  OBVIOUS
<1>8. CryptoHead(config) = <<x>> \o B \o F /\ CryptoHeadParts(config) = <<{x}>> \o W \o P
  BY <1>7 DEF CryptoHead, CryptoHeadParts
<1>9. Len(F) = 4  BY <1>7
<1> HIDE DEF C, x, B, W, gets, F, P
<1>10. Lined(<<x>> \o B, <<{x}>> \o W, {"A"} \cup {"balances", "balances(int128)"}, C)
  BY <1>1, <1>2, LinedJoin
<1>11. Lined((<<x>> \o B) \o F, (<<{x}>> \o W) \o P,
             ({"A"} \cup {"balances", "balances(int128)"}) \cup ToSet(gets), C)
  <2>1. ({"A"} \cup {"balances", "balances(int128)"}) \cap ToSet(gets) = {}  BY <1>4
  <2> QED  BY <1>6, <1>10, <2>1, LinedJoin
<1>12. ({"A"} \cup {"balances", "balances(int128)"}) \cup ToSet(gets) = CryptoHeadGets
  BY <1>4 DEF CryptoHeadGets
<1>13. Len((<<x>> \o B) \o F) = 5 + config.coins
  <2>1. <<x>> \in Seq(C) /\ B \in Seq(C) /\ F \in Seq(C)  BY <1>1, <1>2, <1>6 DEF Lined
  <2>2. Len(<<x>>) = 1  OBVIOUS
  <2>3. <<x>> \o B \in Seq(C) /\ Len(<<x>> \o B) = 1 + config.coins
    BY <1>2, <2>1, <2>2, ConcatProperties
  <2> DEFINE q == <<x>> \o B
  <2>4. q \in Seq(C) /\ Len(q) = 1 + config.coins  BY <2>3
  <2> HIDE DEF q
  <2>5. Len(q \o F) = Len(q) + Len(F)  BY <2>1, <2>4, ConcatProperties
  <2>6. Len(q \o F) = 5 + config.coins  BY <1>9, <2>4, <2>5
  <2> QED  BY <2>6 DEF q
<1> QED  BY <1>8, <1>11, <1>12, <1>13 DEF C

(* The last of it: gamma, which one kind lacks, and the scales.            *)
Gamma(config) ==
  IF config.variant = "TwoCryptoStable" THEN <<>> ELSE <<Call(config.address, "gamma", 0)>>
GammaParts(config) ==
  IF config.variant = "TwoCryptoStable" THEN <<>> ELSE <<{Call(config.address, "gamma", 0)}>>
Scales(config) ==
  IF Family(config.variant) = "TwoCrypto" THEN <<Call(config.address, "price_scale", 0)>>
  ELSE <<Call(config.address, "price_scale", 0), Call(config.address, "price_scale", 1)>>
ScaleParts(config) ==
  IF Family(config.variant) = "TwoCrypto" THEN <<{Call(config.address, "price_scale", 0)}>>
  ELSE <<{Call(config.address, "price_scale", 0)}, {Call(config.address, "price_scale", 1)}>>

LEMMA GammaLined ==
  ASSUME NEW config
  PROVE  /\ Lined(Gamma(config), GammaParts(config), {"gamma"}, CurveAsked(config))
         /\ Len(Gamma(config)) = IF config.variant = "TwoCryptoStable" THEN 0 ELSE 1
<1> DEFINE C == CurveAsked(config)
           x == Call(config.address, "gamma", 0)
<1>1. x \in C /\ x.get \in {"gamma"}  BY AskedIs, CallIs DEF Getter
<1>2. CASE config.variant = "TwoCryptoStable"
  <2>1. Gamma(config) = <<>> /\ GammaParts(config) = <<>>  BY <1>2 DEF Gamma, GammaParts
  <2> HIDE DEF C
  <2>2. Lined(<<>>, <<>>, {"gamma"}, C)  BY DEF Lined
  <2> QED  BY <1>2, <2>1, <2>2 DEF C
<1>3. CASE config.variant # "TwoCryptoStable"
  <2>1. Gamma(config) = <<x>> /\ GammaParts(config) = <<{x}>>  BY <1>3 DEF Gamma, GammaParts
  <2>2. Len(<<x>>) = 1  OBVIOUS
  <2> HIDE DEF C, x
  <2>3. Lined(<<x>>, <<{x}>>, {"gamma"}, C)  BY <1>1, LinedOne
  <2> QED  BY <1>3, <2>1, <2>2, <2>3 DEF C
<1> QED  BY <1>2, <1>3

LEMMA ScalesLined ==
  ASSUME NEW config
  PROVE  /\ Lined(Scales(config), ScaleParts(config), {"price_scale"}, CurveAsked(config))
         /\ Len(Scales(config)) = IF Family(config.variant) = "TwoCrypto" THEN 1 ELSE 2
<1> DEFINE C == CurveAsked(config)
           D == SUBSET C
           x == Call(config.address, "price_scale", 0)
           y == Call(config.address, "price_scale", 1)
<1>1. /\ x \in C /\ x.get \in {"price_scale"} /\ y \in C /\ y.get \in {"price_scale"}
      /\ x.arg = 0 /\ y.arg = 1
  BY AskedIs, CallIs DEF Getter
<1>2. CASE Family(config.variant) = "TwoCrypto"
  <2>1. Scales(config) = <<x>> /\ ScaleParts(config) = <<{x}>>  BY <1>2 DEF Scales, ScaleParts
  <2>2. Len(<<x>>) = 1  OBVIOUS
  <2> HIDE DEF C, x
  <2>3. Lined(<<x>>, <<{x}>>, {"price_scale"}, C)  BY <1>1, LinedOne
  <2> QED  BY <1>2, <2>1, <2>2, <2>3 DEF C
<1>3. CASE Family(config.variant) # "TwoCrypto"
  <2>1. Scales(config) = <<x, y>> /\ ScaleParts(config) = <<{x}, {y}>>
    BY <1>3 DEF Scales, ScaleParts
  <2>2. x # y  BY <1>1
  <2>3. {x} \in D /\ {y} \in D  BY <1>1
  <2> HIDE DEF C, D, x, y
  <2>4. <<x, y>> \in Seq(C) /\ Len(<<x, y>>) = 2  BY <1>1
  <2>5. <<{x}, {y}>> \in Seq(D) /\ Len(<<{x}, {y}>>) = 2  BY <2>3
  <2>6. <<x, y>>[1] = x /\ <<x, y>>[2] = y  OBVIOUS
  <2>7. <<{x}, {y}>>[1] = {x} /\ <<{x}, {y}>>[2] = {y}  OBVIOUS
  <2>8. \A k \in 1..2 : k = 1 \/ k = 2  OBVIOUS
  <2>9. Lined(<<x, y>>, <<{x}, {y}>>, {"price_scale"}, C)
    <3>1. <<{x}, {y}>> \in Seq(SUBSET C)  BY <2>5 DEF D
    <3>2. \A j, k \in 1..2 : <<x, y>>[j] = <<x, y>>[k] => j = k
      BY <2>2, <2>6, <2>8
    <3>3. \A k \in 1..2 : <<{x}, {y}>>[k] = {<<x, y>>[k]} /\ <<x, y>>[k].get \in {"price_scale"}
      BY <1>1, <2>6, <2>7, <2>8
    <3> DEFINE s == <<x, y>>
               w == <<{x}, {y}>>
    <3>4. s \in Seq(C) /\ w \in Seq(SUBSET C) /\ Len(s) = 2 /\ Len(w) = 2  BY <2>4, <2>5, <3>1
    <3>5. \A k \in 1..2 : w[k] = {s[k]} /\ s[k].get \in {"price_scale"}  BY <3>3
    <3>6. \A j, k \in 1..2 : s[j] = s[k] => j = k  BY <3>2
    <3> HIDE DEF s, w
    <3>7. Lined(s, w, {"price_scale"}, C)  BY <3>4, <3>5, <3>6 DEF Lined
    <3> QED  BY <3>7 DEF s, w
  <2> QED  BY <1>3, <2>1, <2>4, <2>9 DEF C
<1> QED  BY <1>2, <1>3

CryptoCalls(config) == CryptoHead(config) \o Gamma(config) \o Scales(config)
CryptoParts(config) == CryptoHeadParts(config) \o GammaParts(config) \o ScaleParts(config)
CryptoSize(config) ==
  5 + config.coins + (IF config.variant = "TwoCryptoStable" THEN 0 ELSE 1)
    + (IF Family(config.variant) = "TwoCrypto" THEN 1 ELSE 2)

LEMMA CryptoLined ==
  ASSUME NEW config, config.coins \in Nat
  PROVE  /\ \E G : Lined(CryptoCalls(config), CryptoParts(config), G, CurveAsked(config))
         /\ Len(CryptoCalls(config)) = CryptoSize(config)
<1> DEFINE C == CurveAsked(config)
           a == CryptoHead(config)
           aw == CryptoHeadParts(config)
           b == Gamma(config)
           bw == GammaParts(config)
           c == Scales(config)
           cw == ScaleParts(config)
           G == CryptoHeadGets \cup {"gamma"}
<1>1. Lined(a, aw, CryptoHeadGets, C) /\ Len(a) = 5 + config.coins  BY CryptoHeadLined
<1>2. Lined(b, bw, {"gamma"}, C)  BY GammaLined
<1>3. Lined(c, cw, {"price_scale"}, C)  BY ScalesLined
<1>4. Len(b) = (IF config.variant = "TwoCryptoStable" THEN 0 ELSE 1)  BY GammaLined
<1>5. Len(c) = (IF Family(config.variant) = "TwoCrypto" THEN 1 ELSE 2)  BY ScalesLined
<1>6. CryptoHeadGets \cap {"gamma"} = {} /\ G \cap {"price_scale"} = {}
  BY DEF CryptoHeadGets
<1>7. CryptoCalls(config) = (a \o b) \o c /\ CryptoParts(config) = (aw \o bw) \o cw
  BY DEF CryptoCalls, CryptoParts
<1> HIDE DEF C, a, aw, b, bw, c, cw
<1>8. Lined(a \o b, aw \o bw, G, C)  BY <1>1, <1>2, <1>6, LinedJoin
<1> HIDE DEF G
<1>9. Lined((a \o b) \o c, (aw \o bw) \o cw, G \cup {"price_scale"}, C)
  BY <1>3, <1>6, <1>8, LinedJoin
<1>10. Len((a \o b) \o c) = (5 + config.coins + Len(b)) + Len(c)
  <2>1. a \in Seq(C) /\ b \in Seq(C) /\ c \in Seq(C)  BY <1>1, <1>2, <1>3 DEF Lined
  <2>2. a \o b \in Seq(C) /\ Len(a \o b) = 5 + config.coins + Len(b)
    <3>1. a \o b \in Seq(C) /\ Len(a \o b) = Len(a) + Len(b)
      BY ONLY <2>1, ConcatProperties
    <3> QED  BY <1>1, <3>1
  <2>3. Len((a \o b) \o c) = Len(a \o b) + Len(c)  BY ONLY <2>1, <2>2, ConcatProperties
  <2> QED  BY <2>2, <2>3
<1>11. CryptoSize(config) = (5 + config.coins + Len(b)) + Len(c)
  BY <1>4, <1>5 DEF CryptoSize
<1> QED  BY <1>7, <1>9, <1>10, <1>11 DEF C

LEMMA CryptoCallsAre ==
  ASSUME NEW config, config.coins \in Nat, config.variant \in Variant,
         Family(config.variant) \in {"TwoCrypto", "TriCrypto"}
  PROVE  CurveCalls(config) = CryptoCalls(config)
<1> DEFINE crypto == CryptoHead(config) \o Gamma(config)
           C == CurveAsked(config)
           x == Call(config.address, "price_scale", 0)
           y == Call(config.address, "price_scale", 1)
<1>1. /\ Family(config.variant) = "TwoCrypto" => CurveCalls(config) = Append(crypto, x)
      /\ Family(config.variant) = "TriCrypto" => CurveCalls(config) = crypto \o <<x, y>>
  BY DEF CurveCalls, CryptoHead, Gamma, PresentA
<1>2. /\ Family(config.variant) = "TwoCrypto" => CryptoCalls(config) = crypto \o <<x>>
      /\ Family(config.variant) = "TriCrypto" => CryptoCalls(config) = crypto \o <<x, y>>
  BY DEF CryptoCalls, Scales
<1>3. crypto \in Seq(C) /\ x \in C
  <2> DEFINE a == CryptoHead(config)
             b == Gamma(config)
  <2>1. a \in Seq(C)  BY CryptoHeadLined DEF Lined
  <2>2. b \in Seq(C)  BY GammaLined DEF Lined
  <2>3. x \in C  BY AskedIs DEF Getter
  <2> HIDE DEF a, b, C, x
  <2>4. a \o b \in Seq(C)  BY <2>1, <2>2, ConcatProperties
  <2> QED  BY <2>3, <2>4 DEF a, b
<1> HIDE DEF crypto, C, x, y
<1>4. Append(crypto, x) = crypto \o <<x>>  BY <1>3, AppendIsConcat
<1> QED  BY <1>1, <1>2, <1>4

LEMMA CryptoWanted ==
  ASSUME NEW key, source = "Curve", IsConfig(Configs(key)[1], key),
         Family(Configs(key)[1].variant) \in {"TwoCrypto", "TriCrypto"}
  PROVE  Wanted(key) = CryptoParts(Configs(key)[1])
<1> DEFINE config == Configs(key)[1]
           a == key.address
           own(gets) == [k \in DOMAIN gets |-> {Call(a, gets[k], 0)}]
           balances == [i \in 1..config.coins |-> {Balances(config)[i]}]
           crypto == own(<<"A">>) \o balances \o own(<<"mid_fee", "out_fee", "fee_gamma", "D">>)
                       \o (IF config.variant = "TwoCryptoStable" THEN <<>> ELSE own(<<"gamma">>))
<1>1. config.address = a  BY DEF IsConfig
<1>2. own(<<"A">>) = <<{Call(a, "A", 0)}>>  OBVIOUS
<1>3. own(<<"mid_fee", "out_fee", "fee_gamma", "D">>) =
        << {Call(a, "mid_fee", 0)}, {Call(a, "out_fee", 0)}, {Call(a, "fee_gamma", 0)},
           {Call(a, "D", 0)} >>
  OBVIOUS
<1>4. own(<<"gamma">>) = <<{Call(a, "gamma", 0)}>>  OBVIOUS
<1>5. own(<<"price_scale">>) = <<{Call(a, "price_scale", 0)}>>  OBVIOUS
<1>6. /\ Family(config.variant) = "TwoCrypto" => Wanted(key) = crypto \o own(<<"price_scale">>)
      /\ Family(config.variant) = "TriCrypto" =>
           Wanted(key) = crypto \o << {Call(a, "price_scale", 0)}, {Call(a, "price_scale", 1)} >>
  BY DEF Wanted
<1>7. crypto = CryptoHeadParts(config) \o GammaParts(config)
  BY <1>1, <1>2, <1>3, <1>4 DEF CryptoHeadParts, GammaParts, PresentA
<1> HIDE DEF crypto
<1> QED  BY <1>1, <1>5, <1>6, <1>7 DEF CryptoParts, ScaleParts

-----------------------------------------------------------------------------
(* What comes back and what is made of it. *)

(* r is what calls came back with, of which those at got were answered.    *)
Came(r, calls, got, how) ==
  /\ DOMAIN r = 1..Len(calls) /\ Len(r) = Len(calls) /\ how \in {Empty, Reason}
  /\ \A c \in 1..Len(calls) :
       /\ calls[c] \notin {Empty, Reason, None}
       /\ r[c] = IF c \in got THEN calls[c] ELSE how

Distinct(calls) == \A j, k \in 1..Len(calls) : calls[j] = calls[k] => j = k

Had(calls, got, call) == \E c \in 1..Len(calls) : calls[c] = call /\ c \in got

(* A part is there if one of the calls it may be the answer of was         *)
(* answered, and is then the answer of one of them.                        *)
FitsAt(part, wants, calls, got) ==
  IF \E call \in wants : Had(calls, got, call) THEN part \in wants /\ Decodes(part)
  ELSE ~ Decodes(part)

Fits(needed, wanted, calls, got) ==
  /\ DOMAIN needed = 1..Len(wanted) /\ DOMAIN wanted = 1..Len(wanted)
  /\ Len(needed) = Len(wanted)
  /\ \A k \in 1..Len(wanted) : FitsAt(needed[k], wanted[k], calls, got)

LEMMA ReadCame ==
  ASSUME NEW r, NEW calls, NEW got, NEW how, Came(r, calls, got, how), NEW k \in Nat \ {0},
         Len(calls) \in Nat
  PROVE  Read(r, k) = IF k \in 1..Len(calls) /\ k \in got THEN calls[k] ELSE None
<1>1. CASE k \in 1..Len(calls)
  <2>1. calls[k] \notin {Empty, Reason, None} /\ r[k] = IF k \in got THEN calls[k] ELSE how
    BY <1>1 DEF Came
  <2>2. ~(k > Len(r)) /\ how \in {Empty, Reason}  BY <1>1 DEF Came
  <2> QED  BY <1>1, <2>1, <2>2 DEF Read
<1>2. CASE k \notin 1..Len(calls)
  <2>1. k > Len(r)  BY <1>2 DEF Came
  <2> QED  BY <1>2, <2>1 DEF Read
<1> QED  BY <1>1, <1>2

LEMMA OnePart ==
  ASSUME NEW r, NEW calls, NEW got, NEW how, Came(r, calls, got, how), Distinct(calls),
         NEW k \in 1..Len(calls), NEW part, NEW none \in {Empty, None},
         part = IF k \in got THEN calls[k] ELSE none
  PROVE  FitsAt(part, {calls[k]}, calls, got)
<1>1. Had(calls, got, calls[k]) <=> k \in got  BY DEF Had, Distinct
<1>2. calls[k] \notin {Empty, Reason, None}  BY DEF Came
<1> QED  BY <1>1, <1>2 DEF FitsAt, Decodes

LEMMA AmpPart ==
  ASSUME NEW r, NEW calls, NEW got, NEW how, Came(r, calls, got, how), Distinct(calls),
         Len(calls) \in Nat, 2 <= Len(calls)
  PROVE  /\ FitsAt(Amp(r), {calls[1], calls[2]}, calls, got)
         /\ Had(calls, got, calls[1]) => Amp(r) = calls[1]
<1>0. 1 \in 1..Len(calls) /\ 2 \in 1..Len(calls) /\ 1 \in Nat \ {0} /\ 2 \in Nat \ {0}
  OBVIOUS
<1>1. Had(calls, got, calls[1]) <=> 1 \in got  BY <1>0 DEF Had, Distinct
<1>2. Had(calls, got, calls[2]) <=> 2 \in got  BY <1>0 DEF Had, Distinct
<1>3. calls[1] \notin {Empty, Reason, None} /\ calls[2] \notin {Empty, Reason, None}
  BY <1>0 DEF Came
<1>4. Read(r, 1) = IF 1 \in got THEN calls[1] ELSE None  BY <1>0, ReadCame
<1>5. Read(r, 2) = IF 2 \in got THEN calls[2] ELSE None  BY <1>0, ReadCame
<1>6. Amp(r) = IF 1 \in got THEN calls[1] ELSE IF 2 \in got THEN calls[2] ELSE None
  BY <1>3, <1>4, <1>5 DEF Amp
<1> QED  BY <1>1, <1>2, <1>3, <1>6 DEF FitsAt, Decodes

LEMMA LinedReads ==
  ASSUME NEW calls, NEW wanted, NEW G, NEW C, Lined(calls, wanted, G, C),
         NEW r, NEW got, NEW how, Came(r, calls, got, how)
  PROVE  Fits(Reads(r, 1, Len(calls)), wanted, calls, got)
<1> DEFINE n == Len(calls)
           needed == Reads(r, 1, n)
<1>1. n \in Nat /\ Len(wanted) = n /\ DOMAIN wanted = 1..n
  <2> DEFINE D == SUBSET C
  <2>1. calls \in Seq(C) /\ wanted \in Seq(D) /\ Len(wanted) = n  BY DEF Lined
  <2> HIDE DEF D
  <2> QED  BY <2>1, LenProperties
<1>2. DOMAIN needed = 1..n /\ Len(needed) = n /\ \A k \in 1..n : needed[k] = Read(r, k)
  <2>1. n - 1 + 1 = n /\ \A k \in 1..n : 1 + k - 1 = k  BY <1>1
  <2>2. needed = [k \in 1..n |-> Read(r, 1 + k - 1)]  BY <2>1 DEF Reads
  <2> HIDE DEF needed, n
  <2>3. DOMAIN needed = 1..n /\ \A k \in 1..n : needed[k] = Read(r, k)  BY <2>1, <2>2
  <2>4. Len(needed) = n  BY <1>1, <2>2, <2>3
  <2> QED  BY <2>3, <2>4
<1>3. ASSUME NEW k \in 1..n PROVE FitsAt(needed[k], wanted[k], calls, got)
  <2>1. wanted[k] = {calls[k]} /\ Distinct(calls)  BY DEF Lined, Distinct
  <2>2. k \in Nat \ {0}  BY <1>1
  <2>3. needed[k] = IF k \in got THEN calls[k] ELSE None  BY <1>1, <1>2, <2>2, ReadCame
  <2> DEFINE part == needed[k]
  <2>4. part = (IF k \in got THEN calls[k] ELSE None) /\ None \in {Empty, None}  BY <2>3
  <2> HIDE DEF needed, part
  <2>5. FitsAt(part, {calls[k]}, calls, got)  BY <2>1, <2>4, OnePart
  <2> QED  BY <2>1, <2>5 DEF part
<1> QED  BY <1>1, <1>2, <1>3 DEF Fits

(* What the amplification and the reads from the third on make. *)
LEMMA AmpReads ==
  ASSUME NEW r, NEW last \in Nat, 2 <= last
  PROVE  LET needed == <<Amp(r)>> \o Reads(r, 3, last)
         IN  /\ DOMAIN needed = 1..last - 1 /\ Len(needed) = last - 1
             /\ needed[1] = Amp(r) /\ \A k \in 2..last - 1 : needed[k] = Read(r, k + 1)
<1> DEFINE head == <<Amp(r)>>
           rest == Reads(r, 3, last)
           n == last - 2
           C == {Amp(r)} \cup {Read(r, k) : k \in Nat}
           needed == head \o rest
<1>1. n \in Nat /\ last - 3 + 1 = n /\ 1 + n = last - 1
  OBVIOUS
<1>2. rest = [k \in 1..n |-> Read(r, 3 + k - 1)]
  <2>1. rest = [k \in 1..last - 3 + 1 |-> Read(r, 3 + k - 1)]  BY DEF Reads
  <2>2. last - 3 + 1 = n  OBVIOUS
  <2> HIDE DEF rest, n
  <2> QED  BY <2>1, <2>2
<1>3. \A k \in 1..n : 3 + k - 1 = k + 2 /\ k + 2 \in Nat  OBVIOUS
<1>4. head \in Seq(C) /\ Len(head) = 1 /\ head[1] = Amp(r)  OBVIOUS
<1> HIDE DEF head, rest, n
<1>5. rest \in [1..n -> C] /\ \A k \in 1..n : rest[k] = Read(r, k + 2)  BY <1>2, <1>3
<1>6. rest \in Seq(C) /\ Len(rest) = n
  <2>1. rest \in Seq(C)  BY <1>1, <1>5, SeqDef
  <2>2. DOMAIN rest = 1..n /\ DOMAIN rest = 1..Len(rest) /\ Len(rest) \in Nat
    BY <1>5, <2>1, LenProperties
  <2> QED  BY <1>1, <2>1, <2>2
<1> HIDE DEF C
<1>7. IsJoin(needed, head, rest, 1, n)
  <2>1. IsJoin(head \o rest, head, rest, Len(head), Len(rest))  BY <1>4, <1>6, Joined
  <2> QED  BY <1>4, <1>6, <2>1
<1>8. needed[1] = Amp(r)
  <2>1. 1 \in 1..1  OBVIOUS
  <2> QED  BY <1>4, <1>7, <2>1 DEF IsJoin
<1>9. ASSUME NEW k \in 2..last - 1 PROVE needed[k] = Read(r, k + 1)
  <2>1. k - 1 \in 1..n /\ 1 + (k - 1) = k /\ (k - 1) + 2 = k + 1  BY <1>1
  <2>2. needed[1 + (k - 1)] = rest[k - 1]  BY <1>7, <2>1 DEF IsJoin
  <2>3. rest[k - 1] = Read(r, (k - 1) + 2)  BY <1>5, <2>1
  <2> QED  BY <2>1, <2>2, <2>3
<1>10. DOMAIN needed = 1..last - 1 /\ Len(needed) = last - 1  BY <1>1, <1>7 DEF IsJoin
<1> HIDE DEF needed
<1>11. /\ DOMAIN needed = 1..last - 1 /\ Len(needed) = last - 1
       /\ needed[1] = Amp(r) /\ \A k \in 2..last - 1 : needed[k] = Read(r, k + 1)
  BY <1>8, <1>9, <1>10
<1> QED  BY <1>11 DEF needed, head, rest

(* What a pool may lack is read where it was asked. *)
InPlace(r, calls, got, s, o) ==
  \A k \in 1..Len(o) :
    Read(r, 2 + Len(s) + k) = IF Had(calls, got, o[k]) THEN o[k] ELSE None

LEMMA StablePart ==
  ASSUME NEW calls, NEW wanted, NEW x, NEW y, NEW s, NEW o, Stable(calls, wanted, x, y, s, o),
         NEW r, NEW got, NEW how, Came(r, calls, got, how)
  PROVE  /\ FitsAt(Amp(r), wanted[1], calls, got) /\ (Had(calls, got, x) => Amp(r) = x)
         /\ \A k \in 2..1 + Len(s) : FitsAt(Read(r, k + 1), wanted[k], calls, got)
         /\ InPlace(r, calls, got, s, o)
<1> DEFINE m == Len(s)
           n == Len(o)
<1>1. m \in Nat /\ n \in Nat /\ Len(calls) = 2 + m + n /\ Distinct(calls)
  BY DEF Stable, Distinct
<1>2. Len(calls) \in Nat /\ 2 <= Len(calls)  BY <1>1
<1>3. wanted[1] = {calls[1], calls[2]} /\ calls[1] = x  BY DEF Stable
<1>4. FitsAt(Amp(r), wanted[1], calls, got) /\ (Had(calls, got, x) => Amp(r) = x)
  BY <1>1, <1>2, <1>3, AmpPart
<1>5. ASSUME NEW k \in 2..1 + m PROVE FitsAt(Read(r, k + 1), wanted[k], calls, got)
  <2> DEFINE j == k + 1
             part == Read(r, j)
  <2>1. j \in 1..Len(calls) /\ j \in Nat \ {0}  BY <1>1
  <2>2. wanted[k] = {calls[j]}  BY DEF Stable
  <2> HIDE DEF j
  <2>3. part = (IF j \in got THEN calls[j] ELSE None) /\ None \in {Empty, None}
    BY <1>2, <2>1, ReadCame
  <2> HIDE DEF part
  <2>4. FitsAt(part, {calls[j]}, calls, got)  BY <1>1, <2>1, <2>3, OnePart
  <2> QED  BY <2>2, <2>4 DEF part, j
<1>6. ASSUME NEW k \in 1..n
      PROVE  Read(r, 2 + m + k) = IF Had(calls, got, o[k]) THEN o[k] ELSE None
  <2> DEFINE j == 2 + m + k
  <2>1. j \in 1..Len(calls) /\ j \in Nat \ {0}  BY <1>1
  <2>2. calls[j] = o[k]  BY DEF Stable
  <2> HIDE DEF j
  <2>3. Read(r, j) = (IF j \in got THEN calls[j] ELSE None)  BY <1>2, <2>1, ReadCame
  <2>4. Had(calls, got, calls[j]) <=> j \in got  BY <1>1, <2>1 DEF Had, Distinct
  <2>5. Read(r, j) = IF Had(calls, got, o[k]) THEN o[k] ELSE None  BY <2>2, <2>3, <2>4
  <2> QED  BY <2>5 DEF j
<1>7. InPlace(r, calls, got, s, o)  BY <1>6 DEF InPlace
<1> QED  BY <1>4, <1>5, <1>7

(* A stable pool of its parts; and one of which a part is wanted that      *)
(* nothing answers.                                                        *)
LEMMA StableReads ==
  ASSUME NEW calls, NEW wanted, NEW x, NEW y, NEW s, NEW o, Stable(calls, wanted, x, y, s, o),
         NEW r, NEW got, NEW how, Came(r, calls, got, how)
  PROVE  /\ Fits(<<Amp(r)>> \o Reads(r, 3, 2 + Len(s)), wanted, calls, got)
         /\ (<<Amp(r)>> \o Reads(r, 3, 2 + Len(s)))[1] = Amp(r)
         /\ Had(calls, got, x) => Amp(r) = x
<1> DEFINE m == Len(s)
           needed == <<Amp(r)>> \o Reads(r, 3, 2 + m)
<1>1. m \in Nat /\ Len(wanted) = 1 + m /\ DOMAIN wanted = 1..1 + m  BY DEF Stable
<1>2. 2 + m \in Nat /\ 2 <= 2 + m /\ (2 + m) - 1 = 1 + m  BY <1>1
<1>3. /\ DOMAIN needed = 1..1 + m /\ Len(needed) = 1 + m
      /\ needed[1] = Amp(r) /\ \A k \in 2..1 + m : needed[k] = Read(r, k + 1)
  <2> HIDE DEF m
  <2> QED  BY ONLY <1>2, AmpReads
<1>4. /\ FitsAt(Amp(r), wanted[1], calls, got) /\ (Had(calls, got, x) => Amp(r) = x)
      /\ \A k \in 2..1 + m : FitsAt(Read(r, k + 1), wanted[k], calls, got)
  BY StablePart
<1>5. \A k \in 1..1 + m : k = 1 \/ k \in 2..1 + m  BY <1>1
<1> HIDE DEF needed, m
<1>6. \A k \in 1..1 + m : FitsAt(needed[k], wanted[k], calls, got)  BY <1>3, <1>4, <1>5
<1>7. Fits(needed, wanted, calls, got)  BY <1>1, <1>3, <1>6 DEF Fits
<1> QED  BY <1>3, <1>4, <1>7 DEF needed, m

LEMMA StableLone ==
  ASSUME NEW calls, NEW wanted, NEW x, NEW y, NEW s, NEW o, Stable(calls, wanted, x, y, s, o),
         Len(o) = 0, NEW D, wanted \in Seq(D), {} \in D,
         NEW r, NEW got, NEW how, Came(r, calls, got, how)
  PROVE  /\ Fits(<<Amp(r)>> \o Reads(r, 3, 3 + Len(s)), Append(wanted, {}), calls, got)
         /\ (<<Amp(r)>> \o Reads(r, 3, 3 + Len(s)))[1] = Amp(r)
         /\ Had(calls, got, x) => Amp(r) = x
<1> DEFINE m == Len(s)
           needed == <<Amp(r)>> \o Reads(r, 3, 3 + m)
           more == Append(wanted, {})
<1>1. m \in Nat /\ Len(wanted) = 1 + m /\ Len(calls) = 2 + m  BY DEF Stable
<1>2. 3 + m \in Nat /\ 2 <= 3 + m /\ (3 + m) - 1 = 2 + m  BY <1>1
<1>3. /\ DOMAIN needed = 1..2 + m /\ Len(needed) = 2 + m
      /\ needed[1] = Amp(r) /\ \A k \in 2..2 + m : needed[k] = Read(r, k + 1)
  <2> HIDE DEF m
  <2> QED  BY ONLY <1>2, AmpReads
<1>4. /\ FitsAt(Amp(r), wanted[1], calls, got) /\ (Had(calls, got, x) => Amp(r) = x)
      /\ \A k \in 2..1 + m : FitsAt(Read(r, k + 1), wanted[k], calls, got)
  BY StablePart
<1>5. /\ DOMAIN more = 1..2 + m /\ Len(more) = 2 + m
      /\ \A k \in 1..1 + m : more[k] = wanted[k]
      /\ more[2 + m] = {}
  <2>1. /\ more \in Seq(D) /\ Len(more) = Len(wanted) + 1
        /\ \A k \in 1..Len(wanted) : more[k] = wanted[k]
        /\ more[Len(wanted) + 1] = {}
    BY AppendProperties
  <2> HIDE DEF more, m
  <2>2. Len(wanted) + 1 = 2 + m  BY <1>1
  <2> QED  BY <1>1, <2>1, <2>2, LenProperties
<1>6. FitsAt(Read(r, 3 + m), {}, calls, got)
  <2>1. 3 + m \in Nat \ {0} /\ 3 + m \notin 1..Len(calls) /\ Len(calls) \in Nat  BY <1>1
  <2>2. Read(r, 3 + m) = None
    <3> HIDE DEF m
    <3> QED  BY <2>1, ReadCame
  <2> QED  BY <2>2 DEF FitsAt, Decodes
<1> HIDE DEF needed, more, m
<1>7. \A k \in 1..2 + m : FitsAt(needed[k], more[k], calls, got)
  <2>1. FitsAt(needed[1], more[1], calls, got)
    <3>1. 1 \in 1..1 + m  BY <1>1
    <3> QED  BY <1>3, <1>4, <1>5, <3>1
  <2>2. ASSUME NEW k \in 2..1 + m PROVE FitsAt(needed[k], more[k], calls, got)
    <3>1. k \in 1..1 + m /\ k \in 2..2 + m  BY <1>1
    <3> QED  BY <1>3, <1>4, <1>5, <3>1
  <2>3. FitsAt(needed[2 + m], more[2 + m], calls, got)
    <3>1. 2 + m \in 2..2 + m /\ (2 + m) + 1 = 3 + m  BY <1>1
    <3> QED  BY <1>3, <1>5, <1>6, <3>1
  <2>4. \A k \in 1..2 + m : k = 1 \/ k \in 2..1 + m \/ k = 2 + m  BY <1>1
  <2> QED  BY <2>1, <2>2, <2>3, <2>4
<1>8. Fits(needed, more, calls, got)  BY <1>3, <1>5, <1>7 DEF Fits
<1> QED  BY <1>3, <1>4, <1>8 DEF needed, more, m

LEMMA JoinNone ==
  ASSUME NEW C, NEW s \in Seq(C)
  PROVE  s \o <<>> = s
  OBVIOUS

LEMMA LinedNone == ASSUME NEW C PROVE Lined(<<>>, <<>>, {}, C)
  BY DEF Lined

Regroups(a, s, t, u) == ((a \o s) \o t) \o u = a \o ((s \o t) \o u)

LEMMA Regroup ==
  ASSUME NEW C, NEW a \in Seq(C), NEW s \in Seq(C), NEW t \in Seq(C), NEW u \in Seq(C)
  PROVE  Regroups(a, s, t, u)
<1> DEFINE st == s \o t
<1>1. a \in Seq(C) /\ s \in Seq(C) /\ t \in Seq(C) /\ u \in Seq(C)  OBVIOUS
<1>2. st \in Seq(C)  BY ONLY <1>1, ConcatProperties
<1>3. (a \o s) \o t = a \o st  BY ONLY <1>1, ConcatAssociative
<1>4. (a \o st) \o u = a \o (st \o u)
  <2> HIDE DEF st
  <2> QED  BY ONLY <1>1, <1>2, ConcatAssociative
<1> QED  BY ONLY <1>3, <1>4 DEF Regroups

(* The calls of a stable pool of any family: e for parts it needs beyond   *)
(* the balances, o for what it may lack.                                   *)
StableLines(config, e, ew, o) ==
  /\ Stable((StableCalls(config) \o e) \o o, StableParts(config) \o ew,
            FutureA(config), PresentA(config), FeeAndBalances(config) \o e, o)
  /\ Len(FeeAndBalances(config) \o e) = 1 + config.coins + Len(e)

LEMMA StableFamily ==
  ASSUME NEW config, config.coins \in Nat,
         NEW e, NEW ew, NEW E, Lined(e, ew, E, CurveAsked(config)),
         NEW o, NEW ow, NEW H, Lined(o, ow, H, CurveAsked(config)),
         E \cup H \subseteq {"get_virtual_price", "offpeg_fee_multiplier", "stored_rates"},
         E \cap H = {}
  PROVE  StableLines(config, e, ew, o)
<1> DEFINE C == CurveAsked(config)
           D == SUBSET C
           x == FutureA(config)
           y == PresentA(config)
           s == FeeAndBalances(config)
           w == FeeAndBalanceParts(config)
           F == {"fee"} \cup {"balances", "balances(int128)"}
           head == <<x, y>>
           parts == <<{x, y}>>
<1>1. x \in C /\ y \in C /\ x.get = "future_A" /\ y.get = "A"
  BY AskedIs, CallIs DEF FutureA, PresentA, Getter
<1>2. Lined(s, w, F, C) /\ Len(s) = 1 + config.coins  BY FeeAndBalancesAre
<1>3. F \cap E = {} /\ (F \cup E) \cap H = {} /\ ((F \cup E) \cup H) \cap {"future_A", "A"} = {}
  OBVIOUS
<1>4. Lined(e, ew, E, C) /\ Lined(o, ow, H, C)  OBVIOUS
<1>5. StableCalls(config) = head \o s /\ StableParts(config) = parts \o w
  BY DEF StableCalls, StableParts
<1>6. head \in Seq(C)  BY <1>1
<1>7. parts \in Seq(D)
  <2>1. {x, y} \in D  BY <1>1
  <2> HIDE DEF D, x, y
  <2> QED  BY <2>1
<1> HIDE DEF C, x, y, s, w, F
<1>8. Lined(s \o e, w \o ew, F \cup E, C)  BY <1>2, <1>3, <1>4, LinedJoin
<1>9. Stable(head \o ((s \o e) \o o), parts \o (w \o ew), x, y, s \o e, o)
  <2> DEFINE se == s \o e
             we == w \o ew
             G == F \cup E
  <2>1. Lined(se, we, G, C) /\ G \cap H = {} /\ (G \cup H) \cap {"future_A", "A"} = {}
    BY <1>3, <1>8
  <2> HIDE DEF se, we, G
  <2>2. Stable(head \o (se \o o), parts \o we, x, y, se, o)
    BY <1>1, <1>4, <2>1, StableFits
  <2> QED  BY <2>2 DEF se, we
<1>10. s \in Seq(C) /\ e \in Seq(C) /\ o \in Seq(C) /\ w \in Seq(D) /\ ew \in Seq(D)
  BY <1>2, <1>4 DEF Lined
<1> HIDE DEF D, head, parts
<1>11. ((head \o s) \o e) \o o = head \o ((s \o e) \o o)
  <2>1. Regroups(head, s, e, o)  BY <1>6, <1>10, Regroup
  <2> QED  BY <2>1 DEF Regroups
<1>12. (parts \o w) \o ew = parts \o (w \o ew)
  <2>1. parts \in Seq(D) /\ w \in Seq(D) /\ ew \in Seq(D)  BY <1>7, <1>10
  <2> QED  BY ONLY <2>1, ConcatAssociative
<1>13. Len(s \o e) = 1 + config.coins + Len(e)
  <2>1. Len(s \o e) = Len(s) + Len(e)  BY ONLY <1>10, ConcatProperties
  <2> QED  BY <1>2, <2>1
<1> QED  BY <1>5, <1>9, <1>11, <1>12, <1>13 DEF s, x, y, StableLines

(* A pool made of what its calls came back with: each part it needs is     *)
(* there if it was answered, the finest amplification is preferred, and    *)
(* what it may lack is in its place.                                       *)
OptionalCall(key, k) == Call(key.address, <<"offpeg_fee_multiplier", "stored_rates">>[k], 0)

Made(pool, key, calls, got) ==
  LET finest == Call(key.address, "future_A", 0)
  IN  /\ pool.address = key.address
      /\ Fits(pool.needed, Wanted(key), calls, got)
      /\ finest \in Wanted(key)[1] /\ Had(calls, got, finest) => pool.needed[1] = finest
      /\ \A k \in DOMAIN pool.optional :
           pool.optional[k] = IF Had(calls, got, OptionalCall(key, k))
                              THEN OptionalCall(key, k) ELSE None

LEMMA SnapshotIs ==
  ASSUME NEW address, NEW kind, NEW needed, NEW optional
  PROVE  LET pool == Snapshot(address, kind, needed, optional)
         IN  pool.address = address /\ pool.needed = needed /\ pool.optional = optional
  BY DEF Snapshot

(* Of a stable pool it is enough to know how its parts line up.            *)
LEMMA StableMade ==
  ASSUME NEW key, NEW config, IsConfig(config, key), NEW calls, NEW got, NEW pool,
         NEW amp, pool.address = key.address, pool.needed[1] = amp,
         Fits(pool.needed, Wanted(key), calls, got),
         Had(calls, got, FutureA(config)) => amp = FutureA(config),
         \A k \in DOMAIN pool.optional :
           pool.optional[k] = IF Had(calls, got, OptionalCall(key, k))
                              THEN OptionalCall(key, k) ELSE None
  PROVE  Made(pool, key, calls, got)
  BY DEF Made, IsConfig, FutureA

LEMMA StableSeqs ==
  ASSUME NEW config, config.coins \in Nat
  PROVE  /\ StableCalls(config) \in Seq(CurveAsked(config))
         /\ StableParts(config) \in Seq(SUBSET CurveAsked(config))
<1> DEFINE C == CurveAsked(config)
           D == SUBSET C
           x == FutureA(config)
           y == PresentA(config)
           b == FeeAndBalances(config)
           w == FeeAndBalanceParts(config)
<1>1. b \in Seq(C) /\ w \in Seq(D)  BY FeeAndBalancesAre DEF Lined
<1>2. x \in C /\ y \in C  BY AskedIs DEF FutureA, PresentA, Getter
<1>3. {x, y} \in D  BY <1>2
<1>4. StableCalls(config) = <<x, y>> \o b /\ StableParts(config) = <<{x, y}>> \o w
  BY DEF StableCalls, StableParts
<1>5. <<x, y>> \in Seq(C) /\ <<{x, y}>> \in Seq(D)
  <2> HIDE DEF C, D, x, y
  <2> QED  BY <1>2, <1>3
<1>6. StableCalls(config) \in Seq(C)
  <2> HIDE DEF C, b, x, y
  <2> QED  BY <1>1, <1>4, <1>5, ConcatProperties
<1>7. StableParts(config) \in Seq(D)
  <2> HIDE DEF D, w, x, y
  <2> QED  BY <1>1, <1>4, <1>5, ConcatProperties
<1> QED  BY <1>6, <1>7

(* What a pool may lack, read one by one after the first at. *)
MayLack(pool, key, r, at, o) ==
  \A k \in DOMAIN pool.optional :
    k \in 1..Len(o) /\ o[k] = OptionalCall(key, k) /\ pool.optional[k] = Read(r, at + k)

LEMMA StablePool ==
  ASSUME NEW key, NEW config, IsConfig(config, key),
         NEW e, NEW ew, NEW E, Lined(e, ew, E, CurveAsked(config)),
         NEW o, NEW ow, NEW H, Lined(o, ow, H, CurveAsked(config)),
         E \cup H \subseteq {"get_virtual_price", "offpeg_fee_multiplier", "stored_rates"},
         E \cap H = {},
         NEW calls, calls = (StableCalls(config) \o e) \o o,
         Wanted(key) = StableParts(config) \o ew,
         NEW r, NEW got, NEW how, Came(r, calls, got, how),
         NEW pool, pool.address = key.address,
         pool.needed = <<Amp(r)>> \o Reads(r, 3, 3 + config.coins + Len(e)),
         MayLack(pool, key, r, 3 + config.coins + Len(e), o)
  PROVE  Made(pool, key, calls, got)
<1> DEFINE s == FeeAndBalances(config) \o e
           x == FutureA(config)
           y == PresentA(config)
           wanted == Wanted(key)
<1>0. config.coins \in Nat  BY DEF IsConfig
<1>1. Stable(calls, wanted, x, y, s, o) /\ Len(s) = 1 + config.coins + Len(e)
  <2> DEFINE C == CurveAsked(config)
  <2>1. Lined(e, ew, E, C) /\ Lined(o, ow, H, C)  OBVIOUS
  <2> HIDE DEF C, s, x, y, wanted
  <2>2. StableLines(config, e, ew, o)  BY <1>0, <2>1, StableFamily DEF C
  <2> QED  BY <2>2 DEF StableLines, s, x, y, wanted
<1>2. Len(e) \in Nat  BY LenProperties DEF Lined
<1>3. 2 + Len(s) = 3 + config.coins + Len(e)  BY <1>0, <1>1, <1>2
<1> HIDE DEF s, x, y, wanted
<1>4. /\ Fits(<<Amp(r)>> \o Reads(r, 3, 2 + Len(s)), wanted, calls, got)
      /\ (<<Amp(r)>> \o Reads(r, 3, 2 + Len(s)))[1] = Amp(r)
      /\ Had(calls, got, x) => Amp(r) = x
  BY <1>1, StableReads
<1>5. InPlace(r, calls, got, s, o)  BY <1>1, StablePart
<1>6. Fits(pool.needed, Wanted(key), calls, got) /\ pool.needed[1] = Amp(r)
  BY <1>3, <1>4 DEF wanted
<1>7. \A k \in DOMAIN pool.optional :
        pool.optional[k] = IF Had(calls, got, OptionalCall(key, k))
                           THEN OptionalCall(key, k) ELSE None
  BY <1>3, <1>5 DEF InPlace, MayLack
<1>8. Had(calls, got, FutureA(config)) => Amp(r) = FutureA(config)  BY <1>4 DEF x
<1> QED  BY <1>6, <1>7, <1>8, StableMade

LEMMA LonePool ==
  ASSUME NEW key, NEW config, IsConfig(config, key),
         NEW calls, calls = StableCalls(config),
         Wanted(key) = Append(StableParts(config), {}),
         NEW r, NEW got, NEW how, Came(r, calls, got, how),
         NEW pool, pool.address = key.address, pool.optional = <<>>,
         pool.needed = <<Amp(r)>> \o Reads(r, 3, 4 + config.coins)
  PROVE  Made(pool, key, calls, got)
<1> DEFINE s == FeeAndBalances(config) \o <<>>
           x == FutureA(config)
           y == PresentA(config)
           C == CurveAsked(config)
           D == SUBSET C
           wanted == StableParts(config)
<1>0. config.coins \in Nat  BY DEF IsConfig
<1>1. Stable((StableCalls(config) \o <<>>) \o <<>>, wanted \o <<>>, x, y, s, <<>>)
      /\ Len(s) = 1 + config.coins + Len(<<>>)
  <2> DEFINE e == <<>>
             E == {}
  <2>1. Lined(e, e, E, C) /\ E \cup E = {} /\ E \cap E = {} /\ E \cup E \subseteq
          {"get_virtual_price", "offpeg_fee_multiplier", "stored_rates"}
    BY LinedNone
  <2> HIDE DEF e, E
  <2>2. StableLines(config, e, e, e)  BY <1>0, <2>1, StableFamily
  <2> QED  BY <2>2 DEF e, StableLines
<1>2. StableCalls(config) \in Seq(C) /\ wanted \in Seq(D) /\ {} \in D
  <2>1. {} \in D  OBVIOUS
  <2> QED  BY <1>0, <2>1, StableSeqs
<1> HIDE DEF s, x, y, C, D, wanted
<1>3. Stable(calls, wanted, x, y, s, <<>>) /\ Len(s) = 1 + config.coins
  <2>1. calls \in Seq(C)  BY <1>2
  <2>2. calls \o <<>> = calls  BY <2>1, JoinNone
  <2>3. wanted \o <<>> = wanted  BY <1>2, JoinNone
  <2>4. (StableCalls(config) \o <<>>) \o <<>> = calls  BY <2>2
  <2>5. 1 + config.coins + Len(<<>>) = 1 + config.coins  BY <1>0
  <2> QED  BY <1>1, <2>3, <2>4, <2>5
<1>4. 3 + Len(s) = 4 + config.coins /\ Len(<<>>) = 0  BY <1>0, <1>3
<1>5. /\ Fits(<<Amp(r)>> \o Reads(r, 3, 3 + Len(s)), Append(wanted, {}), calls, got)
      /\ (<<Amp(r)>> \o Reads(r, 3, 3 + Len(s)))[1] = Amp(r)
      /\ Had(calls, got, x) => Amp(r) = x
  BY <1>2, <1>3, <1>4, StableLone
<1>6. Fits(pool.needed, Wanted(key), calls, got) /\ pool.needed[1] = Amp(r)
  BY <1>4, <1>5 DEF wanted
<1>7. Had(calls, got, FutureA(config)) => Amp(r) = FutureA(config)  BY <1>5 DEF x
<1>8. DOMAIN pool.optional = {}  OBVIOUS
<1> QED  BY <1>6, <1>7, <1>8, StableMade

LEMMA CryptoPool ==
  ASSUME NEW key, NEW config, IsConfig(config, key),
         Wanted(key) = CryptoParts(config), NEW calls, calls = CryptoCalls(config),
         NEW r, NEW got, NEW how, Came(r, calls, got, how),
         NEW pool, pool.address = key.address, pool.optional = <<>>,
         pool.needed = Reads(r, 1, CryptoSize(config))
  PROVE  Made(pool, key, calls, got)
<1>0. config.coins \in Nat  BY DEF IsConfig
<1>1. Len(calls) = CryptoSize(config)  BY <1>0, CryptoLined
<1>2. PICK G : Lined(calls, Wanted(key), G, CurveAsked(config))  BY <1>0, CryptoLined
<1>3. Fits(Reads(r, 1, Len(calls)), Wanted(key), calls, got)  BY <1>2, LinedReads
<1>4. Fits(pool.needed, Wanted(key), calls, got)  BY <1>1, <1>3
<1>5. Call(key.address, "future_A", 0) \notin Wanted(key)[1]
  <2> DEFINE C == CurveAsked(config)
             B == Balances(config)
             finest == Call(key.address, "future_A", 0)
             x == PresentA(config)
  <2>0. x \in C /\ "A" # "future_A"  BY AskedIs DEF PresentA, Getter
  <2>1. finest.get = "future_A" /\ x.get = "A"  BY CallIs DEF PresentA
  <2>2. 1 \in 1..Len(calls)  BY <1>0, <1>1 DEF CryptoSize
  <2>3. Wanted(key)[1] = {calls[1]}  BY <1>2, <2>2 DEF Lined
  <2>4. calls[1] = x
    <3> DEFINE a == CryptoHead(config)
               b == Gamma(config)
               c == Scales(config)
               d == << Call(config.address, "mid_fee", 0), Call(config.address, "out_fee", 0),
                       Call(config.address, "fee_gamma", 0), Call(config.address, "D", 0) >>
    <3>1. /\ a \in Seq(C) /\ b \in Seq(C) /\ c \in Seq(C) /\ B \in Seq(C)
          /\ Len(a) = 5 + config.coins
      BY <1>0, CryptoHeadLined, GammaLined, ScalesLined, BalancesAre DEF Lined
    <3>2. d \in Seq(C)
      <4>1. /\ Call(config.address, "mid_fee", 0) \in C /\ Call(config.address, "out_fee", 0) \in C
            /\ Call(config.address, "fee_gamma", 0) \in C /\ Call(config.address, "D", 0) \in C
        BY AskedIs DEF Getter
      <4> HIDE DEF C
      <4> QED  BY <4>1
    <3>3. a = (<<x>> \o B) \o d /\ calls = (a \o b) \o c  BY DEF CryptoHead, CryptoCalls
    <3> HIDE DEF C, a, b, c, d, B, x
    <3>4. <<x>> \in Seq(C) /\ Len(<<x>>) = 1 /\ <<x>>[1] = x  BY <2>0
    <3>5. ASSUME NEW s \in Seq(C), NEW t \in Seq(C), Len(s) # 0
          PROVE  s \o t \in Seq(C) /\ Len(s \o t) # 0 /\ (s \o t)[1] = s[1]
      <4>1. Len(s) \in Nat /\ Len(t) \in Nat  BY <3>5, LenProperties
      <4>2. 1 \in 1..Len(s)  BY <3>5, <4>1
      <4>3. s \o t \in Seq(C) /\ IsJoin(s \o t, s, t, Len(s), Len(t))  BY <3>5, Joined
      <4> HIDE DEF IsJoin
      <4>4. (s \o t)[1] = s[1] /\ Len(s \o t) = Len(s) + Len(t)  BY <4>2, <4>3 DEF IsJoin
      <4> QED  BY <3>5, <4>1, <4>3, <4>4
    <3>6. <<x>> \o B \in Seq(C) /\ Len(<<x>> \o B) # 0 /\ (<<x>> \o B)[1] = x
      BY <3>1, <3>4, <3>5
    <3>7. a[1] = x /\ Len(a) # 0  BY <3>2, <3>3, <3>5, <3>6
    <3>8. a \o b \in Seq(C) /\ Len(a \o b) # 0 /\ (a \o b)[1] = x  BY <3>1, <3>5, <3>7
    <3> QED  BY <3>1, <3>3, <3>5, <3>8
  <2> QED  BY <2>0, <2>1, <2>3, <2>4
<1>6. DOMAIN pool.optional = {}  OBVIOUS
<1> QED  BY <1>4, <1>5, <1>6 DEF Made

(* A Curve pool, of any kind, is made of its parts. *)
LEMMA CurveMade ==
  ASSUME NEW key, source = "Curve", Readable("Curve", key),
         NEW r, NEW got, NEW how, Came(r, CurveCalls(Configs(key)[1]), got, how)
  PROVE  Made(BuildCurve(Configs(key)[1], r), key, CurveCalls(Configs(key)[1]), got)
<1> DEFINE config == Configs(key)[1]
           C == CurveAsked(config)
           n == config.coins
           calls == CurveCalls(config)
           pool == BuildCurve(config, r)
           family == Family(config.variant)
           more == {"get_virtual_price", "offpeg_fee_multiplier", "stored_rates"}
<1>0. IsConfig(config, key)  BY ConfigIs
<1>1. n \in Nat /\ config.variant \in Variant /\ config.address = key.address
  BY <1>0 DEF IsConfig
<1>2. /\ pool.address = key.address
      /\ pool.optional = Optional(config, r)
      /\ family \in {"Plain", "Ng"} => pool.needed = <<Amp(r)>> \o Reads(r, 3, 3 + n)
      /\ family \in {"Meta", "ALend"} => pool.needed = <<Amp(r)>> \o Reads(r, 3, 4 + n)
      /\ family = "TwoCrypto" =>
           pool.needed = Reads(r, 1, 6 + n + (IF config.variant = "TwoCryptoStable" THEN 0 ELSE 1))
      /\ family = "TriCrypto" =>
           pool.needed = Reads(r, 1, 7 + n + (IF config.variant = "TwoCryptoStable" THEN 0 ELSE 1))
  <2> HIDE DEF config
  <2> QED  BY <1>1 DEF BuildCurve, Snapshot
<1>3. Came(r, calls, got, how)  OBVIOUS
<1>4. family \in {"Plain", "Meta", "ALend", "Ng", "TwoCrypto", "TriCrypto"}
  BY <1>1 DEF Variant, Family
<1>5. family # "Ng" => pool.optional = <<>>  BY <1>2 DEF Optional
<1>6. OffPeg(config) \in C /\ Rates(config) \in C /\ BasePrice(config) \in C
  BY AskedIs DEF OffPeg, Rates, BasePrice, Getter
<1>7. /\ OffPeg(config).get = "offpeg_fee_multiplier" /\ Rates(config).get = "stored_rates"
      /\ BasePrice(config).get = "get_virtual_price"
  BY CallIs DEF OffPeg, Rates, BasePrice
<1>8. /\ family = "Plain" => calls = StableCalls(config)
      /\ family = "Meta" =>
           calls = IF config.base = None THEN StableCalls(config)
                   ELSE Append(StableCalls(config), BasePrice(config))
      /\ family = "ALend" => calls = Append(StableCalls(config), OffPeg(config))
      /\ family = "Ng" => calls = StableCalls(config) \o <<OffPeg(config), Rates(config)>>
  BY <1>1, StableCallsAre
<1>9. /\ family \in {"Plain", "Ng"} => Wanted(key) = StableParts(config)
      /\ family = "Meta" =>
           Wanted(key) = Append(StableParts(config), IF config.base = None THEN {}
                                                     ELSE {BasePrice(config)})
      /\ family = "ALend" => Wanted(key) = StableParts(config) \o <<{OffPeg(config)}>>
  BY <1>0, StableWanted
<1>10. StableCalls(config) \in Seq(C) /\ StableParts(config) \in Seq(SUBSET C)
  BY <1>1, StableSeqs
<1>11. \A call \in C : Append(StableCalls(config), call) = StableCalls(config) \o <<call>>
  BY <1>10, AppendIsConcat
<1>12. \A call \in C :
         Append(StableParts(config), {call}) = StableParts(config) \o <<{call}>>
  <2> DEFINE D == SUBSET C
             parts == StableParts(config)
  <2>1. parts \in Seq(D) /\ \A call \in C : {call} \in D  BY <1>10
  <2> HIDE DEF D, parts
  <2>2. \A p \in D : Append(parts, p) = parts \o <<p>>  BY <2>1, AppendIsConcat
  <2> QED  BY <2>1, <2>2 DEF parts
<1>13. /\ StableCalls(config) \o <<>> = StableCalls(config)
       /\ StableParts(config) \o <<>> = StableParts(config)
       /\ \A call \in C : (StableCalls(config) \o <<call>>) \o <<>> = StableCalls(config) \o <<call>>
  <2> DEFINE s == StableCalls(config)
             D == SUBSET C
             w == StableParts(config)
  <2>1. s \in Seq(C) /\ w \in Seq(D)  BY <1>10
  <2> HIDE DEF s, D, w, C
  <2>2. s \o <<>> = s /\ w \o <<>> = w  BY <2>1, JoinNone
  <2>3. ASSUME NEW call \in C PROVE (s \o <<call>>) \o <<>> = s \o <<call>>
    <3>1. <<call>> \in Seq(C)  BY <2>3
    <3>2. s \o <<call>> \in Seq(C)  BY <2>1, <3>1, ConcatProperties
    <3> QED  BY <3>2, JoinNone
  <2> QED  BY <2>2, <2>3 DEF s, w
<1> SUFFICES Made(pool, key, calls, got)
  OBVIOUS
<1> HIDE DEF config, C, n, calls, pool, family, more
<1>15. ASSUME NEW call \in C, call.get \in more, config.base # None \/ family = "ALend",
              calls = Append(StableCalls(config), call),
              Wanted(key) = StableParts(config) \o <<{call}>>, family \in {"Meta", "ALend"}
       PROVE  Made(pool, key, calls, got)
  <2> DEFINE e == <<call>>
             ew == <<{call}>>
             o == <<>>
             E == {call.get}
             H == {}
  <2>1. Lined(e, ew, E, C)
    <3>1. call.get \in E  OBVIOUS
    <3> HIDE DEF E
    <3> QED  BY <1>15, <3>1, LinedOne
  <2>2. Lined(o, o, H, C)  BY LinedNone
  <2>3. E \cup H \subseteq {"get_virtual_price", "offpeg_fee_multiplier", "stored_rates"}
        /\ E \cap H = {}
    BY <1>15 DEF more
  <2>4. calls = (StableCalls(config) \o e) \o o  BY <1>11, <1>13, <1>15
  <2>5. Wanted(key) = StableParts(config) \o ew  BY <1>15
  <2>6. Len(e) = 1 /\ MayLack(pool, key, r, 3 + n + Len(e), o)
    BY <1>5, <1>15 DEF MayLack
  <2>7. pool.needed = <<Amp(r)>> \o Reads(r, 3, 3 + n + Len(e))
    <3>1. 3 + n + Len(e) = 4 + n  BY <1>1, <2>6
    <3> QED  BY <1>2, <1>15, <3>1
  <2> HIDE DEF e, ew, o, E, H
  <2> QED  BY <1>0, <1>2, <1>3, <2>1, <2>2, <2>3, <2>4, <2>5, <2>6, <2>7, StablePool DEF C, n
<1>16. CASE family = "Plain"
  <2> DEFINE o == <<>>
             H == {}
  <2>1. Lined(o, o, H, C) /\ H \cup H \subseteq
          {"get_virtual_price", "offpeg_fee_multiplier", "stored_rates"} /\ H \cap H = {}
    BY LinedNone
  <2>2. calls = (StableCalls(config) \o o) \o o  BY <1>8, <1>13, <1>16
  <2>3. Wanted(key) = StableParts(config) \o o  BY <1>9, <1>13, <1>16
  <2>4. Len(o) = 0 /\ MayLack(pool, key, r, 3 + n + Len(o), o)
    BY <1>5, <1>16 DEF MayLack
  <2>5. pool.needed = <<Amp(r)>> \o Reads(r, 3, 3 + n + Len(o))
    <3>1. 3 + n + Len(o) = 3 + n  BY <1>1, <2>4
    <3> QED  BY <1>2, <1>16, <3>1
  <2> HIDE DEF o, H
  <2> QED  BY <1>0, <1>2, <1>3, <2>1, <2>2, <2>3, <2>4, <2>5, StablePool DEF C, n
<1>17. CASE family = "ALend"
  BY <1>6, <1>7, <1>8, <1>9, <1>15, <1>17 DEF more
<1>18. CASE family = "Meta" /\ config.base # None
  <2>1. Wanted(key) = StableParts(config) \o <<{BasePrice(config)}>>
    BY <1>6, <1>9, <1>12, <1>18
  <2> QED  BY <1>6, <1>7, <1>8, <1>15, <1>18, <2>1 DEF more
<1>19. CASE family = "Meta" /\ config.base = None
  <2>1. calls = StableCalls(config) /\ Wanted(key) = Append(StableParts(config), {})
    BY <1>8, <1>9, <1>19
  <2>2. pool.optional = <<>> /\ pool.needed = <<Amp(r)>> \o Reads(r, 3, 4 + n)
    BY <1>2, <1>5, <1>19
  <2> QED  BY <1>0, <1>2, <1>3, <2>1, <2>2, LonePool DEF n
<1>20. CASE family = "Ng"
  <2> DEFINE e == <<>>
             E == {}
             x == OffPeg(config)
             y == Rates(config)
             o == <<x, y>>
             ow == <<{x}, {y}>>
             H == {"offpeg_fee_multiplier", "stored_rates"}
  <2>1. Lined(e, e, E, C)  BY LinedNone
  <2>2. Lined(o, ow, H, C)
    <3> DEFINE G == {"offpeg_fee_multiplier"}
               I == {"stored_rates"}
    <3>1. x \in C /\ x.get \in G /\ y \in C /\ y.get \in I /\ G \cap I = {} /\ G \cup I = H
      BY <1>6, <1>7
    <3>2. {x} \in SUBSET C /\ {y} \in SUBSET C  BY <3>1
    <3> HIDE DEF G, I, H, x, y, o, ow
    <3>3. Lined(<<x>> \o <<y>>, <<{x}>> \o <<{y}>>, G \cup I, C)
      <4>1. Lined(<<x>>, <<{x}>>, G, C) /\ Lined(<<y>>, <<{y}>>, I, C)  BY <3>1, LinedOne
      <4> QED  BY <3>1, <4>1, LinedJoin
    <3>4. <<x>> \o <<y>> = o  BY <3>1, JoinTwo DEF o
    <3>5. <<{x}>> \o <<{y}>> = ow
      <4> DEFINE D == SUBSET C
                 p == {x}
                 q == {y}
      <4>1. p \in D /\ q \in D  BY <3>2
      <4> HIDE DEF D, p, q
      <4>2. <<p>> \o <<q>> = <<p, q>>  BY <4>1, JoinTwo
      <4> QED  BY <4>2 DEF p, q, ow
    <3> QED  BY <3>1, <3>3, <3>4, <3>5
  <2>3. E \cup H \subseteq {"get_virtual_price", "offpeg_fee_multiplier", "stored_rates"}
        /\ E \cap H = {}
    OBVIOUS
  <2>4. calls = (StableCalls(config) \o e) \o o  BY <1>8, <1>13, <1>20
  <2>5. Wanted(key) = StableParts(config) \o e  BY <1>9, <1>13, <1>20
  <2>6. Len(e) = 0  OBVIOUS
  <2>7. pool.needed = <<Amp(r)>> \o Reads(r, 3, 3 + n + Len(e))
    <3>1. 3 + n + Len(e) = 3 + n  BY <1>1, <2>6
    <3> QED  BY <1>2, <1>20, <3>1
  <2>8. ASSUME NEW k \in DOMAIN pool.optional
        PROVE  /\ k \in 1..Len(o) /\ o[k] = OptionalCall(key, k)
               /\ pool.optional[k] = Read(r, 3 + n + Len(e) + k)
    <3>1. pool.optional = Reads(r, 4 + n, 5 + n)  BY <1>2, <1>20 DEF Optional, family, n
    <3>2. (5 + n) - (4 + n) + 1 = 2  BY <1>1
    <3>3. pool.optional = [i \in 1..2 |-> Read(r, 4 + n + i - 1)]  BY <3>1, <3>2 DEF Reads
    <3>4. k \in 1..2 /\ 4 + n + k - 1 = 3 + n + Len(e) + k  BY <1>1, <2>6, <3>3
    <3>5. pool.optional[k] = Read(r, 3 + n + Len(e) + k)  BY <3>3, <3>4
    <3>6. Len(o) = 2 /\ o[1] = x /\ o[2] = y  OBVIOUS
    <3>7. x = OptionalCall(key, 1) /\ y = OptionalCall(key, 2)
      BY <1>1 DEF OffPeg, Rates, OptionalCall
    <3> HIDE DEF o, x, y
    <3>8. o[k] = OptionalCall(key, k)  BY <3>4, <3>6, <3>7
    <3> QED  BY <3>4, <3>5, <3>6, <3>8
  <2>9. MayLack(pool, key, r, 3 + n + Len(e), o)  BY <2>8 DEF MayLack
  <2> HIDE DEF e, E, o, ow, H
  <2> QED  BY <1>0, <1>2, <1>3, <2>1, <2>2, <2>3, <2>4, <2>5, <2>7, <2>9, StablePool DEF C, n
<1>21. CASE family \in {"TwoCrypto", "TriCrypto"}
  <2>1. calls = CryptoCalls(config)
    BY <1>1, <1>21, CryptoCallsAre DEF calls, family, n
  <2>2. Wanted(key) = CryptoParts(config)  BY <1>0, <1>21, CryptoWanted DEF config, family
  <2>3. pool.needed = Reads(r, 1, CryptoSize(config))
    <3> DEFINE gamma == IF config.variant = "TwoCryptoStable" THEN 0 ELSE 1
    <3>1. CASE family = "TwoCrypto"
      <4>1. CryptoSize(config) = 5 + n + gamma + 1  BY <3>1 DEF CryptoSize, family, n
      <4>2. 5 + n + gamma + 1 = 6 + n + gamma  BY <1>1
      <4> QED  BY <1>2, <3>1, <4>1, <4>2
    <3>2. CASE family = "TriCrypto"
      <4>1. CryptoSize(config) = 5 + n + gamma + 2  BY <3>2 DEF CryptoSize, family, n
      <4>2. 5 + n + gamma + 2 = 7 + n + gamma  BY <1>1
      <4> QED  BY <1>2, <3>2, <4>1, <4>2
    <3> QED  BY <1>21, <3>1, <3>2
  <2>4. pool.optional = <<>>  BY <1>5, <1>21
  <2> QED  BY <1>0, <1>2, <1>3, <2>1, <2>2, <2>3, <2>4, CryptoPool
<1> QED  BY <1>4, <1>16, <1>17, <1>18, <1>19, <1>20, <1>21

(* A pool of Uniswap V2: what came back is what there is of it. *)
LEMMA UniswapV2Made ==
  ASSUME NEW key, source = "UniswapV2",
         NEW r, NEW got, Came(r, CallsOf("UniswapV2", key), got, Empty)
  PROVE  Made(BuildUniswapV2(key, r), key, CallsOf("UniswapV2", key), got)
<1> DEFINE x == Call(key.address, "getReserves", 0)
           calls == <<x>>
           wanted == <<{x}>>
           pool == BuildUniswapV2(key, r)
<1>1. CallsOf("UniswapV2", key) = calls  BY DEF CallsOf
<1>2. Wanted(key) = wanted
  <2>1. Wanted(key) = [k \in DOMAIN <<"getReserves">> |-> {Call(key.address, <<"getReserves">>[k], 0)}]
    BY DEF Wanted
  <2> QED  BY <2>1
<1>3. pool.address = key.address /\ pool.needed = r /\ pool.optional = <<>>
  BY DEF BuildUniswapV2, Snapshot
<1>4. Len(calls) = 1 /\ calls[1] = x /\ Distinct(calls)
  <2>1. Len(calls) = 1 /\ calls[1] = x /\ \A k \in 1..1 : k = 1  OBVIOUS
  <2> HIDE DEF calls
  <2> QED  BY <2>1 DEF Distinct
<1>5. Len(wanted) = 1 /\ DOMAIN wanted = 1..1 /\ wanted[1] = {x}  OBVIOUS
<1>6. x.get # "future_A"  BY CallIs
<1>7. Call(key.address, "future_A", 0).get = "future_A"  BY CallIs
<1> HIDE DEF x, calls, wanted, pool
<1>8. Came(r, calls, got, Empty)  BY <1>1
<1>9. 1 \in 1..Len(calls) /\ DOMAIN r = 1..1 /\ Len(r) = 1
      /\ r[1] = IF 1 \in got THEN calls[1] ELSE Empty
  <2>1. 1 \in 1..Len(calls)  BY <1>4
  <2> QED  BY <1>4, <1>8, <2>1 DEF Came
<1>10. FitsAt(r[1], wanted[1], calls, got)
  <2> DEFINE part == r[1]
  <2>1. part = (IF 1 \in got THEN calls[1] ELSE Empty) /\ Empty \in {Empty, None}  BY <1>9
  <2> HIDE DEF part
  <2>2. FitsAt(part, {calls[1]}, calls, got)  BY <1>4, <1>8, <1>9, <2>1, OnePart
  <2> QED  BY <1>4, <1>5, <2>2 DEF part
<1>11. \A k \in 1..1 : k = 1  OBVIOUS
<1>12. Fits(pool.needed, Wanted(key), calls, got)
  BY <1>2, <1>3, <1>5, <1>9, <1>10, <1>11 DEF Fits
<1>13. Call(key.address, "future_A", 0) \notin Wanted(key)[1]  BY <1>2, <1>5, <1>6, <1>7
<1>14. DOMAIN pool.optional = {}  BY <1>3
<1>15. Made(pool, key, calls, got)  BY <1>3, <1>12, <1>13, <1>14 DEF Made
<1> QED  BY <1>1, <1>15 DEF pool

(* A pool of Aerodrome: the fee is the one that its own flag asks for.     *)
LEMMA AerodromeMade ==
  ASSUME NEW key, source = "Aerodrome", key.assets[1] # key.assets[2],
         NEW r, NEW got, Came(r, CallsOf("Aerodrome", key), got, Empty)
  PROVE  Made(BuildAerodrome(key, r), key, CallsOf("Aerodrome", key), got)
<1> DEFINE c1 == Call(key.address, "getReserves", 0)
           c2 == Call(key.address, "stable", 0)
           c3 == Call(key.assets[1], "decimals", 0)
           c4 == Call(key.assets[2], "decimals", 0)
           c5 == Call(Factory, "getFee", <<key.address, TRUE>>)
           c6 == Call(Factory, "getFee", <<key.address, FALSE>>)
           calls == <<c1, c2, c3, c4, c5, c6>>
           flag == key.address \in StablePools
           f == IF flag THEN 5 ELSE 6
           fee == Call(Factory, "getFee", <<key.address, flag>>)
           p == <<{c1}, {c2}>>
           q == <<{c3}, {c4}, {fee}>>
           wanted == Wanted(key)
           stable == r[2] = Reason \/ flag
           needed == <<r[1], r[2], r[3], r[4], r[IF stable THEN 5 ELSE 6]>>
           pool == BuildAerodrome(key, r)
<1>1. CallsOf("Aerodrome", key) = calls  BY DEF CallsOf, AerodromeCalls
<1>2. wanted = p \o q
  <2> DEFINE gets == <<"getReserves", "stable">>
  <2>1. wanted = [k \in DOMAIN gets |-> {Call(key.address, gets[k], 0)}] \o q
    BY DEF Wanted
  <2>2. [k \in DOMAIN gets |-> {Call(key.address, gets[k], 0)}] = p  OBVIOUS
  <2> QED  BY <2>1, <2>2
<1>3. pool.address = key.address /\ pool.needed = needed /\ pool.optional = <<>>
  BY DEF BuildAerodrome, Snapshot
<1>4. /\ Len(calls) = 6 /\ calls[1] = c1 /\ calls[2] = c2 /\ calls[3] = c3
      /\ calls[4] = c4 /\ calls[5] = c5 /\ calls[6] = c6
  OBVIOUS
<1>5. /\ c1 \notin {c2, c3, c4, c5, c6} /\ c2 \notin {c3, c4, c5, c6}
      /\ c3 \notin {c4, c5, c6} /\ c4 \notin {c5, c6} /\ c5 # c6
  <2>1. /\ c1.get = "getReserves" /\ c2.get = "stable" /\ c3.get = "decimals"
        /\ c4.get = "decimals" /\ c5.get = "getFee" /\ c6.get = "getFee"
    BY CallIs
  <2>2. c3.target = key.assets[1] /\ c4.target = key.assets[2]  BY CallIs
  <2>5. c3 # c4 /\ c5 # c6
    <3> DEFINE t == <<key.address, TRUE>>
               u == <<key.address, FALSE>>
    <3>1. t # u
      <4>1. t = u => TRUE = FALSE  OBVIOUS
      <4> QED  BY <4>1
    <3> HIDE DEF t, u
    <3>2. c5 = Call(Factory, "getFee", t) /\ c6 = Call(Factory, "getFee", u)  BY DEF t, u
    <3>3. Call(Factory, "getFee", t).arg = t /\ Call(Factory, "getFee", u).arg = u  BY CallIs
    <3> HIDE DEF c5, c6
    <3> QED  BY <2>2, <3>1, <3>2, <3>3
  <2> HIDE DEF c1, c2, c3, c4, c5, c6
  <2> QED  BY <2>1, <2>5
<1>6. c1.get # "future_A" /\ Call(key.address, "future_A", 0).get = "future_A"  BY CallIs
<1>7. fee = calls[f] /\ f \in 1..6
  <2>1. CASE flag
    <3>1. fee = c5 /\ f = 5
      <4>1. flag = TRUE  BY <2>1
      <4> QED  BY <4>1
    <3> QED  BY <1>4, <3>1
  <2>2. CASE ~flag
    <3>1. fee = c6 /\ f = 6
      <4>1. flag = FALSE  BY <2>2
      <4> QED  BY <4>1
    <3> QED  BY <1>4, <3>1
  <2> QED  BY <2>1, <2>2
<1>8. /\ DOMAIN needed = 1..5 /\ Len(needed) = 5 /\ needed[1] = r[1] /\ needed[2] = r[2]
      /\ needed[3] = r[3] /\ needed[4] = r[4] /\ needed[5] = r[IF stable THEN 5 ELSE 6]
  OBVIOUS
<1>9. /\ DOMAIN wanted = 1..5 /\ Len(wanted) = 5 /\ wanted[1] = {c1} /\ wanted[2] = {c2}
      /\ wanted[3] = {c3} /\ wanted[4] = {c4} /\ wanted[5] = {fee}
  <2> DEFINE D == SUBSET {c1, c2, c3, c4, fee}
             s1 == {c1}
             s2 == {c2}
             s3 == {c3}
             s4 == {c4}
             s5 == {fee}
  <2>1. s1 \in D /\ s2 \in D /\ s3 \in D /\ s4 \in D /\ s5 \in D  OBVIOUS
  <2>2. p = <<s1, s2>> /\ q = <<s3, s4, s5>>  OBVIOUS
  <2> HIDE DEF D, s1, s2, s3, s4, s5, p, q, wanted
  <2>3. p \in Seq(D) /\ q \in Seq(D)  BY <2>1, <2>2
  <2>4. Len(p) = 2 /\ Len(q) = 3  BY <2>2
  <2>5. p[1] = s1 /\ p[2] = s2 /\ q[1] = s3 /\ q[2] = s4 /\ q[3] = s5  BY <2>2
  <2>6. IsJoin(wanted, p, q, 2, 3)
    <3>1. IsJoin(p \o q, p, q, Len(p), Len(q))  BY <2>3, Joined
    <3> QED  BY <1>2, <2>4, <3>1
  <2>7. /\ 1 \in 1..2 /\ 2 \in 1..2 /\ 1 \in 1..3 /\ 2 \in 1..3 /\ 3 \in 1..3
        /\ 2 + 1 = 3 /\ 2 + 2 = 4 /\ 2 + 3 = 5
    OBVIOUS
  <2>8. wanted[1] = s1 /\ wanted[2] = s2  BY <2>5, <2>6, <2>7 DEF IsJoin
  <2>9. wanted[2 + 1] = s3 /\ wanted[2 + 2] = s4 /\ wanted[2 + 3] = s5
    BY <2>5, <2>6, <2>7 DEF IsJoin
  <2>10. DOMAIN wanted = 1..5 /\ Len(wanted) = 5  BY <2>6, <2>7 DEF IsJoin
  <2> QED  BY <2>7, <2>8, <2>9, <2>10 DEF s1, s2, s3, s4, s5
<1> HIDE DEF c1, c2, c3, c4, c5, c6, calls, fee, p, q, wanted, needed, pool, flag
<1>10. Came(r, calls, got, Empty)  BY <1>1
<1>11. Distinct(calls)
  <2>1. \A k \in 1..6 : k \in {1, 2, 3, 4, 5, 6}  OBVIOUS
  <2> QED  BY <1>4, <1>5, <2>1 DEF Distinct
<1>12. ASSUME NEW c \in 1..6 PROVE FitsAt(r[c], {calls[c]}, calls, got)
  <2> DEFINE part == r[c]
  <2>1. c \in 1..Len(calls)  BY <1>4
  <2>2. part = (IF c \in got THEN calls[c] ELSE Empty) /\ Empty \in {Empty, None}
    BY <1>10, <2>1 DEF Came
  <2> HIDE DEF part
  <2>3. FitsAt(part, {calls[c]}, calls, got)  BY <1>10, <1>11, <2>1, <2>2, OnePart
  <2> QED  BY <2>3 DEF part
<1>13. r[2] # Reason
  <2>1. 2 \in 1..Len(calls)  BY <1>4
  <2>2. calls[2] # Reason /\ r[2] \in {calls[2], Empty}  BY <1>10, <2>1 DEF Came
  <2> QED  BY <2>2, ReserveSourcesAssumption
<1>14. (IF stable THEN 5 ELSE 6) = f  BY <1>13
<1> HIDE DEF f, stable
<1>15. FitsAt(needed[5], wanted[5], calls, got)  BY <1>7, <1>8, <1>9, <1>12, <1>14
<1>16. /\ FitsAt(needed[1], wanted[1], calls, got) /\ FitsAt(needed[2], wanted[2], calls, got)
       /\ FitsAt(needed[3], wanted[3], calls, got) /\ FitsAt(needed[4], wanted[4], calls, got)
  <2>1. 1 \in 1..6 /\ 2 \in 1..6 /\ 3 \in 1..6 /\ 4 \in 1..6  OBVIOUS
  <2> QED  BY <1>4, <1>8, <1>9, <1>12, <2>1
<1>17. \A k \in 1..5 : k \in {1, 2, 3, 4, 5}  OBVIOUS
<1>18. \A k \in 1..5 : FitsAt(needed[k], wanted[k], calls, got)  BY <1>15, <1>16, <1>17
<1>19. Fits(pool.needed, Wanted(key), calls, got)
  <2>1. Fits(needed, wanted, calls, got)  BY <1>8, <1>9, <1>18 DEF Fits
  <2> QED  BY <1>3, <2>1 DEF wanted
<1>20. Call(key.address, "future_A", 0) \notin Wanted(key)[1]  BY <1>6, <1>9 DEF wanted
<1>21. DOMAIN pool.optional = {}  BY <1>3
<1>22. Made(pool, key, calls, got)  BY <1>3, <1>19, <1>20, <1>21 DEF Made
<1> QED  BY <1>1, <1>22 DEF pool

-----------------------------------------------------------------------------
(* The batch: which keys are read, and where the results of each are. *)

(* Where the results of each start is where those before them end.         *)
LEMMA StartsAre ==
  ASSUME NEW calls, NEW n \in Nat, DOMAIN calls = 1..n, \A i \in 1..n : Len(calls[i]) \in Nat
  PROVE  /\ n # 0 => Starts(calls)[1] = 0
         /\ \A i \in 1..n - 1 : Starts(calls)[i + 1] = Starts(calls)[i] + Len(calls[i])
<1> DEFINE Is(f) == f = [i \in 1..n |-> IF i = 1 THEN 0 ELSE f[i - 1] + Len(calls[i - 1])]
<1>0. CASE n = 0
  <2>1. \A i \in 1..n - 1 : FALSE  BY <1>0
  <2> QED  BY <1>0, <2>1
<1>1. CASE n # 0
  <2> DEFINE m == n - 1
             step == [i \in 1..m |-> [x \in Nat |-> x + Len(calls[i])]]
  <2>0. m \in Nat /\ 1 \in 1..n /\ \A i \in 1..m : i \in 1..n /\ Len(calls[i]) \in Nat
    BY <1>1
  <2>1. PICK g : Climbs(g, m, Nat, 0, step)
    <3>1. step \in [1..m -> [Nat -> Nat]]  BY <2>0
    <3>2. 0 \in Nat  OBVIOUS
    <3> HIDE DEF step, m
    <3> QED  BY <2>0, <3>1, <3>2, RecursionUp
  <2>2. ASSUME NEW i \in 1..m PROVE g[i] = g[i - 1] + Len(calls[i])
    <3>1. \A x \in Nat : step[i][x] = x + Len(calls[i])  OBVIOUS
    <3> HIDE DEF step, m
    <3>2. i - 1 \in 0..m  BY <2>0
    <3>3. g[i] = step[i][g[i - 1]]  BY <2>1 DEF Climbs
    <3>4. g[i - 1] \in Nat  BY <2>1, <3>2 DEF Climbs
    <3> QED  BY <3>1, <3>3, <3>4
  <2>3. \E f : Is(f)
    <3> DEFINE f == [i \in 1..n |-> g[i - 1]]
    <3>1. \A i \in 1..n : f[i] = IF i = 1 THEN 0 ELSE f[i - 1] + Len(calls[i - 1])
      <4> SUFFICES ASSUME NEW i \in 1..n
                   PROVE  f[i] = IF i = 1 THEN 0 ELSE f[i - 1] + Len(calls[i - 1])
        OBVIOUS
      <4>1. CASE i = 1
        <5>1. f[1] = g[0] /\ g[0] = 0  BY <2>0, <2>1 DEF Climbs
        <5> QED  BY <4>1, <5>1
      <4>2. CASE i # 1
        <5>1. i - 1 \in 1..m /\ i - 1 \in 1..n  BY <2>0, <4>2
        <5>2. g[i - 1] = g[i - 1 - 1] + Len(calls[i - 1])  BY <2>2, <5>1
        <5>3. f[i] = g[i - 1] /\ f[i - 1] = g[i - 1 - 1]  BY <5>1
        <5> HIDE DEF f
        <5> QED  BY <4>2, <5>2, <5>3
      <4> QED  BY <4>1, <4>2
    <3>2. f = [i \in 1..n |-> f[i]]  OBVIOUS
    <3> HIDE DEF f
    <3>3. Is(f)  BY <3>1, <3>2
    <3> HIDE DEF Is
    <3> QED  BY <3>3
  <2> DEFINE start == CHOOSE f : Is(f)
  <2>4. Is(start)  BY <2>3
  <2>5. Starts(calls) = start  BY DEF Starts
  <2> HIDE DEF start
  <2>6. start[1] = 0  BY <2>0, <2>4
  <2>7. ASSUME NEW i \in 1..n - 1 PROVE start[i + 1] = start[i] + Len(calls[i])
    <3>1. i + 1 \in 1..n /\ i + 1 # 1 /\ (i + 1) - 1 = i  BY <2>0
    <3> QED  BY <2>4, <3>1
  <2> QED  BY <2>5, <2>6, <2>7
<1> QED  BY <1>0, <1>1

LEMMA CallsAre ==
  ASSUME NEW from \in {"UniswapV2", "Aerodrome", "Curve"}, NEW key, Readable(from, key)
  PROVE  /\ DOMAIN CallsOf(from, key) = 1..Len(CallsOf(from, key))
         /\ Len(CallsOf(from, key)) \in Nat
<1>1. CASE from = "UniswapV2"
  <2>1. CallsOf(from, key) = <<Call(key.address, "getReserves", 0)>>  BY <1>1 DEF CallsOf
  <2> QED  BY <2>1
<1>2. CASE from = "Aerodrome"
  <2>1. CallsOf(from, key) = AerodromeCalls(key)  BY <1>2 DEF CallsOf
  <2>2. AerodromeCalls(key) =
          << AerodromeCalls(key)[1], AerodromeCalls(key)[2], AerodromeCalls(key)[3],
             AerodromeCalls(key)[4], AerodromeCalls(key)[5], AerodromeCalls(key)[6] >>
    BY DEF AerodromeCalls
  <2>3. DOMAIN AerodromeCalls(key) = 1..6 /\ Len(AerodromeCalls(key)) = 6  BY <2>2
  <2> QED  BY <2>1, <2>3
<1>3. CASE from = "Curve"
  <2> DEFINE config == Configs(key)[1]
             C == CurveAsked(config)
             calls == CurveCalls(config)
             family == Family(config.variant)
  <2>1. config.coins \in Nat /\ config.variant \in Variant
    BY <1>3, ConfigIs DEF IsConfig
  <2>2. family \in {"Plain", "Meta", "ALend", "Ng", "TwoCrypto", "TriCrypto"}
    BY <2>1 DEF Variant, Family
  <2>3. StableCalls(config) \in Seq(C)  BY <2>1, StableSeqs
  <2>4. /\ BasePrice(config) \in C /\ OffPeg(config) \in C /\ Rates(config) \in C
        /\ \A x, y \in C : <<x, y>> \in Seq(C)
    BY AskedIs DEF BasePrice, OffPeg, Rates, Getter
  <2>5. CASE family \in {"TwoCrypto", "TriCrypto"}
    <3>1. calls = CryptoCalls(config)  BY <2>1, <2>5, CryptoCallsAre
    <3>2. CryptoCalls(config) \in Seq(C)  BY <2>1, CryptoLined DEF Lined
    <3>3. calls \in Seq(C)  BY <3>1, <3>2
    <3>4. CallsOf(from, key) = calls  BY <1>3 DEF CallsOf
    <3> HIDE DEF C, calls
    <3> QED  BY <3>3, <3>4, LenProperties
  <2>6. CASE family \in {"Plain", "Meta", "ALend", "Ng"}
    <3>1. calls \in Seq(C)
      <4>1. /\ family = "Plain" => calls = StableCalls(config)
            /\ family = "Meta" =>
                 calls = IF config.base = None THEN StableCalls(config)
                         ELSE Append(StableCalls(config), BasePrice(config))
            /\ family = "ALend" => calls = Append(StableCalls(config), OffPeg(config))
            /\ family = "Ng" => calls = StableCalls(config) \o <<OffPeg(config), Rates(config)>>
        BY <2>1, StableCallsAre
      <4> DEFINE s == StableCalls(config)
      <4>2. Append(s, BasePrice(config)) \in Seq(C) /\ Append(s, OffPeg(config)) \in Seq(C)
        <5> HIDE DEF C, s
        <5> QED  BY <2>3, <2>4, AppendProperties DEF s
      <4>3. s \o <<OffPeg(config), Rates(config)>> \in Seq(C)
        <5> HIDE DEF C, s
        <5> QED  BY <2>3, <2>4, ConcatProperties DEF s
      <4> HIDE DEF C, calls, family
      <4> QED  BY <2>3, <2>6, <4>1, <4>2, <4>3
    <3>2. CallsOf(from, key) = calls  BY <1>3 DEF CallsOf
    <3> HIDE DEF C, calls
    <3> QED  BY <3>1, <3>2, LenProperties
  <2> QED  BY <2>2, <2>5, <2>6
<1> QED  BY <1>1, <1>2, <1>3

(* The plans of a refresh. *)
Laid(P, from, keys) ==
  /\ DOMAIN P = 1..Len(P) /\ Len(P) \in Nat
  /\ \A i \in 1..Len(P) :
       /\ P[i].key \in ToSet(keys) /\ Readable(from, P[i].key)
       /\ P[i].calls = CallsOf(from, P[i].key)
       /\ DOMAIN P[i].calls = 1..Len(P[i].calls) /\ Len(P[i].calls) \in Nat
  /\ Len(P) # 0 => P[1].start = 0
  /\ \A i \in 1..Len(P) - 1 : P[i + 1].start = P[i].start + Len(P[i].calls)

LEMMA PlansAre ==
  ASSUME NEW from \in {"UniswapV2", "Aerodrome", "Curve"}, NEW keys, keys \in Seq(ToSet(keys))
  PROVE  Laid(Plans(from, keys), from, keys)
<1> DEFINE S == {key \in ToSet(keys) : Readable(from, key)}
           kept == Passing(keys, S)
           n == Len(kept)
           calls == [i \in DOMAIN kept |-> CallsOf(from, kept[i])]
           P == Plans(from, keys)
           starts == Starts(calls)
<1>1. kept \in Seq(ToSet(keys)) /\ \E at : Picks(kept, keys, S, Len(keys), at)
  BY PassingPicks
<1>2. n \in Nat /\ DOMAIN kept = 1..n /\ \A i \in 1..n : kept[i] \in S
  <2> HIDE DEF kept, S
  <2>1. n \in Nat /\ DOMAIN kept = 1..n  BY <1>1, LenProperties
  <2>2. \A i \in 1..n : kept[i] \in S
    <3>1. PICK at : Picks(kept, keys, S, Len(keys), at)  BY <1>1
    <3> QED  BY <3>1 DEF Picks
  <2> QED  BY <2>1, <2>2
<1>3. P = [i \in 1..n |-> [key |-> kept[i], calls |-> calls[i], start |-> starts[i]]]
  BY <1>2 DEF Plans
<1>4. \A i \in 1..n : calls[i] = CallsOf(from, kept[i])  BY <1>2
<1>5. DOMAIN calls = 1..n  BY <1>2
<1>6. \A i \in 1..n : kept[i] \in ToSet(keys) /\ Readable(from, kept[i])  BY <1>2
<1> HIDE DEF S, kept, n, calls, P, starts
<1>7. \A i \in 1..n : DOMAIN calls[i] = 1..Len(calls[i]) /\ Len(calls[i]) \in Nat
  BY <1>4, <1>6, CallsAre
<1>8. /\ n # 0 => starts[1] = 0
      /\ \A i \in 1..n - 1 : starts[i + 1] = starts[i] + Len(calls[i])
  BY <1>2, <1>5, <1>7, StartsAre DEF starts
<1>9. /\ DOMAIN P = 1..n /\ Len(P) = n
      /\ \A i \in 1..n : P[i].key = kept[i] /\ P[i].calls = calls[i] /\ P[i].start = starts[i]
  <2>1. DOMAIN P = 1..n  BY <1>3
  <2>2. Len(P) = n  BY <1>2, <1>3
  <2> QED  BY <1>3, <2>1, <2>2
<1>10. \A i \in 1..n : /\ P[i].key \in ToSet(keys) /\ Readable(from, P[i].key)
                       /\ P[i].calls = CallsOf(from, P[i].key)
                       /\ DOMAIN P[i].calls = 1..Len(P[i].calls) /\ Len(P[i].calls) \in Nat
  BY <1>4, <1>6, <1>7, <1>9
<1>11. n # 0 => P[1].start = 0
  <2>1. n # 0 => 1 \in 1..n  BY <1>2
  <2> QED  BY <1>8, <1>9, <2>1
<1>12. \A i \in 1..n - 1 : P[i + 1].start = P[i].start + Len(P[i].calls)
  <2>1. \A i \in 1..n - 1 : i \in 1..n /\ i + 1 \in 1..n  BY <1>2
  <2> QED  BY <1>8, <1>9, <2>1
<1>13. Laid(P, from, keys)  BY <1>2, <1>9, <1>10, <1>11, <1>12 DEF Laid
<1> QED  BY <1>13 DEF P

(* What comes back for one key is what its own calls were answered.        *)
LEMMA SliceIs ==
  ASSUME NEW from, NEW keys, Laid(plans, from, keys), NEW failed, NEW how, NEW i \in 1..Len(plans)
  PROVE  LET r == Slice(plans[i], Results(failed, how))
             calls == plans[i].calls
         IN  /\ DOMAIN r = 1..Len(calls) /\ Len(r) = Len(calls)
             /\ \A c \in 1..Len(calls) :
                  r[c] = IF <<i, c>> \in failed \/ calls[c] \in Absent THEN how ELSE calls[c]
<1> DEFINE N == Len(plans)
           Row(j) == [c \in DOMAIN plans[j].calls |->
                        IF <<j, c>> \in failed \/ plans[j].calls[c] \in Absent THEN how
                        ELSE plans[j].calls[c]]
           seqs == [j \in DOMAIN plans |-> Row(j)]
           D == UNION {{Row(j)[c] : c \in 1..Len(plans[j].calls)} : j \in 1..N}
           start == [j \in 1..N |-> plans[j].start]
           F == FlattenSeq(seqs)
           r == Slice(plans[i], Results(failed, how))
           calls == plans[i].calls
           n == Len(calls)
           u == plans[i].start
<1>1. /\ DOMAIN plans = 1..N /\ N \in Nat
      /\ \A j \in 1..N : DOMAIN plans[j].calls = 1..Len(plans[j].calls)
                         /\ Len(plans[j].calls) \in Nat
      /\ N # 0 => plans[1].start = 0
      /\ \A j \in 1..N - 1 : plans[j + 1].start = plans[j].start + Len(plans[j].calls)
  BY DEF Laid
<1>2. Results(failed, how) = F  BY DEF Results
<1>3. \A j \in 1..N : Row(j) \in Seq(D) /\ Len(Row(j)) = Len(plans[j].calls)
  <2> SUFFICES ASSUME NEW j \in 1..N
               PROVE Row(j) \in Seq(D) /\ Len(Row(j)) = Len(plans[j].calls)
    OBVIOUS
  <2> DEFINE m == Len(plans[j].calls)
             row == Row(j)
  <2>1. row = [c \in 1..m |-> row[c]] /\ DOMAIN row = 1..m /\ m \in Nat  BY <1>1
  <2>2. \A c \in 1..m : row[c] \in D  OBVIOUS
  <2> HIDE DEF D, m, row
  <2>3. row \in [1..m -> D]  BY <2>1, <2>2
  <2>4. row \in Seq(D)  BY <2>1, <2>3, SeqDef
  <2>5. Len(row) = m  BY <2>1, <2>4, LenProperties
  <2> QED  BY <2>4, <2>5 DEF row, m
<1>4. seqs \in Seq(Seq(D)) /\ Len(seqs) = N
  <2>1. DOMAIN seqs = 1..N /\ \A j \in 1..N : seqs[j] \in Seq(D)  BY <1>1, <1>3
  <2>2. seqs = [j \in 1..N |-> seqs[j]]  BY <1>1
  <2> DEFINE T == Seq(D)
  <2> HIDE DEF seqs, T, D
  <2>3. seqs \in [1..N -> T]  BY <2>1, <2>2 DEF T
  <2>4. seqs \in Seq(T)  BY <1>1, <2>3, SeqDef
  <2>5. Len(seqs) = N  BY <1>1, <2>1, <2>4, LenProperties
  <2> QED  BY <2>4, <2>5 DEF T
<1>5. \A j \in 1..N : seqs[j] = Row(j) /\ start[j] = plans[j].start  BY <1>1
<1>6. Offsets(start, seqs)
  <2>1. N # 0 => 1 \in 1..N  BY <1>1
  <2>2. \A j \in 1..N - 1 : j \in 1..N /\ j + 1 \in 1..N  BY <1>1
  <2>3. \A j \in 1..N : Len(seqs[j]) = Len(plans[j].calls)  BY <1>3, <1>5
  <2> HIDE DEF seqs, start, Row
  <2> QED  BY <1>1, <1>4, <1>5, <2>1, <2>2, <2>3 DEF Offsets
<1>7. N # 0 /\ i \in 1..N  OBVIOUS
<1>8. Puts(F, seqs, start, N)
  <2> HIDE DEF N, D, seqs, start
  <2> QED  BY <1>4, <1>6, <1>7, FlattenAt
<1>9. /\ u \in Nat /\ n \in Nat /\ u + n <= Len(F)
      /\ \A c \in 1..n : F[u + c] = Row(i)[c]
  <2>1. /\ start[i] \in Nat /\ start[i] + Len(seqs[i]) <= Len(F)
        /\ \A c \in 1..Len(seqs[i]) : F[start[i] + c] = seqs[i][c]
    BY <1>7, <1>8 DEF Puts
  <2>2. start[i] = u /\ seqs[i] = Row(i) /\ Len(seqs[i]) = n /\ n \in Nat
    BY <1>1, <1>3, <1>5, <1>7
  <2> DEFINE at == start[i]
             seq == seqs[i]
  <2>3. /\ at \in Nat /\ at + Len(seq) <= Len(F)
        /\ \A c \in 1..Len(seq) : F[at + c] = seq[c]
    BY <2>1
  <2>4. at = u /\ seq = Row(i) /\ Len(seq) = n /\ n \in Nat  BY <2>2
  <2> HIDE DEF F, u, n, at, seq, Row
  <2> QED  BY ONLY <2>3, <2>4
<1>10. r = SubSeq(F, u + 1, u + n)  BY <1>2 DEF Slice
<1>11. \A c \in 1..n :
         Row(i)[c] = IF <<i, c>> \in failed \/ calls[c] \in Absent THEN how ELSE calls[c]
  BY <1>1, <1>7
<1> HIDE DEF N, F, r, u, n, Row, seqs, start, D, calls
<1>12. r = [c \in 1..n |-> F[u + c]]
  <2>1. SubSeq(F, u + 1, u + n) = [c \in 1..(1 + (u + n) - (u + 1)) |-> F[c + (u + 1) - 1]]
    BY <1>9
  <2>2. 1 + (u + n) - (u + 1) = n  BY <1>9
  <2>3. \A c \in 1..n : c + (u + 1) - 1 = u + c  BY <1>9
  <2> QED  BY <1>10, <2>1, <2>2, <2>3
<1>13. DOMAIN r = 1..n /\ Len(r) = n /\ \A c \in 1..n : r[c] = F[u + c]
  <2>1. DOMAIN r = 1..n /\ \A c \in 1..n : r[c] = F[u + c]  BY <1>12
  <2>2. Len(r) = n  BY <1>9, <1>12
  <2> QED  BY <2>1, <2>2
<1>14. /\ DOMAIN r = 1..n /\ Len(r) = n
       /\ \A c \in 1..n :
            r[c] = IF <<i, c>> \in failed \/ calls[c] \in Absent THEN how ELSE calls[c]
  BY <1>9, <1>11, <1>13
<1> QED  BY <1>14 DEF r, n, calls

-----------------------------------------------------------------------------
(* What refresh() returns. *)

(* The plans are of a request, and what was built of what came back.       *)
Asked(asked) ==
  /\ asked \in Requests /\ source = asked.source /\ plans = Plans(source, asked.keys)

LEMMA AskedLaid ==
  ASSUME NEW asked, Asked(asked)
  PROVE  /\ source \in {"UniswapV2", "Aerodrome", "Curve"}
         /\ Laid(plans, source, asked.keys)
<1>1. source \in {"UniswapV2", "Aerodrome", "Curve"} /\ asked.keys \in Seq(ToSet(asked.keys))
  BY ReserveSourcesAssumption DEF Asked
<1>2. Laid(Plans(source, asked.keys), source, asked.keys)  BY <1>1, PlansAre
<1> QED  BY <1>1, <1>2 DEF Asked

(* The calls of a key that were answered, by position. *)
Got(i, failed) ==
  {c \in 1..Len(plans[i].calls) : <<i, c>> \notin failed /\ plans[i].calls[c] \notin Absent}

LEMMA SliceCame ==
  ASSUME NEW asked, Asked(asked), NEW failed, NEW how \in Reverts, NEW i \in 1..Len(plans)
  PROVE  Came(Slice(plans[i], Results(failed, how)), plans[i].calls, Got(i, failed), how)
<1> DEFINE r == Slice(plans[i], Results(failed, how))
           calls == plans[i].calls
<1>1. Laid(plans, source, asked.keys)  BY AskedLaid
<1>2. /\ DOMAIN r = 1..Len(calls) /\ Len(r) = Len(calls)
      /\ \A c \in 1..Len(calls) :
           r[c] = IF <<i, c>> \in failed \/ calls[c] \in Absent THEN how ELSE calls[c]
  BY <1>1, SliceIs
<1>3. /\ plans[i].key \in ToSet(asked.keys) /\ Readable(source, plans[i].key)
      /\ calls = CallsOf(source, plans[i].key) /\ DOMAIN calls = 1..Len(calls)
  BY <1>1 DEF Laid
<1>4. \A c \in 1..Len(calls) : calls[c] \notin {Empty, Reason, None}
  BY <1>3, AnswerAssumption DEF Asked
<1>5. how \in {Empty, Reason}  BY ReserveSourcesAssumption
<1> HIDE DEF r
<1>6. \A c \in 1..Len(calls) : r[c] = IF c \in Got(i, failed) THEN calls[c] ELSE how
  BY <1>2 DEF Got
<1>7. Came(r, calls, Got(i, failed), how)  BY <1>2, <1>4, <1>5, <1>6 DEF Came
<1> QED  BY <1>7 DEF r

LEMMA PoolMade ==
  ASSUME NEW asked, Asked(asked), NEW failed, NEW how \in Reverts, NEW i \in 1..Len(plans),
         how = Empty \/ source = "Curve"
  PROVE  Made(Build(plans[i].key, Slice(plans[i], Results(failed, how))),
              plans[i].key, plans[i].calls, Got(i, failed))
<1> DEFINE key == plans[i].key
           calls == plans[i].calls
           r == Slice(plans[i], Results(failed, how))
           got == Got(i, failed)
<1>1. source \in {"UniswapV2", "Aerodrome", "Curve"} /\ Laid(plans, source, asked.keys)
  BY AskedLaid
<1>2. Came(r, calls, got, how)  BY SliceCame
<1>3. key \in ToSet(asked.keys) /\ Readable(source, key) /\ calls = CallsOf(source, key)
  BY <1>1 DEF Laid
<1>4. Len(key.assets) = 2 => key.assets[1] # key.assets[2]
  BY <1>3, ReserveSourcesAssumption DEF Asked
<1> SUFFICES Made(Build(key, r), key, calls, got)
  OBVIOUS
<1> HIDE DEF key, calls, r, got
<1>5. CASE source = "UniswapV2"
  <2>1. how = Empty /\ Build(key, r) = BuildUniswapV2(key, r)  BY <1>5 DEF Build
  <2> QED  BY <1>2, <1>3, <1>5, <2>1, UniswapV2Made
<1>6. CASE source = "Aerodrome"
  <2>1. how = Empty /\ Build(key, r) = BuildAerodrome(key, r)  BY <1>6 DEF Build
  <2>2. key.assets[1] # key.assets[2]  BY <1>3, <1>4, <1>6 DEF Readable
  <2> QED  BY <1>2, <1>3, <1>6, <2>1, <2>2, AerodromeMade
<1>7. CASE source = "Curve"
  <2>1. Build(key, r) = BuildCurve(Configs(key)[1], r)  BY <1>7 DEF Build
  <2>2. calls = CurveCalls(Configs(key)[1])  BY <1>3, <1>7 DEF CallsOf
  <2>3. Readable("Curve", key)  BY <1>3, <1>7
  <2> QED  BY <1>2, <1>7, <2>1, <2>2, <2>3, CurveMade
<1> QED  BY <1>1, <1>5, <1>6, <1>7

(* A call was answered if it is one of those that were. *)
LEMMA AnsweredIs ==
  ASSUME NEW asked, Asked(asked), NEW i \in 1..Len(plans), NEW call
  PROVE  Answered(i, call) <=> Had(plans[i].calls, Got(i, lost), call)
<1>1. DOMAIN plans[i].calls = 1..Len(plans[i].calls)  BY AskedLaid DEF Laid
<1> QED  BY <1>1 DEF Answered, Had, Got

(* Those are built that are due. *)
LEMMA BuildsIfDue ==
  ASSUME NEW asked, Asked(asked), NEW how \in Reverts, NEW i \in 1..Len(plans),
         how = Empty \/ source = "Curve"
  PROVE  Builds(plans[i].key, Slice(plans[i], Results(lost, how))) <=> Complete(i)
<1> DEFINE key == plans[i].key
           pool == Build(key, Slice(plans[i], Results(lost, how)))
           needed == pool.needed
           wanted == Wanted(key)
           calls == plans[i].calls
           got == Got(i, lost)
<1>1. Made(pool, key, calls, got)  BY PoolMade
<1>2. /\ DOMAIN needed = 1..Len(wanted) /\ DOMAIN wanted = 1..Len(wanted)
      /\ \A k \in 1..Len(wanted) : FitsAt(needed[k], wanted[k], calls, got)
  BY <1>1 DEF Made, Fits
<1>3. \A k \in 1..Len(wanted) :
        Decodes(needed[k]) <=> \E call \in wanted[k] : Answered(i, call)
  BY <1>2, AnsweredIs DEF FitsAt
<1>4. Builds(key, Slice(plans[i], Results(lost, how))) <=>
        /\ source = "UniswapV2" => Len(key.assets) = 2
        /\ \A k \in 1..Len(wanted) : Decodes(needed[k])
  BY <1>2 DEF Builds
<1>5. Complete(i) <=>
        /\ source = "UniswapV2" => Len(key.assets) = 2
        /\ \A k \in 1..Len(wanted) : \E call \in wanted[k] : Answered(i, call)
  BY <1>2 DEF Complete
<1> HIDE DEF key, needed, wanted
<1> QED  BY <1>3, <1>4, <1>5 DEF key

(* So what is built is what is due, each of its own calls.                 *)
Outcome == APoolPerKeyRead /\ PartsAreItsOwn

LEMMA OutcomeIs ==
  ASSUME NEW asked, Asked(asked), NEW how \in Reverts, how = Empty \/ source = "Curve",
         built = Pools(Results(lost, how))
  PROVE  Outcome
<1> DEFINE all == [i \in DOMAIN plans |-> i]
           results == Results(lost, how)
           slice(i) == Slice(plans[i], results)
           T == {i \in DOMAIN plans : Builds(plans[i].key, slice(i))}
           due == Due
           N == Len(plans)
<1>1. DOMAIN plans = 1..N /\ N \in Nat  BY AskedLaid DEF Laid
<1>2. T = {i \in DOMAIN plans : Complete(i)}  BY <1>1, BuildsIfDue
<1>3. due = Passing(all, T)  BY <1>2 DEF Due
<1>4. built = [j \in DOMAIN due |-> Build(plans[due[j]].key, slice(due[j]))]
  BY <1>3 DEF Pools
<1>5. due \in Seq(1..N) /\ \A j \in 1..Len(due) : due[j] \in T
  <2>1. all \in Seq(1..N)
    <3>1. all \in [1..N -> 1..N]  BY <1>1
    <3> HIDE DEF all, N
    <3> QED  BY <1>1, <3>1, SeqDef
  <2> HIDE DEF all, N, T, due
  <2>2. PICK at : Picks(due, all, T, Len(all), at)  BY <1>3, <2>1, PassingPicks
  <2>3. due \in Seq(1..N)  BY <1>3, <2>1, PassingPicks
  <2>4. \A j \in 1..Len(due) : due[j] \in T  BY <2>2 DEF Picks
  <2> QED  BY <2>3, <2>4
<1>6. Len(due) \in Nat /\ DOMAIN due = 1..Len(due) /\ \A j \in 1..Len(due) : due[j] \in 1..N
  <2> HIDE DEF due, N
  <2> QED  BY <1>5, LenProperties
<1>7. DOMAIN built = 1..Len(due) /\ Len(built) = Len(due)
  <2> HIDE DEF due, slice
  <2> QED  BY <1>4, <1>6
<1>8. ASSUME NEW j \in 1..Len(due)
      PROVE  /\ due[j] \in 1..N /\ Complete(due[j])
             /\ Made(built[j], plans[due[j]].key, plans[due[j]].calls, Got(due[j], lost))
  <2>1. due[j] \in 1..N  BY <1>6
  <2>2. Complete(due[j])  BY <1>2, <1>5
  <2>3. built[j] = Build(plans[due[j]].key, slice(due[j]))  BY <1>4, <1>6
  <2> DEFINE i == due[j]
  <2> HIDE DEF due, i
  <2>4. Made(Build(plans[i].key, Slice(plans[i], Results(lost, how))), plans[i].key,
             plans[i].calls, Got(i, lost))
    BY <2>1, PoolMade DEF i, N
  <2> QED  BY <2>1, <2>2, <2>3, <2>4 DEF i
<1>9. APoolPerKeyRead
  <2>1. \A j \in 1..Len(due) : built[j].address = plans[due[j]].key.address
    BY <1>8 DEF Made
  <2> QED  BY <1>6, <1>7, <2>1 DEF APoolPerKeyRead
<1>10. PartsAreItsOwn
  <2> SUFFICES ASSUME NEW j \in 1..Len(due)
               PROVE
      LET i == due[j]
          wanted == Wanted(plans[i].key)
          needed == built[j].needed
          finest == Call(plans[i].key.address, "future_A", 0)
          optional == [ k \in DOMAIN built[j].optional |->
            Call(built[j].address, <<"offpeg_fee_multiplier", "stored_rates">>[k], 0) ]
      IN  /\ Len(needed) = Len(wanted)
          /\ \A k \in DOMAIN wanted : needed[k] \in wanted[k]
          /\ finest \in wanted[1] /\ Answered(i, finest) => needed[1] = finest
          /\ \A k \in DOMAIN optional :
               built[j].optional[k] = IF Answered(i, optional[k]) THEN optional[k] ELSE None
    <3> HIDE DEF due
    <3> QED  BY <1>7 DEF PartsAreItsOwn, due
  <2> DEFINE i == due[j]
             key == plans[i].key
             wanted == Wanted(key)
             needed == built[j].needed
             finest == Call(key.address, "future_A", 0)
             optional == [ k \in DOMAIN built[j].optional |->
               Call(built[j].address, <<"offpeg_fee_multiplier", "stored_rates">>[k], 0) ]
             calls == plans[i].calls
             got == Got(i, lost)
  <2>1. i \in 1..N /\ Complete(i) /\ Made(built[j], key, calls, got)  BY <1>8
  <2> HIDE DEF i, due, N
  <2>2. /\ built[j].address = key.address
        /\ Len(needed) = Len(wanted) /\ DOMAIN wanted = 1..Len(wanted)
        /\ \A k \in 1..Len(wanted) : FitsAt(needed[k], wanted[k], calls, got)
        /\ finest \in wanted[1] /\ Had(calls, got, finest) => needed[1] = finest
        /\ \A k \in DOMAIN built[j].optional :
             built[j].optional[k] = IF Had(calls, got, OptionalCall(key, k))
                                    THEN OptionalCall(key, k) ELSE None
    BY <2>1 DEF Made, Fits
  <2>3. \A call : Answered(i, call) <=> Had(calls, got, call)  BY <2>1, AnsweredIs DEF N
  <2>4. \A k \in DOMAIN wanted : \E call \in wanted[k] : Answered(i, call)
    BY <2>1 DEF Complete
  <2>5. \A k \in DOMAIN wanted : needed[k] \in wanted[k]
    BY <2>2, <2>3, <2>4 DEF FitsAt
  <2>6. \A k \in DOMAIN optional :
          /\ k \in DOMAIN built[j].optional /\ optional[k] = OptionalCall(key, k)
    BY <2>2 DEF OptionalCall
  <2>7. \A k \in DOMAIN optional :
          built[j].optional[k] = IF Answered(i, optional[k]) THEN optional[k] ELSE None
    <3> HIDE DEF optional, key
    <3> QED  BY <2>2, <2>3, <2>6
  <2>8. finest \in wanted[1] /\ Answered(i, finest) => needed[1] = finest  BY <2>2, <2>3
  <2> QED  BY <2>2, <2>5, <2>7, <2>8 DEF i
<1> QED  BY <1>9, <1>10 DEF Outcome

(* From the first step on the plans are those of a request, and what is    *)
(* built is built of the batch.                                            *)
BatchInv ==
  /\ stage # "Idle" => \E asked \in Requests : Asked(asked)
  /\ stage = "Built" => \E how \in Reverts : built = Pools(Results(lost, how))

LEMMA PoolsStay ==
  ASSUME UNCHANGED <<source, plans>>, NEW how
  PROVE  Pools(Results(lost', how)) = Pools(Results(lost, how))'
  BY DEF Pools, Results, Slice, Build, Builds

LEMMA BatchAlways == Spec => []BatchInv
<1>1. Init => BatchInv  BY DEF Init, BatchInv
<1>2. BatchInv /\ [Next]_vars => BatchInv'
  <2> SUFFICES ASSUME BatchInv, [Next]_vars PROVE BatchInv'
    OBVIOUS
  <2> USE DEF BatchInv
  <2>1. ASSUME NEW asked \in Requests, NEW max \in Attempts, Refresh(asked, max)
        PROVE  BatchInv'
    <3>1. stage' = "Calling" /\ source' = asked.source /\ plans' = Plans(asked.source, asked.keys)
      BY <2>1 DEF Refresh
    <3>2. Asked(asked)'  BY <3>1 DEF Asked
    <3> QED  BY <3>1, <3>2
  <2>2. ASSUME Answer PROVE BatchInv'
    <3>1. stage = "Calling" /\ UNCHANGED <<source, plans>>  BY <2>2 DEF Answer
    <3>2. PICK asked \in Requests : Asked(asked)  BY <3>1
    <3>3. Asked(asked)'  BY <3>1, <3>2 DEF Asked
    <3>4. PICK how \in Reverts : built' = Pools(Results(lost', how))  BY <2>2 DEF Answer
    <3>5. Pools(Results(lost', how)) = Pools(Results(lost, how))'
      BY <3>1, PoolsStay
    <3>6. (built = Pools(Results(lost, how)))'  BY <3>4, <3>5
    <3>7. (\E asked2 \in Requests : Asked(asked2))'  BY <3>3
    <3>8. (\E how2 \in Reverts : built = Pools(Results(lost, how2)))'  BY <3>6
    <3> QED  BY <3>7, <3>8
  <2>3. ASSUME Fail PROVE BatchInv'
    <3>1. stage = "Calling" /\ stage' \in {"Failed", "Sleeping"} /\ UNCHANGED <<source, plans>>
      BY <2>3 DEF Fail
    <3> QED  BY <3>1 DEF Asked
  <2>4. ASSUME Wake PROVE BatchInv'
    <3>1. stage = "Sleeping" /\ stage' = "Calling" /\ UNCHANGED <<source, plans>>
      BY <2>4 DEF Wake
    <3> QED  BY <3>1 DEF Asked
  <2>5. CASE UNCHANGED vars
    <3>1. UNCHANGED <<source, plans, stage, lost, built>>  BY <2>5 DEF vars
    <3>2. (\E asked \in Requests : Asked(asked)) => (\E asked \in Requests : Asked(asked))'
      BY <3>1 DEF Asked
    <3>3. ASSUME NEW how PROVE Pools(Results(lost, how))' = Pools(Results(lost, how))
      <4>1. UNCHANGED <<source, plans>> /\ lost' = lost  BY <3>1
      <4>2. Pools(Results(lost', how)) = Pools(Results(lost, how))  BY <4>1
      <4>3. Pools(Results(lost', how)) = Pools(Results(lost, how))'  BY <4>1, PoolsStay
      <4> QED  BY <4>2, <4>3
    <3>4. (\E how \in Reverts : built = Pools(Results(lost, how)))
            => (\E how \in Reverts : built = Pools(Results(lost, how)))'
      BY <3>1, <3>3
    <3> QED  BY <3>1, <3>2, <3>4
  <2> QED  BY <2>1, <2>2, <2>3, <2>4, <2>5 DEF Next
<1> QED  BY <1>1, <1>2, PTL DEF Spec

(* refresh() returns a pool for each key that was read in full and for no  *)
(* other, whatever else failed, if a failed read returns nothing.          *)
THEOREM APoolPerKeyReadAlways ==
  ASSUME Reverts = {Empty}
  PROVE  Spec => []APoolPerKeyRead
<1>1. BatchInv => APoolPerKeyRead
  <2> SUFFICES ASSUME BatchInv, stage = "Built" PROVE APoolPerKeyRead
    BY DEF APoolPerKeyRead
  <2>1. PICK asked \in Requests : Asked(asked)  BY DEF BatchInv
  <2>2. PICK how \in Reverts : built = Pools(Results(lost, how))  BY DEF BatchInv
  <2> QED  BY <2>1, <2>2, OutcomeIs DEF Outcome
<1> QED  BY <1>1, BatchAlways, PTL

(* And each part of such a pool is the answer to the call for it, of this  *)
(* pool, whatever was lost around it.                                      *)
THEOREM PartsAreItsOwnAlways ==
  ASSUME Reverts = {Empty}
  PROVE  Spec => []PartsAreItsOwn
<1>1. BatchInv => PartsAreItsOwn
  <2> SUFFICES ASSUME BatchInv, stage = "Built" PROVE PartsAreItsOwn
    BY DEF PartsAreItsOwn
  <2>1. PICK asked \in Requests : Asked(asked)  BY DEF BatchInv
  <2>2. PICK how \in Reverts : built = Pools(Results(lost, how))  BY DEF BatchInv
  <2> QED  BY <2>1, <2>2, OutcomeIs DEF Outcome
<1> QED  BY <1>1, BatchAlways, PTL

(* The results of Curve's reads are asked whether they succeeded, so there *)
(* both hold even where a failed read returns the reason of its revert.    *)
THEOREM CurveOutcomeAlways == Spec => [](source = "Curve" => APoolPerKeyRead /\ PartsAreItsOwn)
<1>1. BatchInv => (source = "Curve" => APoolPerKeyRead /\ PartsAreItsOwn)
  <2> SUFFICES ASSUME BatchInv, source = "Curve", stage = "Built"
               PROVE  APoolPerKeyRead /\ PartsAreItsOwn
    BY DEF APoolPerKeyRead, PartsAreItsOwn
  <2>1. PICK asked \in Requests : Asked(asked)  BY DEF BatchInv
  <2>2. PICK how \in Reverts : built = Pools(Results(lost, how))  BY DEF BatchInv
  <2> QED  BY <2>1, <2>2, OutcomeIs DEF Outcome
<1> QED  BY <1>1, BatchAlways, PTL
=============================================================================
