----------------------------- MODULE RouteProofs ----------------------------
(***************************************************************************)
(* What partition returns and what the slippage guards bound, for every    *)
(* route, cap, scale, tolerance and number of hops.                        *)
(***************************************************************************)
EXTENDS Routing, Slippage, CommonLemmas

-----------------------------------------------------------------------------
(* Routing: the spans of a route.                                          *)

Span == [kind : RouterKind, start : Nat, end : Nat]

(* One turn of the loop, written as the step of the recursion.             *)
ScanStep(pools, g, i) ==
  IF i = 0 THEN <<>> ELSE AddPool(g[i - 1], RouterKindOf(pools[i]), i - 1)

(* The recursion of SpanScan has a solution on every prefix of the route,  *)
(* so SpanScan is that solution.                                           *)
LEMMA SpanScanDef ==
  ASSUME NEW pools, Len(pools) \in Nat
  PROVE  SpanScan(pools) = [i \in 0..Len(pools) |->
           IF i = 0 THEN <<>>
           ELSE AddPool(SpanScan(pools)[i - 1], RouterKindOf(pools[i]), i - 1)]
<1> DEFINE n == Len(pools)
           Solves(g, m) == g = [i \in 0..m |-> ScanStep(pools, g, i)]
           S == {m \in 0..n : \E g : Solves(g, m)}
<1>1. 0 \in S
  <2> DEFINE g == [i \in 0..0 |-> <<>>]
  <2>1. Solves(g, 0)  BY DEF ScanStep
  <2> QED  BY <2>1
<1>2. ASSUME NEW m \in 0..n - 1, m \in S PROVE m + 1 \in S
  <2>1. PICK g : Solves(g, m)  BY <1>2
  <2> DEFINE h == [i \in 0..m + 1 |->
                     IF i <= m THEN g[i]
                     ELSE AddPool(g[m], RouterKindOf(pools[m + 1]), m)]
  <2>2. ASSUME NEW i \in 0..m + 1 PROVE h[i] = ScanStep(pools, h, i)
    <3>1. CASE i = 0
      <4>1. g[0] = <<>>  BY <2>1 DEF ScanStep
      <4> QED  BY <3>1, <4>1 DEF ScanStep
    <3>2. CASE i # 0 /\ i <= m
      <4>1. g[i] = AddPool(g[i - 1], RouterKindOf(pools[i]), i - 1)
        BY <2>1, <3>2 DEF ScanStep
      <4>2. h[i] = g[i] /\ h[i - 1] = g[i - 1]  BY <3>2
      <4> QED  BY <3>2, <4>1, <4>2 DEF ScanStep
    <3>3. CASE i = m + 1
      <4>1. h[i] = AddPool(g[m], RouterKindOf(pools[m + 1]), m)  BY <3>3
      <4>2. h[i - 1] = g[m] /\ i - 1 = m /\ i # 0  BY <3>3
      <4> QED  BY <3>3, <4>1, <4>2 DEF ScanStep
    <3> QED  BY <3>1, <3>2, <3>3
  <2>3. Solves(h, m + 1)
    <3> HIDE DEF h
    <3> SUFFICES h = [i \in 0..m + 1 |-> ScanStep(pools, h, i)]  OBVIOUS
    <3>1. h = [i \in 0..m + 1 |-> h[i]]  BY DEF h
    <3> QED  BY <2>2, <3>1
  <2>4. \E f : Solves(f, m + 1)
    <3> HIDE DEF h, Solves
    <3> QED  BY <2>3
  <2>5. m + 1 \in 0..n  OBVIOUS
  <2> HIDE DEF Solves
  <2> QED  BY <2>4, <2>5
<1>3. n \in S
  <2> HIDE DEF S
  <2>1. 0..n \subseteq S  BY <1>1, <1>2, BoundedInduction
  <2> QED  BY <2>1
<1>4. PICK g : Solves(g, n)  BY <1>3
<1>5. g = [i \in 0..Len(pools) |->
             IF i = 0 THEN <<>>
             ELSE AddPool(g[i - 1], RouterKindOf(pools[i]), i - 1)]
  BY <1>4 DEF ScanStep
<1> QED  BY <1>5 DEF SpanScan

LEMMA RouterKindRange ==
  ASSUME NEW pool PROVE RouterKindOf(pool) \in RouterKind \cup {"None"}
<1> DEFINE k == KindOf[pool]
<1>1. CASE k \in {"UniswapV2", "UniswapV3", "UniswapV4"}
  BY <1>1 DEF RouterKindOf, RouterKind
<1>2. CASE k \in {"CurveStable", "CurveCrypto"}
  BY <1>2 DEF RouterKindOf, RouterKind
<1>3. CASE k \in {"AerodromeVolatile", "AerodromeStable"}
  BY <1>3 DEF RouterKindOf, RouterKind
<1>4. CASE k = "Slipstream"
  BY <1>4 DEF RouterKindOf, RouterKind
<1>5. CASE k \notin PoolKind
  BY <1>5 DEF RouterKindOf, PoolKind
<1> QED  BY <1>1, <1>2, <1>3, <1>4, <1>5 DEF PoolKind

(* One more pool keeps a partition a partition: the inductive step.        *)
LEMMA AddPoolKeepsPartition ==
  ASSUME NEW pools, NEW i \in Nat, NEW spans \in Seq(Span),
         IsPartition(pools, spans, i),
         RouterKindOf(pools[i + 1]) \in RouterKind
  PROVE  LET next == AddPool(spans, RouterKindOf(pools[i + 1]), i)
         IN  next \in Seq(Span) /\ IsPartition(pools, next, i + 1)
<1> DEFINE kind == RouterKindOf(pools[i + 1])
           next == AddPool(spans, kind, i)
           last == Len(spans)
<1> HIDE DEF kind
<1>0. kind \in RouterKind /\ last \in Nat  BY DEF kind
<1>a. GapFree(spans, i) /\ OneRouterPerSpan(pools, spans)
        /\ CurveCapped(spans) /\ Maximal(spans)
  BY DEF IsPartition
<1>b. CURVE_MAX_HOPS \in Nat \ {0}  BY RoutingAssumption
<1>1. CASE spans # <<>> /\ Extends(spans[last], kind)
  <2>1. next = [spans EXCEPT ![last] = Grown(spans[last], i + 1)]
    BY <1>1 DEF AddPool
  <2>2. last \in 1..last /\ spans[last] \in Span  BY <1>1
  <2>3. next \in Seq(Span) /\ Len(next) = last
    <3>1. Grown(spans[last], i + 1) \in Span  BY <2>2 DEF Grown, Span
    <3> QED  BY <2>1, <2>2, <3>1
  <2>4. \A k \in 1..last : k # last => next[k] = spans[k]  BY <2>1
  <2>5. /\ next[last].kind = spans[last].kind
        /\ next[last].start = spans[last].start
        /\ next[last].end = i + 1
    BY <2>1, <2>2 DEF Span, Grown
  <2>6. spans[last].end = i /\ spans[last].start \in Nat /\ spans[last].start < i
    BY <1>1, <1>a, <2>2 DEF GapFree, Span
  <2>7. spans[last].kind = kind  BY <1>1 DEF Extends
  <2>8. \A k \in 1..last : spans[k] \in Span  OBVIOUS
  <2>9. next # <<>>  BY <2>3, <1>1
  <2> HIDE DEF next, last
  <2>10. GapFree(next, i + 1)
    <3>1. next[1].start = 0
      BY <1>a, <1>1, <2>2, <2>4, <2>5, <1>0 DEF GapFree
    <3>2. \A k \in 1..last : next[k].start < next[k].end /\ next[k].end <= i + 1
      <4>1. ASSUME NEW k \in 1..last, k # last
            PROVE  next[k].start < next[k].end /\ next[k].end <= i + 1
        <5>1. next[k] = spans[k] /\ spans[k] \in Span  BY <4>1, <2>4, <2>8
        <5>2. spans[k].start < spans[k].end /\ spans[k].end <= i
          BY <1>a DEF GapFree, last
        <5> QED  BY <5>1, <5>2 DEF Span
      <4>2. next[last].start < next[last].end /\ next[last].end <= i + 1
        BY <2>5, <2>6
      <4> QED  BY <4>1, <4>2
    <3>3. \A k \in 1..last - 1 : next[k].end = next[k + 1].start
      BY <1>a, <2>4, <2>5, <1>0 DEF GapFree, last
    <3> QED  BY <2>3, <2>5, <2>9, <3>1, <3>2, <3>3 DEF GapFree
  <2>11. OneRouterPerSpan(pools, next)
    <3> SUFFICES ASSUME NEW k \in 1..last, NEW j \in next[k].start + 1 .. next[k].end
                 PROVE  RouterKindOf(pools[j]) = next[k].kind
      BY <2>3 DEF OneRouterPerSpan
    <3>1. CASE k # last
      BY <3>1, <1>a, <2>4 DEF OneRouterPerSpan, last
    <3>2. CASE k = last /\ j = i + 1
      BY <3>2, <2>5, <2>7 DEF kind
    <3>3. CASE k = last /\ j # i + 1
      <4>1. j \in spans[last].start + 1 .. spans[last].end
        BY <3>3, <2>5, <2>6
      <4> QED  BY <3>3, <4>1, <1>a, <2>2, <2>5 DEF OneRouterPerSpan, last
    <3> QED  BY <3>1, <3>2, <3>3
  <2>12. CurveCapped(next)
    <3> SUFFICES ASSUME NEW k \in 1..last, next[k].kind = "Curve"
                 PROVE  SpanLen(next[k]) <= CURVE_MAX_HOPS
      BY <2>3 DEF CurveCapped
    <3>1. CASE k # last  BY <3>1, <1>a, <2>4 DEF CurveCapped, last
    <3>2. CASE k = last
      <4>1. ~(SpanLen(spans[last]) >= CURVE_MAX_HOPS)
        BY <1>1, <2>5, <2>7, <3>2 DEF Extends
      <4>2. i - spans[last].start < CURVE_MAX_HOPS
        BY <4>1, <2>6, <1>b DEF SpanLen
      <4> QED  BY <3>2, <4>2, <2>5, <2>6, <1>b DEF SpanLen
    <3> QED  BY <3>1, <3>2
  <2>13. Maximal(next)
    <3> SUFFICES ASSUME NEW k \in 1..last - 1
                 PROVE  \/ next[k].kind # next[k + 1].kind
                        \/ next[k].kind = "Curve" /\ SpanLen(next[k]) = CURVE_MAX_HOPS
      BY <2>3 DEF Maximal
    <3>1. next[k] = spans[k] /\ next[k + 1].kind = spans[k + 1].kind
      BY <2>4, <2>5, <1>0
    <3> QED  BY <3>1, <1>a DEF Maximal, last
  <2> QED  BY <2>3, <2>10, <2>11, <2>12, <2>13 DEF IsPartition, next, kind
<1>2. CASE ~(spans # <<>> /\ Extends(spans[last], kind))
  <2> DEFINE new == [kind |-> kind, start |-> i, end |-> i + 1]
  <2>1. next = Append(spans, new)  BY <1>2 DEF AddPool
  <2>2. new \in Span  BY <1>0 DEF Span
  <2>3. next \in Seq(Span) /\ Len(next) = last + 1 /\ next # <<>>
    BY <2>1, <2>2
  <2>4. /\ \A k \in 1..last : next[k] = spans[k]
        /\ next[last + 1] = new
    BY <2>1, <2>2
  <2>5. \A k \in 1..last : spans[k] \in Span  OBVIOUS
  <2>6. /\ new.kind = kind
        /\ new.start = i
        /\ new.end = i + 1
    OBVIOUS
  <2>e. spans = <<>> <=> last = 0  OBVIOUS
  <2> HIDE DEF next, last, new
  <2>7. GapFree(next, i + 1)
    <3>1. next[1].start = 0
      BY <1>a, <2>4, <2>6, <2>e, <1>0 DEF GapFree
    <3>2. \A k \in 1..last + 1 :
            next[k].start < next[k].end /\ next[k].end <= i + 1
      <4>1. ASSUME NEW k \in 1..last
            PROVE  next[k].start < next[k].end /\ next[k].end <= i + 1
        <5>1. next[k] = spans[k] /\ spans[k] \in Span  BY <2>4, <2>5
        <5>2. spans[k].start < spans[k].end /\ spans[k].end <= i
          BY <1>a DEF GapFree, last
        <5> QED  BY <5>1, <5>2 DEF Span
      <4>2. next[last + 1].start < next[last + 1].end /\ next[last + 1].end <= i + 1
        BY <2>4, <2>6
      <4> QED  BY <4>1, <4>2, <1>0
    <3>3. \A k \in 1..last : next[k].end = next[k + 1].start
      BY <1>a, <2>4, <2>6, <2>e, <1>0 DEF GapFree, last
    <3> QED  BY <1>0, <2>3, <2>4, <2>6, <3>1, <3>2, <3>3 DEF GapFree
  <2>8. OneRouterPerSpan(pools, next)
    <3> SUFFICES ASSUME NEW k \in 1..last + 1,
                        NEW j \in next[k].start + 1 .. next[k].end
                 PROVE  RouterKindOf(pools[j]) = next[k].kind
      BY <2>3 DEF OneRouterPerSpan
    <3>1. CASE k \in 1..last
      BY <3>1, <1>a, <2>4 DEF OneRouterPerSpan, last
    <3>2. CASE k = last + 1
      BY <3>2, <2>4, <2>6 DEF kind
    <3> QED  BY <3>1, <3>2, <1>0
  <2>9. CurveCapped(next)
    <3> SUFFICES ASSUME NEW k \in 1..last + 1, next[k].kind = "Curve"
                 PROVE  SpanLen(next[k]) <= CURVE_MAX_HOPS
      BY <2>3 DEF CurveCapped
    <3>1. CASE k \in 1..last  BY <3>1, <1>a, <2>4 DEF CurveCapped, last
    <3>2. CASE k = last + 1  BY <3>2, <2>4, <2>6, <1>b DEF SpanLen
    <3> QED  BY <3>1, <3>2, <1>0
  <2>10. Maximal(next)
    <3> SUFFICES ASSUME NEW k \in 1..last
                 PROVE  \/ next[k].kind # next[k + 1].kind
                        \/ next[k].kind = "Curve" /\ SpanLen(next[k]) = CURVE_MAX_HOPS
      <4>1. Len(next) - 1 = last  BY <2>3, <1>0
      <4> QED  BY <4>1 DEF Maximal
    <3>1. CASE k < last
      <4>1. k \in 1..last - 1 /\ k + 1 \in 1..last  BY <3>1, <1>0
      <4> QED  BY <4>1, <2>4, <1>a DEF Maximal, last
    <3>2. CASE k = last
      <4>1. spans # <<>> /\ ~Extends(spans[last], kind)
        BY <3>2, <1>2, <2>e DEF last
      <4>2. spans[last].kind # kind
            \/ (kind = "Curve" /\ SpanLen(spans[last]) >= CURVE_MAX_HOPS)
        BY <4>1 DEF Extends
      <4>3. spans[last] \in Span /\ last \in 1..last  BY <3>2, <2>5
      <4>4. spans[last].kind = "Curve" => SpanLen(spans[last]) <= CURVE_MAX_HOPS
        BY <4>3, <1>a DEF CurveCapped, last
      <4>5. SpanLen(spans[last]) \in Int  BY <4>3 DEF Span, SpanLen
      <4> QED  BY <3>2, <4>2, <4>4, <4>5, <1>b, <2>4, <2>6
    <3> QED  BY <3>1, <3>2, <1>0
  <2> QED  BY <2>3, <2>7, <2>8, <2>9, <2>10 DEF IsPartition, next, kind
<1> QED  BY <1>1, <1>2

(* partition cuts every route of classifiable pools into a gap-free cover  *)
(* of maximal same-router spans, no Curve span longer than one Curve       *)
(* router call (the doc of partition in router_span.rs), whatever the      *)
(* route's length and the cap.                                             *)
THEOREM PartitionIsPartition ==
  ASSUME NEW pools, Len(pools) \in Nat, Classifiable(pools)
  PROVE  /\ Partition(pools) \in Seq(Span)
         /\ IsPartition(pools, Partition(pools), Len(pools))
<1> DEFINE n == Len(pools)
           scan == SpanScan(pools)
           Good(i) == scan[i] \in Seq(Span) /\ IsPartition(pools, scan[i], i)
           S == {i \in 0..n : Good(i)}
<1>d. /\ scan[0] = <<>>
      /\ \A i \in 0..n - 1 :
           scan[i + 1] = AddPool(scan[i], RouterKindOf(pools[i + 1]), i)
  <2>1. scan = [i \in 0..n |->
           IF i = 0 THEN <<>>
           ELSE AddPool(scan[i - 1], RouterKindOf(pools[i]), i - 1)]
    BY SpanScanDef
  <2> HIDE DEF scan, n
  <2>2. n \in Nat  BY DEF n
  <2>3. scan[0] = <<>>  BY <2>1, <2>2
  <2>4. ASSUME NEW i \in 0..n - 1
        PROVE  scan[i + 1] = AddPool(scan[i], RouterKindOf(pools[i + 1]), i)
    <3>1. i + 1 \in 0..n /\ i + 1 # 0 /\ (i + 1) - 1 = i  BY <2>2
    <3> QED  BY <2>1, <3>1
  <2> QED  BY <2>3, <2>4
<1> HIDE DEF scan
<1>k. \A i \in 1..n : RouterKindOf(pools[i]) \in RouterKind
  BY RouterKindRange DEF Classifiable
<1>1. 0 \in S
  <2>1. <<>> \in Seq(Span)  OBVIOUS
  <2>2. IsPartition(pools, <<>>, 0)
    BY DEF IsPartition, GapFree, OneRouterPerSpan, CurveCapped, Maximal
  <2>3. Good(0)  BY <1>d, <2>1, <2>2
  <2>4. 0 \in 0..n  OBVIOUS
  <2> HIDE DEF Good
  <2> QED  BY <2>3, <2>4
<1>2. ASSUME NEW i \in 0..n - 1, i \in S PROVE i + 1 \in S
  <2>1. i \in Nat /\ i + 1 \in 1..n /\ i + 1 \in 0..n  OBVIOUS
  <2>2. RouterKindOf(pools[i + 1]) \in RouterKind  BY <1>k, <2>1
  <2>3. Good(i)  BY <1>2
  <2>4. Good(i + 1)  BY <1>d, <2>1, <2>2, <2>3, AddPoolKeepsPartition
  <2> QED  BY <2>1, <2>4
<1>3. n \in S
  <2> HIDE DEF S
  <2>1. 0..n \subseteq S  BY <1>1, <1>2, BoundedInduction
  <2> QED  BY <2>1
<1> QED  BY <1>3 DEF Partition, scan

-----------------------------------------------------------------------------
(* Slippage: the guards bracket the quote and the compounded tolerance     *)
(* stays within one hundred percent.                                       *)

LEMMA RetainedRange ==
  ASSUME NEW tol \in Nat
  PROVE  Retained(tol) \in 0..BPS_ONE
BY BpsAssumption DEF Retained, SaturatingSub

(* Multiplying by at most b and dividing by b does not increase.           *)
LEMMA ScaledDown ==
  ASSUME NEW q \in Nat, NEW b \in Nat \ {0}, NEW r \in 0..b
  PROVE  (q * r) \div b \in 0..q
<1>1. q * r \in Nat /\ q * r <= q * b  OBVIOUS
<1> DEFINE x == q * r
<1>2. x \in Nat /\ x <= q * b  BY <1>1
<1> HIDE DEF x
<1>3. x \div b \in Nat /\ b * (x \div b) <= x  BY <1>2
<1>4. b * (x \div b) <= b * q  BY <1>2, <1>3
<1>5. x \div b <= q  BY <1>3, <1>4
<1> QED  BY <1>3, <1>5 DEF x

(* Multiplying by at least b and dividing by b, rounded up, does not       *)
(* decrease.                                                               *)
LEMMA ScaledUp ==
  ASSUME NEW q \in Nat, NEW b \in Nat \ {0}, NEW t \in Nat
  PROVE  CeilDiv(q * (b + t), b) \in Nat /\ q <= CeilDiv(q * (b + t), b)
<1> DEFINE x == q * (b + t) + b - 1
<1>1. x \in Nat /\ b * q <= x
  <2>1. q * t \in Nat /\ q * (b + t) = q * b + q * t /\ q * b \in Nat  OBVIOUS
  <2>2. q * b = b * q  OBVIOUS
  <2> QED  BY <2>1, <2>2
<1> HIDE DEF x
<1>2. x \div b \in Nat /\ x < b * (x \div b) + b  BY <1>1
<1>3. b * q < b * (x \div b + 1)  BY <1>1, <1>2
<1>4. q < x \div b + 1  BY <1>2, <1>3
<1> QED  BY <1>2, <1>4 DEF x, CeilDiv

(* The floor never exceeds the quote and the ceiling never falls below it  *)
(* (min_amount_out and max_amount_in), and both are amounts.               *)
THEOREM GuardsBracket ==
  ASSUME NEW quoted \in Amount, NEW tol \in Nat
  PROVE  /\ MinAmountOut(quoted, tol) \in 0..quoted
         /\ MinAmountOut(quoted, tol) \in Amount
         /\ MaxAmountIn(quoted, tol) \in quoted..MaxRaw
         /\ MaxAmountIn(quoted, tol) \in Amount
<1>0. quoted \in Nat /\ quoted <= MaxRaw /\ BPS_ONE \in Nat \ {0} /\ MaxRaw \in Nat
  BY BpsAssumption, MaxRawAssumption DEF Amount
<1>1. MinAmountOut(quoted, tol) \in 0..quoted
  BY <1>0, RetainedRange, ScaledDown DEF MinAmountOut
<1>2. /\ CeilDiv(quoted * (BPS_ONE + tol), BPS_ONE) \in Nat
      /\ quoted <= CeilDiv(quoted * (BPS_ONE + tol), BPS_ONE)
  BY <1>0, ScaledUp
<1>3. MaxAmountIn(quoted, tol) \in quoted..MaxRaw
  BY <1>0, <1>2 DEF MaxAmountIn
<1> QED  BY <1>0, <1>1, <1>3 DEF Amount

-----------------------------------------------------------------------------
(* The recursion of Powers has a solution: 1, then x times the one before. *)
LEMMA PowersDef ==
  ASSUME NEW r \in Nat, NEW hops \in Nat
  PROVE  /\ Powers(r, hops)[0] = 1
         /\ \A i \in 0..hops - 1 : Powers(r, hops)[i + 1] = Powers(r, hops)[i] * r
         /\ \A i \in 0..hops : Powers(r, hops)[i] \in Nat
         /\ r # 0 => \A i \in 0..hops : Powers(r, hops)[i] # 0
<1> DEFINE Is(num) == num = [h \in 0..hops |-> IF h = 0 THEN 1 ELSE num[h - 1] * r]
           step == [i \in 1..hops |-> [x \in Nat |-> x * r]]
<1>1. step \in [1..hops -> [Nat -> Nat]]  OBVIOUS
<1>2. PICK g : Climbs(g, hops, Nat, 1, step)
  <2> HIDE DEF step
  <2> QED  BY <1>1, RecursionUp
<1>3. \E num : Is(num)
  <2>1. \A h \in 0..hops : g[h] = IF h = 0 THEN 1 ELSE g[h - 1] * r
    <3> SUFFICES ASSUME NEW h \in 0..hops, h # 0 PROVE g[h] = g[h - 1] * r
      BY <1>2 DEF Climbs
    <3>1. h \in 1..hops /\ h - 1 \in 0..hops  OBVIOUS
    <3> QED  BY <1>2, <3>1 DEF Climbs
  <2>2. g = [h \in 0..hops |-> g[h]]  BY <1>2 DEF Climbs
  <2>3. Is(g)  BY <2>1, <2>2
  <2> HIDE DEF Is
  <2> QED  BY <2>3
<1> DEFINE num == CHOOSE num : Is(num)
<1>4. Is(num)  BY <1>3
<1> HIDE DEF num
<1>5. num[0] = 1 /\ \A i \in 0..hops - 1 : num[i + 1] = num[i] * r
  <2>1. num[0] = 1  BY <1>4
  <2>2. \A i \in 0..hops - 1 : i + 1 \in 0..hops /\ i + 1 # 0 /\ (i + 1) - 1 = i
    OBVIOUS
  <2> QED  BY <1>4, <2>1, <2>2
<1> DEFINE S == {i \in 0..hops : num[i] \in Nat}
<1>6. 0..hops \subseteq S
  <2>1. 0 \in S  BY <1>5
  <2>2. \A i \in 0..hops - 1 : i \in S => i + 1 \in S
    BY <1>5
  <2> HIDE DEF S
  <2> QED  BY <2>1, <2>2, BoundedInduction
<1> DEFINE T == {i \in 0..hops : num[i] # 0}
<1>7. ASSUME r # 0 PROVE 0..hops \subseteq T
  <2>1. 0 \in T  BY <1>5
  <2>2. \A i \in 0..hops - 1 : i \in T => i + 1 \in T
    BY <1>5, <1>6, <1>7
  <2> HIDE DEF T
  <2> QED  BY <2>1, <2>2, BoundedInduction
<1>8. num = Powers(r, hops)  BY DEF num, Powers
<1> QED  BY <1>5, <1>6, <1>7, <1>8

LEMMA KeptRange ==
  ASSUME NEW tol \in Nat, NEW hops \in Nat
  PROVE  KeptNum(tol, hops) \in Nat /\ KeptDen(hops) \in Nat \ {0}
<1>1. Retained(tol) \in Nat /\ BPS_ONE \in Nat /\ BPS_ONE # 0
  BY RetainedRange, BpsAssumption
<1>2. KeptNum(tol, hops) \in Nat  BY <1>1, PowersDef DEF KeptNum
<1>3. KeptDen(hops) \in Nat /\ KeptDen(hops) # 0
  BY <1>1, PowersDef DEF KeptDen
<1> QED  BY <1>2, <1>3

(* A compounded tolerance is at most one hundred percent.                  *)
LEMMA CompoundRange ==
  ASSUME NEW tol \in Nat, NEW hops \in Nat
  PROVE  Compound(tol, hops) \in 0..BPS_ONE
<1> DEFINE n == BPS_ONE * KeptNum(tol, hops)
           d == KeptDen(hops)
<1>1. n \in Nat /\ d \in Nat \ {0}
  <2>1. \A k \in Nat : BPS_ONE * k \in Nat  BY BpsAssumption
  <2>2. n \in Nat  BY <2>1, KeptRange
  <2>3. d \in Nat \ {0}  BY KeptRange
  <2> QED  BY <2>2, <2>3
<1>2. Compound(tol, hops) = SaturatingSub(BPS_ONE, CeilDiv(n, d))
  BY DEF Compound
<1> HIDE DEF n, d
<1>3. CeilDiv(n, d) \in Nat  BY <1>1 DEF CeilDiv
<1> QED  BY <1>2, <1>3, BpsAssumption DEF SaturatingSub

-----------------------------------------------------------------------------
(* CeilDiv is the least number of shares of d that cover x.                *)
LEMMA CeilDivCovers ==
  ASSUME NEW x \in Nat, NEW d \in Nat \ {0}
  PROVE  CeilDiv(x, d) \in Nat /\ x <= d * CeilDiv(x, d)
<1> DEFINE y == x + d - 1
<1>1. y \in Nat  OBVIOUS
<1> HIDE DEF y
<1>2. y \div d \in Nat /\ y < d * (y \div d) + d  BY <1>1
<1> QED  BY <1>2 DEF CeilDiv, y

LEMMA CeilDivLeast ==
  ASSUME NEW x \in Nat, NEW d \in Nat \ {0}, NEW c \in Nat, x <= d * c
  PROVE  CeilDiv(x, d) <= c
<1> DEFINE y == x + d - 1
<1>1. y \in Nat /\ y < d * c + d  OBVIOUS
<1> HIDE DEF y
<1>2. y \div d \in Nat /\ d * (y \div d) <= y  BY <1>1
<1>3. d * (y \div d) < d * (c + 1)  BY <1>1, <1>2
<1>4. y \div d < c + 1  BY <1>2, <1>3
<1> QED  BY <1>2, <1>4 DEF CeilDiv, y

(* Powers agrees with itself however far it is taken.                      *)
LEMMA PowersStep ==
  ASSUME NEW r \in Nat, NEW h \in Nat
  PROVE  Powers(r, h + 1)[h + 1] = Powers(r, h)[h] * r
<1> DEFINE long == Powers(r, h + 1)
           short == Powers(r, h)
           S == {i \in 0..h : long[i] = short[i]}
<1>1. /\ long[0] = 1 /\ short[0] = 1
      /\ \A i \in 0..(h + 1) - 1 : long[i + 1] = long[i] * r
      /\ \A i \in 0..h - 1 : short[i + 1] = short[i] * r
  <2>1. h + 1 \in Nat  OBVIOUS
  <2> QED  BY <2>1, PowersDef
<1> HIDE DEF long, short
<1>2. 0..h \subseteq S
  <2>1. 0 \in S  BY <1>1
  <2>2. \A i \in 0..h - 1 : i \in S => i + 1 \in S  BY <1>1
  <2> HIDE DEF S
  <2> QED  BY <2>1, <2>2, BoundedInduction
<1>3. long[h] = short[h]  BY <1>2
<1>4. long[h + 1] = long[h] * r  BY <1>1
<1> QED  BY <1>3, <1>4 DEF long, short

(* One more hop never lowers the compounded tolerance.                     *)
LEMMA CompoundStep ==
  ASSUME NEW tol \in Nat, NEW h \in Nat
  PROVE  Compound(tol, h) <= Compound(tol, h + 1)
<1> DEFINE r == Retained(tol)
           x == BPS_ONE * KeptNum(tol, h)
           d == KeptDen(h)
           c == CeilDiv(x, d)
           c2 == CeilDiv(BPS_ONE * KeptNum(tol, h + 1), KeptDen(h + 1))
<1>1. /\ r \in Nat /\ r <= BPS_ONE /\ BPS_ONE \in Nat /\ BPS_ONE # 0
      /\ KeptNum(tol, h) \in Nat /\ d \in Nat \ {0}
  <2>1. r \in 0..BPS_ONE /\ BPS_ONE \in Nat /\ BPS_ONE # 0
    BY RetainedRange, BpsAssumption
  <2>2. KeptNum(tol, h) \in Nat /\ d \in Nat \ {0}  BY KeptRange
  <2> HIDE DEF r, d
  <2> QED  BY <2>1, <2>2
<1>2. KeptNum(tol, h + 1) = KeptNum(tol, h) * r
  BY <1>1, PowersStep DEF KeptNum
<1>3. KeptDen(h + 1) = d * BPS_ONE
  BY <1>1, PowersStep DEF KeptDen
<1>4. BPS_ONE * KeptNum(tol, h + 1) = x * r /\ x \in Nat
  <2>1. \A a, b, e \in Nat : a * (b * e) = (a * b) * e /\ a * b \in Nat  OBVIOUS
  <2> HIDE DEF r
  <2> QED  BY <1>1, <1>2, <2>1
<1> HIDE DEF r, x, d
<1>5. c \in Nat /\ x <= d * c  BY <1>1, <1>4, CeilDivCovers
<1> HIDE DEF c
<1>6. x * r <= (d * BPS_ONE) * c
  <2>1. \A a, b, e, f \in Nat : a <= b /\ e <= f => a * e <= b * f
    <3> SUFFICES ASSUME NEW a \in Nat, NEW b \in Nat, NEW e \in Nat, NEW f \in Nat,
                        a <= b, e <= f
                 PROVE  a * e <= b * f
      OBVIOUS
    <3>1. a * e <= b * e  OBVIOUS
    <3>2. b * e <= b * f  OBVIOUS
    <3>3. a * e \in Nat /\ b * e \in Nat /\ b * f \in Nat  OBVIOUS
    <3> QED  BY <3>1, <3>2, <3>3
  <2>2. d * c \in Nat  BY <1>1, <1>5
  <2>3. x * r <= (d * c) * BPS_ONE  BY <1>1, <1>4, <1>5, <2>1, <2>2
  <2>4. (d * c) * BPS_ONE = (d * BPS_ONE) * c  BY <1>1, <1>5
  <2> QED  BY <2>3, <2>4
<1>7. x * r \in Nat /\ d * BPS_ONE \in Nat \ {0}
  <2>1. x * r \in Nat  BY <1>1, <1>4
  <2>2. d * BPS_ONE \in Nat \ {0}  BY <1>1
  <2> QED  BY <2>1, <2>2
<1>8. c2 <= c /\ c2 \in Nat
  <2>1. c2 = CeilDiv(x * r, d * BPS_ONE)  BY <1>3, <1>4
  <2> QED  BY <1>5, <1>6, <1>7, <2>1, CeilDivLeast, CeilDivCovers
<1>9. /\ Compound(tol, h) = SaturatingSub(BPS_ONE, c)
      /\ Compound(tol, h + 1) = SaturatingSub(BPS_ONE, c2)
  BY DEF Compound, c, x, d
<1> HIDE DEF c2
<1> QED  BY <1>1, <1>5, <1>8, <1>9 DEF SaturatingSub

(* The compounded tolerance grows with the hops.                           *)
LEMMA CompoundGrows ==
  ASSUME NEW tol \in Nat, NEW n \in Nat, NEW h \in 0..n
  PROVE  Compound(tol, h) <= Compound(tol, n)
<1> DEFINE S == {i \in 0..n : i >= h => Compound(tol, h) <= Compound(tol, i)}
<1>1. \A i \in Nat : Compound(tol, i) \in Nat
  <2> SUFFICES ASSUME NEW i \in Nat PROVE Compound(tol, i) \in Nat
    OBVIOUS
  <2>1. Compound(tol, i) \in 0..BPS_ONE  BY CompoundRange
  <2> QED  BY <2>1, BpsAssumption
<1>2. 0 \in S  BY <1>1
<1>3. ASSUME NEW i \in 0..n - 1, i \in S PROVE i + 1 \in S
  <2>1. i \in Nat /\ i + 1 \in 0..n  OBVIOUS
  <2>2. Compound(tol, i) <= Compound(tol, i + 1)  BY <2>1, CompoundStep
  <2>3. CASE i >= h
    <3>1. Compound(tol, h) <= Compound(tol, i)  BY <1>3, <2>3
    <3>2. /\ Compound(tol, h) \in Nat /\ Compound(tol, i) \in Nat
          /\ Compound(tol, i + 1) \in Nat
      BY <1>1, <2>1
    <3> QED  BY <2>1, <2>2, <3>1, <3>2
  <2>4. CASE i + 1 = h
    BY <1>1, <2>1, <2>4
  <2>5. CASE i + 1 < h
    BY <2>1, <2>5
  <2> QED  BY <2>1, <2>3, <2>4, <2>5
<1>4. 0..n \subseteq S
  <2> HIDE DEF S
  <2> QED  BY <1>2, <1>3, BoundedInduction
<1> QED  BY <1>4

(* A larger tolerance never raises the floor.                              *)
LEMMA FloorFalls ==
  ASSUME NEW quoted \in Nat, NEW less \in Nat, NEW more \in Nat, less <= more
  PROVE  MinAmountOut(quoted, more) <= MinAmountOut(quoted, less)
<1> DEFINE low == Retained(more)
           high == Retained(less)
<1>1. low \in Nat /\ high \in Nat /\ low <= high
  BY BpsAssumption DEF Retained, SaturatingSub
<1>2. MinAmountOut(quoted, more) = (quoted * low) \div BPS_ONE
      /\ MinAmountOut(quoted, less) = (quoted * high) \div BPS_ONE
  BY DEF MinAmountOut
<1> HIDE DEF low, high
<1> DEFINE a == quoted * low
           b == quoted * high
<1>3. a \in Nat /\ b \in Nat /\ a <= b  BY <1>1
<1>4. BPS_ONE \in Nat \ {0}  BY BpsAssumption
<1> HIDE DEF a, b
<1> DEFINE x == a \div BPS_ONE
           y == b \div BPS_ONE
<1>5. x \in Nat /\ y \in Nat /\ BPS_ONE * x <= a /\ b < BPS_ONE * y + BPS_ONE
  BY <1>3, <1>4
<1> HIDE DEF x, y
<1>6. BPS_ONE * x < BPS_ONE * (y + 1)  BY <1>3, <1>4, <1>5
<1>7. x < y + 1  BY <1>4, <1>5, <1>6
<1>8. x <= y  BY <1>5, <1>7
<1> QED  BY <1>2, <1>8 DEF a, b, x, y
=============================================================================
