------------------------------ MODULE PartProofs ----------------------------
(***************************************************************************)
(* What the pure parts return, for every set of pools, assets and tokens,  *)
(* every scale and every bound.                                            *)
(***************************************************************************)
EXTENDS Parts, RouteProofs, SequenceTheorems

-----------------------------------------------------------------------------
(* The values the inputs take: the type invariant of Spec.                 *)
Fractions == [num : Nat \ {0}, den : Nat \ {0}]
Typed ==
  /\ route \in [pools : Seq(Pool), path : Seq(Asset)]
  /\ quoted \in 0..MaxQuote /\ tol \in Nat /\ hops \in Nat
  /\ priced.sqrt \in MinSqrt + 1..MaxSqrt - 1
  /\ priced.limit \in [base : Nat, quote : Nat, ratio : Fractions]
  /\ query.from \in HasFactory =>
       query.assets \in Seq(Tokens) /\ query.deployed \subseteq Pools(query.from)

LEMMA TypedInvariant == Spec => []Typed
<1>a. /\ MaxQuote \in Nat /\ MaxRatio \in Nat /\ Tokens \subseteq Nat
      /\ Q96 \in Nat \ {0} /\ MinSqrt \in Nat \ {0} /\ MaxSqrt \in Nat
      /\ Q96 \in MinSqrt + 1..MaxSqrt - 1
  BY PartsAssumption, PricesAssumption
<1>b. Q96 * Q96 \in Nat \ {0} /\ \A sqrt \in MinSqrt + 1..MaxSqrt - 1 :
        sqrt * sqrt \in Nat \ {0}
  <2>1. \A x \in Nat \ {0} : x * x \in Nat \ {0}  OBVIOUS
  <2>2. \A sqrt \in MinSqrt + 1..MaxSqrt - 1 : sqrt \in Nat \ {0}  BY <1>a
  <2> QED  BY <1>a, <2>1, <2>2
<1>1. Init => Typed
  <2> SUFFICES ASSUME Init PROVE Typed
    OBVIOUS
  <2>1. route \in [pools : Seq(Pool), path : Seq(Asset)]  BY DEF Init
  <2>2. quoted \in 0..MaxQuote /\ tol \in Nat /\ hops \in Nat  BY <1>a DEF Init
  <2>3. priced = [sqrt |-> Q96, limit |-> [base |-> 1, quote |-> 2,
                                          ratio |-> [num |-> 1, den |-> 1]]]
    BY DEF Init, Unpriced, PriceOf, Fraction
  <2>4. [num |-> 1, den |-> 1] \in Fractions  BY DEF Fractions
  <2>5. query.from \notin HasFactory  BY DiscoveryAssumption DEF Init, NoQuery
  <2> QED  BY <1>a, <2>1, <2>2, <2>3, <2>4, <2>5 DEF Typed
<1>2. Typed /\ [Next]_vars => Typed'
  <2> SUFFICES ASSUME Typed, [Next]_vars PROVE Typed'
    OBVIOUS
  <2> DEFINE PricedTyped == /\ priced.sqrt \in MinSqrt + 1..MaxSqrt - 1
                            /\ priced.limit \in [base : Nat, quote : Nat, ratio : Fractions]
  <2>t. /\ route \in [pools : Seq(Pool), path : Seq(Asset)]
        /\ quoted \in 0..MaxQuote /\ tol \in Nat /\ hops \in Nat
        /\ PricedTyped
        /\ query.from \in HasFactory =>
             query.assets \in Seq(Tokens) /\ query.deployed \subseteq Pools(query.from)
    BY DEF Typed
  <2>1. CASE AddHop
    <3>1. PICK pool \in Pool, asset \in Asset :
            route' = [pools |-> Append(route.pools, pool),
                      path  |-> Append(route.path, asset)]
      BY <2>1 DEF AddHop
    <3>2. route' \in [pools : Seq(Pool), path : Seq(Asset)]  BY <2>t, <3>1
    <3> QED  BY <2>1, <2>t, <3>2 DEF AddHop, guard, Typed
  <2>2. CASE DropAsset
    <3>1. SubSeq(route.path, 1, Len(route.path) - 1) \in Seq(Asset)
      BY <2>2, <2>t DEF DropAsset
    <3>2. route' = [route EXCEPT !.path = SubSeq(route.path, 1, Len(route.path) - 1)]
      BY <2>2 DEF DropAsset
    <3>3. route' \in [pools : Seq(Pool), path : Seq(Asset)]  BY <2>t, <3>1, <3>2
    <3> QED  BY <2>2, <2>t, <3>3 DEF DropAsset, guard, Typed
  <2>3. CASE Requote
    BY <1>a, <2>3, <2>t DEF Requote, Typed
  <2>4. CASE Loosen
    BY <2>4, <2>t DEF Loosen, Typed
  <2>5. CASE Lengthen
    BY <2>5, <2>t DEF Lengthen, Typed
  <2>6. CASE Ask
    <3>0. PICK from \in {"UniswapV2", "Aerodrome", "UniswapV3", "Slipstream"} :
            \E assets \in SeqOf(Tokens, MaxAssets), deployed \in SUBSET Pools(from) : \E lost :
              query' = [from |-> from, assets |-> assets,
                        deployed |-> deployed, lost |-> lost]
      BY <2>6 DEF Ask
    <3>1. PICK assets \in SeqOf(Tokens, MaxAssets), deployed \in SUBSET Pools(from) :
            \E lost : query' = [from |-> from, assets |-> assets,
                               deployed |-> deployed, lost |-> lost]
      BY <3>0
    <3>2. assets \in Seq(Tokens)
      <4>1. PICK m \in 0..MaxAssets : assets \in [1..m -> Tokens]  BY DEF SeqOf
      <4>2. m \in Nat  BY PartsAssumption
      <4> QED  BY <4>1, <4>2, SeqDef
    <3>3. query'.assets \in Seq(Tokens) /\ query'.deployed \subseteq Pools(query'.from)
      BY <3>1, <3>2
    <3>4. Pools(query'.from) = Pools(query.from)'  BY DEF Pools, Tiers
    <3>5. UNCHANGED <<route, quoted, tol, hops, priced>>  BY <2>6 DEF Ask, guard
    <3> QED  BY <2>t, <3>3, <3>4, <3>5 DEF Typed
  <2>7. CASE AskConfigured
    <3>1. query'.from \in DOMAIN Configured
      BY <2>7 DEF AskConfigured, NoQuery
    <3>2. query'.from \notin HasFactory  BY <3>1, DiscoveryAssumption
    <3> QED  BY <2>7, <2>t, <3>2 DEF AskConfigured, guard, Typed
  <2>8. CASE Store
    BY <2>8, <2>t DEF Store, guard, Typed
  <2>9. CASE Price
    <3>1. CASE \E limit \in Limits : priced' = [sqrt |-> Q96, limit |-> limit]
      <4>1. \A limit \in Limits : limit \in [base : Nat, quote : Nat, ratio : Fractions]
        <5>1. 1..MaxRatio \subseteq Nat \ {0}  BY <1>a
        <5>2. [num : 1..MaxRatio, den : 1..MaxRatio] \subseteq Fractions
          BY <5>1 DEF Fractions
        <5> QED  BY <1>a, <5>2 DEF Limits
      <4>2. PricedTyped'  BY <1>a, <3>1, <4>1
      <4> QED  BY <2>9, <2>t, <4>2 DEF Price, guard, Typed
    <3>2. CASE \E sqrt \in MinSqrt + 1..MaxSqrt - 1 :
                 priced' = [sqrt |-> sqrt, limit |-> SpotPrice(<<1, 2>>, 1, 2, sqrt)]
      <4>1. PICK sqrt \in MinSqrt + 1..MaxSqrt - 1 :
                 priced' = [sqrt |-> sqrt, limit |-> SpotPrice(<<1, 2>>, 1, 2, sqrt)]
        BY <3>2
      <4>2. SpotPrice(<<1, 2>>, 1, 2, sqrt) =
              [base |-> 1, quote |-> 2, ratio |-> [num |-> sqrt * sqrt, den |-> Q96 * Q96]]
        BY DEF SpotPrice, PriceOf, FromSqrt, Fraction
      <4>3. [num |-> sqrt * sqrt, den |-> Q96 * Q96] \in Fractions
        BY <1>b DEF Fractions
      <4>4. PricedTyped'  BY <4>1, <4>2, <4>3
      <4> QED  BY <2>9, <2>t, <4>4 DEF Price, guard, Typed
    <3> QED  BY <2>9, <3>1, <3>2 DEF Price
  <2>10. CASE UNCHANGED vars
    BY <2>10, <2>t DEF vars, Typed
  <2> QED  BY <2>1, <2>2, <2>3, <2>4, <2>5, <2>6, <2>7, <2>8, <2>9, <2>10 DEF Next
<1> QED  BY <1>1, <1>2, PTL DEF Spec

-----------------------------------------------------------------------------
(* The partition of a route. *)

(* partition cuts every classifiable route a caller can list into a        *)
(* gap-free cover of maximal same-router spans (router_span.rs).           *)
THEOREM SpansPartitionRouteAlways == Spec => []SpansPartitionRoute
<1>1. Typed => SpansPartitionRoute
  <2> SUFFICES ASSUME Typed, Classifiable(route.pools)
               PROVE  IsPartition(route.pools, Partition(route.pools), PoolCount)
    BY DEF SpansPartitionRoute
  <2>1. Len(route.pools) \in Nat  BY DEF Typed
  <2> QED  BY <2>1, PartitionIsPartition DEF PoolCount
<1> QED  BY <1>1, TypedInvariant, PTL

(* The spans of a partition, as the facts about them are used below.       *)
Spans(spans, count) ==
  /\ spans \in Seq(Span) /\ count \in Nat
  /\ IsPartition(route.pools, spans, count)

LEMMA SpanEnds ==
  ASSUME NEW spans, NEW count, Spans(spans, count)
  PROVE  /\ Len(spans) \in Nat
         /\ \A k \in 1..Len(spans) :
              /\ spans[k].start \in Nat /\ spans[k].end \in Nat
              /\ spans[k].start < spans[k].end /\ spans[k].end <= count
         /\ \A k \in 1..Len(spans) - 1 : spans[k].end = spans[k + 1].start
         /\ Len(spans) > 0 => spans[1].start = 0 /\ spans[Len(spans)].end = count
         /\ Len(spans) = 0 => count = 0
<1>1. Len(spans) \in Nat  BY DEF Spans
<1>2. GapFree(spans, count)  BY DEF Spans, IsPartition
<1>3. \A k \in 1..Len(spans) : spans[k] \in Span  BY DEF Spans
<1>4. \A k \in 1..Len(spans) :
        /\ spans[k].start \in Nat /\ spans[k].end \in Nat
        /\ spans[k].start < spans[k].end /\ spans[k].end <= count
  BY <1>2, <1>3 DEF GapFree, Span
<1>5. spans = <<>> <=> Len(spans) = 0  BY DEF Spans
<1> QED  BY <1>1, <1>2, <1>4, <1>5 DEF GapFree

(* The ends of earlier spans come first.                                   *)
LEMMA EndsClimb ==
  ASSUME NEW spans, NEW count, Spans(spans, count),
         NEW j \in 1..Len(spans), NEW k \in 1..Len(spans), j < k
  PROVE  spans[j].end <= spans[k].start
<1> DEFINE S == {i \in 0..Len(spans) :
                   (j < i => spans[j].end <= spans[i].start)}
<1>e. /\ Len(spans) \in Nat
      /\ \A i \in 1..Len(spans) :
           spans[i].start \in Nat /\ spans[i].end \in Nat /\ spans[i].start < spans[i].end
      /\ \A i \in 1..Len(spans) - 1 : spans[i].end = spans[i + 1].start
  BY SpanEnds
<1>1. 0 \in S  BY <1>e
<1>2. ASSUME NEW i \in 0..Len(spans) - 1, i \in S PROVE i + 1 \in S
  <2>1. i + 1 \in 0..Len(spans)  BY <1>e
  <2>2. CASE j < i
    <3>1. i \in 1..Len(spans) - 1 /\ i \in 1..Len(spans)  BY <1>e, <2>2
    <3>2. spans[j].end <= spans[i].start  BY <1>2, <2>2
    <3>3. spans[i].start < spans[i].end /\ spans[i].end = spans[i + 1].start
      BY <1>e, <3>1
    <3>4. i + 1 \in 1..Len(spans)  BY <1>e, <3>1
    <3>5. spans[j].end <= spans[i + 1].start  BY <1>e, <3>1, <3>2, <3>3, <3>4
    <3> QED  BY <2>1, <3>5
  <2>3. CASE j = i
    <3>1. i \in 1..Len(spans) - 1 /\ i + 1 \in 1..Len(spans)  BY <1>e, <2>3
    <3>2. spans[j].end <= spans[i + 1].start  BY <1>e, <2>3, <3>1
    <3> QED  BY <2>1, <3>2
  <2>4. CASE j > i
    BY <1>e, <2>1, <2>4
  <2> QED  BY <1>e, <2>2, <2>3, <2>4
<1>3. k \in S
  <2> HIDE DEF S
  <2>1. 0..Len(spans) \subseteq S  BY <1>e, <1>1, <1>2, BoundedInduction
  <2> QED  BY <1>e, <2>1
<1> QED  BY <1>3

(* Every pool lies in a span.                                              *)
LEMMA SpansCover ==
  ASSUME NEW spans, NEW count, Spans(spans, count), NEW i \in 1..count
  PROVE  \E k \in 1..Len(spans) : i \in spans[k].start + 1..spans[k].end
<1> DEFINE Ends == {k \in 1..Len(spans) : i <= spans[k].end}
<1>e. /\ Len(spans) \in Nat
      /\ \A k \in 1..Len(spans) :
           spans[k].start \in Nat /\ spans[k].end \in Nat /\ spans[k].start < spans[k].end
      /\ \A k \in 1..Len(spans) - 1 : spans[k].end = spans[k + 1].start
      /\ Len(spans) > 0 => spans[1].start = 0 /\ spans[Len(spans)].end = count
      /\ Len(spans) = 0 => count = 0
      /\ count \in Nat
  BY SpanEnds DEF Spans
<1>1. Len(spans) > 0 /\ Len(spans) \in Ends  BY <1>e
<1>2. PICK k \in Ends : \A j \in Ends : k <= j
  <2>1. Ends \in SUBSET Nat  OBVIOUS
  <2> HIDE DEF Ends
  <2> QED  BY <1>1, <2>1, LeastElement
<1>3. spans[k].start < i
  <2>1. CASE k = 1  BY <1>e, <1>1, <2>1
  <2>2. CASE k # 1
    <3>1. k - 1 \in 1..Len(spans) - 1 /\ k - 1 \in 1..Len(spans)  BY <1>e, <1>2, <2>2
    <3>2. k - 1 \notin Ends  BY <1>2, <3>1
    <3>3. spans[k - 1].end < i  BY <1>e, <3>1, <3>2
    <3>4. spans[k - 1].end = spans[k].start
      <4>1. (k - 1) + 1 = k  BY <1>e
      <4> QED  BY <1>e, <3>1, <4>1
    <3> QED  BY <3>3, <3>4
  <2> QED  BY <2>1, <2>2
<1> QED  BY <1>e, <1>2, <1>3

(* The interior ends of the spans are a way of cutting the route.          *)
LEMMA EndsCut ==
  ASSUME Typed, NEW spans, Spans(spans, PoolCount)
  PROVE  Cuttable({spans[k].end : k \in 1..Len(spans) - 1})
<1> DEFINE cuts == {spans[k].end : k \in 1..Len(spans) - 1}
<1> SUFFICES ASSUME NEW first \in 1..PoolCount, NEW last \in 1..PoolCount,
                    first <= last, (first..last - 1) \cap cuts = {}
             PROVE  /\ RouterKindOf(route.pools[first]) = RouterKindOf(route.pools[last])
                    /\ RouterKindOf(route.pools[first]) = "Curve"
                         => last - first < CURVE_MAX_HOPS
  BY DEF Cuttable
<1>e. /\ Len(spans) \in Nat
      /\ \A k \in 1..Len(spans) :
           spans[k].start \in Nat /\ spans[k].end \in Nat /\ spans[k].start < spans[k].end
      /\ Len(spans) > 0 => spans[Len(spans)].end = PoolCount
      /\ PoolCount \in Nat
  BY SpanEnds DEF Spans
<1>1. PICK k \in 1..Len(spans) : first \in spans[k].start + 1..spans[k].end
  BY SpansCover
<1>2. last <= spans[k].end
  <2> SUFFICES ASSUME spans[k].end < last PROVE FALSE
    BY <1>e
  <2>1. k # Len(spans)  BY <1>e
  <2>2. k \in 1..Len(spans) - 1  BY <1>e, <2>1
  <2>3. spans[k].end \in cuts  BY <2>2
  <2>4. spans[k].end \in first..last - 1  BY <1>e, <1>1
  <2> QED  BY <2>3, <2>4
<1>3. last \in spans[k].start + 1..spans[k].end  BY <1>e, <1>1, <1>2
<1>4. /\ RouterKindOf(route.pools[first]) = spans[k].kind
      /\ RouterKindOf(route.pools[last]) = spans[k].kind
  BY <1>1, <1>3 DEF Spans, IsPartition, OneRouterPerSpan
<1>5. spans[k].kind = "Curve" => spans[k].end - spans[k].start <= CURVE_MAX_HOPS
  BY DEF Spans, IsPartition, CurveCapped, SpanLen
<1>6. CURVE_MAX_HOPS \in Nat  BY RoutingAssumption
<1> QED  BY <1>e, <1>1, <1>3, <1>4, <1>5, <1>6

(* Every way of cutting the route cuts in, or at the end of, every span    *)
(* but the last.                                                           *)
LEMMA CutsInEverySpan ==
  ASSUME Typed, NEW spans, Spans(spans, PoolCount),
         NEW cuts, Cuttable(cuts), NEW k \in 1..Len(spans) - 1
  PROVE  \E cut \in cuts : cut \in spans[k].start + 1..spans[k].end
<1>e. /\ Len(spans) \in Nat
      /\ \A i \in 1..Len(spans) :
           /\ spans[i].start \in Nat /\ spans[i].end \in Nat
           /\ spans[i].start < spans[i].end /\ spans[i].end <= PoolCount
      /\ spans[k].end = spans[k + 1].start
      /\ PoolCount \in Nat
  <2>1. PoolCount \in Nat  BY DEF Spans
  <2> HIDE DEF PoolCount
  <2> QED  BY <2>1, SpanEnds
<1>k. k \in 1..Len(spans) /\ k + 1 \in 1..Len(spans)  BY <1>e
<1> DEFINE first == spans[k].start + 1
           last == spans[k].end + 1
<1>1. first \in 1..PoolCount /\ last \in 1..PoolCount /\ first <= last
  <2>1. /\ spans[k].start \in Nat /\ spans[k].end \in Nat
        /\ spans[k].start < spans[k].end
    BY <1>e, <1>k
  <2>2. /\ spans[k + 1].start \in Nat /\ spans[k + 1].end \in Nat
        /\ spans[k + 1].start < spans[k + 1].end /\ spans[k + 1].end <= PoolCount
    BY <1>e, <1>k
  <2> HIDE DEF PoolCount
  <2> QED  BY <1>e, <2>1, <2>2
<1>2. /\ RouterKindOf(route.pools[first]) = spans[k].kind
      /\ RouterKindOf(route.pools[last]) = spans[k + 1].kind
  <2>1. first \in spans[k].start + 1..spans[k].end
        /\ last \in spans[k + 1].start + 1..spans[k + 1].end
    BY <1>e, <1>k
  <2> HIDE DEF first, last
  <2> QED  BY <1>k, <2>1 DEF Spans, IsPartition, OneRouterPerSpan
<1>3. \/ spans[k].kind # spans[k + 1].kind
      \/ spans[k].kind = "Curve" /\ spans[k].end - spans[k].start = CURVE_MAX_HOPS
  BY DEF Spans, IsPartition, Maximal, SpanLen
<1>c. CURVE_MAX_HOPS \in Nat  BY RoutingAssumption
<1>4. last - first = spans[k].end - spans[k].start  BY <1>e, <1>k
<1>5. (first..last - 1) \cap cuts # {}
  <2> HIDE DEF first, last
  <2> SUFFICES ASSUME (first..last - 1) \cap cuts = {} PROVE FALSE
    OBVIOUS
  <2>1. /\ RouterKindOf(route.pools[first]) = RouterKindOf(route.pools[last])
        /\ RouterKindOf(route.pools[first]) = "Curve" => last - first < CURVE_MAX_HOPS
    BY <1>1 DEF Cuttable
  <2> QED  BY <1>c, <1>2, <1>3, <1>4, <2>1
<1>6. last - 1 = spans[k].end  BY <1>e, <1>k
<1> QED  BY <1>5, <1>6

(* No way of cutting a classifiable route into single-router transactions  *)
(* has fewer of them than the partition that the plan executes, for every  *)
(* route and every cap on a Curve call.                                    *)
THEOREM FewestTransactionsAlways == Spec => []FewestTransactions
<1>1. Typed => FewestTransactions
  <2> SUFFICES ASSUME Typed, PoolCount > 0, Classifiable(route.pools)
               PROVE  Len(Partition(route.pools)) =
                        1 + Min({Cardinality(cuts) :
                                  cuts \in {s \in SUBSET (1..PoolCount - 1) : Cuttable(s)}})
    BY DEF FewestTransactions
  <2> DEFINE spans == Partition(route.pools)
             m == Len(spans) - 1
             ends == [k \in 1..m |-> spans[k].end]
             Ends == {spans[k].end : k \in 1..m}
             Ways == {s \in SUBSET (1..PoolCount - 1) : Cuttable(s)}
             Counts == {Cardinality(cuts) : cuts \in Ways}
  <2>1. Spans(spans, PoolCount)
    <3>1. PoolCount \in Nat  BY DEF Typed, PoolCount
    <3>2. spans \in Seq(Span) /\ IsPartition(route.pools, spans, PoolCount)
      BY <3>1, PartitionIsPartition DEF PoolCount
    <3> QED  BY <3>1, <3>2 DEF Spans
  <2> HIDE DEF spans
  <2>e. /\ Len(spans) \in Nat
        /\ \A i \in 1..Len(spans) :
             /\ spans[i].start \in Nat /\ spans[i].end \in Nat
             /\ spans[i].start < spans[i].end /\ spans[i].end <= PoolCount
        /\ Len(spans) > 0 => spans[Len(spans)].end = PoolCount
        /\ Len(spans) = 0 => PoolCount = 0
        /\ PoolCount \in Nat
    <3>1. PoolCount \in Nat  BY <2>1 DEF Spans
    <3> QED  BY <2>1, <3>1, SpanEnds
  <2>2. m \in Nat /\ Len(spans) = m + 1  BY <2>e
  <2>3. \A j, k \in 1..Len(spans) : j < k => spans[j].end <= spans[k].start
    BY <2>1, EndsClimb
  <2> HIDE DEF m
  <2>4. Ends \in Ways
    <3>1. \A k \in 1..m : spans[k].end \in 1..PoolCount - 1
      <4> SUFFICES ASSUME NEW k \in 1..m PROVE spans[k].end \in 1..PoolCount - 1
        OBVIOUS
      <4>1. k \in 1..Len(spans) /\ k < Len(spans) /\ Len(spans) \in 1..Len(spans)
        BY <2>2
      <4>2. spans[k].end <= spans[Len(spans)].start  BY <2>3, <4>1
      <4> QED  BY <2>e, <4>1, <4>2
    <3>2. Cuttable(Ends)  BY <2>1, EndsCut DEF m
    <3> QED  BY <3>1, <3>2
  <2>5. IsFiniteSet(1..m) /\ Cardinality(1..m) = m
    BY <2>2, FS_Interval
  <2>6. Cardinality(Ends) = m
    <3>1. ends \in [1..m -> Ends]  OBVIOUS
    <3>2. \A j, k \in 1..m : ends[j] = ends[k] => j = k
      <4> SUFFICES ASSUME NEW j \in 1..m, NEW k \in 1..m, j < k
                   PROVE  ends[j] # ends[k]
        BY <2>2
      <4>1. j \in 1..Len(spans) /\ k \in 1..Len(spans)  BY <2>2
      <4> QED  BY <2>e, <2>3, <4>1
    <3>3. \A e \in Ends : \E k \in 1..m : ends[k] = e  OBVIOUS
    <3> HIDE DEF ends, Ends
    <3>4. ends \in Bijection(1..m, Ends)
      BY <3>1, <3>2, <3>3 DEF Bijection, Injection, Surjection, IsInjective
    <3> QED  BY <2>5, <3>4, FS_Bijection DEF ExistsBijection
  <2>7. ASSUME NEW cuts \in Ways PROVE Cardinality(cuts) \in Nat /\ m <= Cardinality(cuts)
    <3> DEFINE cut == [k \in 1..m |->
                         CHOOSE c \in cuts : c \in spans[k].start + 1..spans[k].end]
    <3>1. IsFiniteSet(cuts)
      <4>1. IsFiniteSet(1..PoolCount - 1)  BY <2>e, FS_Interval
      <4> QED  BY <4>1, FS_Subset
    <3>2. \A k \in 1..m : cut[k] \in cuts /\ cut[k] \in spans[k].start + 1..spans[k].end
      <4> SUFFICES ASSUME NEW k \in 1..m
                   PROVE cut[k] \in cuts /\ cut[k] \in spans[k].start + 1..spans[k].end
        OBVIOUS
      <4>1. \E c \in cuts : c \in spans[k].start + 1..spans[k].end
        BY <2>1, CutsInEverySpan DEF m
      <4> QED  BY <4>1
    <3>d. cut = [k \in 1..m |-> cut[k]]  OBVIOUS
    <3> HIDE DEF cut
    <3>3. \A j, k \in 1..m : cut[j] = cut[k] => j = k
      <4> SUFFICES ASSUME NEW j \in 1..m, NEW k \in 1..m, j < k
                   PROVE  cut[j] # cut[k]
        BY <2>2
      <4>1. j \in 1..Len(spans) /\ k \in 1..Len(spans)  BY <2>2
      <4>2. spans[j].end <= spans[k].start  BY <2>3, <4>1
      <4>3. cut[j] <= spans[j].end /\ spans[k].start + 1 <= cut[k]
            /\ cut[j] \in Int /\ cut[k] \in Int
        BY <2>e, <3>2, <4>1
      <4> QED  BY <2>e, <4>1, <4>2, <4>3
    <3>4. cut \in Injection(1..m, cuts)
      BY <3>2, <3>3, <3>d DEF Injection, IsInjective
    <3> QED  BY <2>5, <3>1, <3>4, FS_Injection, FS_CardinalityType
  <2>8. m \in Counts /\ \A c \in Counts : m <= c /\ c \in Nat
    BY <2>4, <2>6, <2>7
  <2>9. Min(Counts) = m
    <3> HIDE DEF Counts
    <3>1. Min(Counts) \in Counts /\ \A c \in Counts : Min(Counts) <= c
      BY <2>8 DEF Min
    <3> DEFINE least == Min(Counts)
    <3>2. least \in Counts /\ \A c \in Counts : least <= c  BY <3>1
    <3> HIDE DEF least
    <3>3. least \in Nat /\ m <= least /\ least <= m  BY <2>8, <3>2
    <3>4. least = m  BY <2>2, <3>3
    <3> QED  BY <3>4 DEF least
  <2> QED  BY <2>2, <2>9 DEF spans
<1> QED  BY <1>1, TypedInvariant, PTL

-----------------------------------------------------------------------------
(* The slippage guards. *)

LEMMA CeilDivBelow ==
  ASSUME NEW x \in Nat, NEW d \in Nat \ {0}
  PROVE  d * CeilDiv(x, d) <= x + d - 1
<1> DEFINE y == x + d - 1
<1>1. y \in Nat  OBVIOUS
<1> HIDE DEF y
<1>2. y \div d \in Nat /\ d * (y \div d) <= y  BY <1>1
<1> QED  BY <1>2 DEF CeilDiv, y

(* Both guards of every quote are usable at once, and the ceiling allows   *)
(* less than one unit beyond quoted * (1 + tol), for every scale and       *)
(* tolerance, over one hundred percent included.                           *)
THEOREM GuardsBracketQuoteAlways == Spec => []GuardsBracketQuote
<1>1. Typed => GuardsBracketQuote
  <2> SUFFICES ASSUME Typed PROVE GuardsBracketQuote
    OBVIOUS
  <2>1. quoted \in Amount /\ tol \in Nat
    BY PartsAssumption, MaxRawAssumption DEF Typed, Amount
  <2>2. /\ MinAmountOut(quoted, tol) <= quoted
        /\ MaxAmountIn(quoted, tol) \in quoted..MaxRaw
    <3>1. MinAmountOut(quoted, tol) \in 0..quoted
          /\ MaxAmountIn(quoted, tol) \in quoted..MaxRaw
      BY <2>1, GuardsBracket
    <3> QED  BY <2>1, <3>1 DEF Amount
  <2> DEFINE x == quoted * (BPS_ONE + tol)
             grossed == CeilDiv(x, BPS_ONE)
  <2>b. BPS_ONE \in Nat \ {0} /\ MaxRaw \in Nat
    BY BpsAssumption, MaxRawAssumption
  <2>3. x \in Nat
    <3>1. \A m, n \in Nat : m * n \in Nat  OBVIOUS
    <3>2. quoted \in Nat /\ BPS_ONE + tol \in Nat  BY <2>1, <2>b DEF Amount
    <3> QED  BY <3>1, <3>2
  <2>4. MaxAmountIn(quoted, tol) = IF grossed > MaxRaw THEN MaxRaw ELSE grossed
    BY DEF MaxAmountIn
  <2> HIDE DEF x
  <2>5. grossed \in Nat /\ BPS_ONE * grossed <= x + BPS_ONE - 1
    BY <2>b, <2>3, CeilDivBelow, CeilDivCovers
  <2> HIDE DEF grossed
  <2>6. MaxAmountIn(quoted, tol) \in Nat /\ MaxAmountIn(quoted, tol) <= grossed
    BY <2>b, <2>4, <2>5
  <2>7. MaxAmountIn(quoted, tol) * BPS_ONE < x + BPS_ONE
    <3>1. \A b \in Nat \ {0}, m, g, y \in Nat :
            m <= g /\ b * g <= y + b - 1 => m * b < y + b
      <4> SUFFICES ASSUME NEW b \in Nat \ {0}, NEW m \in Nat, NEW g \in Nat, NEW y \in Nat,
                          m <= g, b * g <= y + b - 1
                   PROVE  m * b < y + b
        OBVIOUS
      <4>1. b * m <= b * g /\ b * m = m * b  OBVIOUS
      <4>2. b * m \in Nat /\ b * g \in Nat  OBVIOUS
      <4> QED  BY <4>1, <4>2
    <3> QED  BY <2>b, <2>3, <2>5, <2>6, <3>1
  <2>8. quoted <= MaxAmountIn(quoted, tol)  BY <2>1, <2>2 DEF Amount
  <2> QED  BY <2>2, <2>7, <2>8 DEF GuardsBracketQuote, x
<1> QED  BY <1>1, TypedInvariant, PTL

(* A floor taken hop by hop keeps at most the share that is kept without   *)
(* rounding.                                                               *)
LEMMA HopByHopKeepsLess ==
  ASSUME Typed
  PROVE  /\ HopByHopFloor \in Nat
         /\ HopByHopFloor * KeptDen(hops) <= quoted * KeptNum(tol, hops)
<1> DEFINE r == Retained(tol)
           Is(f) == f = [h \in 0..hops |->
                          IF h = 0 THEN quoted ELSE MinAmountOut(f[h - 1], tol)]
           step == [i \in 1..hops |-> [x \in Nat |-> MinAmountOut(x, tol)]]
<1>t. quoted \in Nat /\ tol \in Nat /\ hops \in Nat
  BY PartsAssumption DEF Typed
<1>b. BPS_ONE \in Nat \ {0} /\ r \in Nat  BY <1>t, BpsAssumption, RetainedRange
<1>1. \A x \in Nat : MinAmountOut(x, tol) \in Nat /\ BPS_ONE * MinAmountOut(x, tol) <= x * r
  <2> SUFFICES ASSUME NEW x \in Nat
               PROVE  MinAmountOut(x, tol) \in Nat /\ BPS_ONE * MinAmountOut(x, tol) <= x * r
    OBVIOUS
  <2>1. MinAmountOut(x, tol) = (x * r) \div BPS_ONE  BY DEF MinAmountOut
  <2> HIDE DEF r
  <2> DEFINE y == x * r
  <2>2. y \in Nat  BY <1>b
  <2> HIDE DEF y
  <2>3. y \div BPS_ONE \in Nat /\ BPS_ONE * (y \div BPS_ONE) <= y  BY <1>b, <2>2
  <2> QED  BY <2>1, <2>3 DEF y
<1>2. PICK g : Climbs(g, hops, Nat, quoted, step)
  <2>1. step \in [1..hops -> [Nat -> Nat]]  BY <1>1
  <2> HIDE DEF step
  <2> QED  BY <1>t, <2>1, RecursionUp
<1>3. \E f : Is(f)
  <2>1. \A h \in 0..hops : g[h] = IF h = 0 THEN quoted ELSE MinAmountOut(g[h - 1], tol)
    <3> SUFFICES ASSUME NEW h \in 0..hops, h # 0 PROVE g[h] = MinAmountOut(g[h - 1], tol)
      BY <1>2 DEF Climbs
    <3>1. h \in 1..hops /\ h - 1 \in 0..hops  BY <1>t
    <3>2. g[h] = step[h][g[h - 1]] /\ g[h - 1] \in Nat  BY <1>2, <3>1 DEF Climbs
    <3> QED  BY <3>1, <3>2
  <2>2. g = [h \in 0..hops |-> g[h]]  BY <1>2 DEF Climbs
  <2>3. Is(g)  BY <2>1, <2>2
  <2> HIDE DEF Is
  <2> QED  BY <2>3
<1> DEFINE floor == CHOOSE f : Is(f)
<1>4. Is(floor)  BY <1>3
<1>5. HopByHopFloor = floor[hops]  BY DEF HopByHopFloor
<1> HIDE DEF floor
<1>6. floor[0] = quoted
      /\ \A i \in 0..hops - 1 : floor[i + 1] = MinAmountOut(floor[i], tol)
  <2>1. floor[0] = quoted  BY <1>t, <1>4
  <2>2. \A i \in 0..hops - 1 : i + 1 \in 0..hops /\ i + 1 # 0 /\ (i + 1) - 1 = i
    BY <1>t
  <2> QED  BY <1>4, <2>1, <2>2
<1> DEFINE S == {i \in 0..hops : /\ floor[i] \in Nat
                                 /\ floor[i] * KeptDen(i) <= quoted * KeptNum(tol, i)}
<1>7. 0 \in S
  <2>1. KeptNum(tol, 0) = 1 /\ KeptDen(0) = 1
    <3>1. BPS_ONE \in Nat  BY <1>b
    <3> QED  BY <1>b, <3>1, PowersDef DEF KeptNum, KeptDen
  <2> QED  BY <1>t, <1>6, <2>1
<1>8. ASSUME NEW i \in 0..hops - 1, i \in S PROVE i + 1 \in S
  <2> DEFINE f == floor[i]
             next == floor[i + 1]
             d == KeptDen(i)
             k == KeptNum(tol, i)
  <2>0. i \in Nat /\ i + 1 \in 0..hops  BY <1>t
  <2>1. /\ f \in Nat /\ d \in Nat /\ k \in Nat /\ f * d <= quoted * k
    BY <1>t, <1>8, <2>0, KeptRange
  <2>2. next = MinAmountOut(f, tol)  BY <1>6
  <2>3. KeptNum(tol, i + 1) = k * r /\ KeptDen(i + 1) = d * BPS_ONE
    <3>1. BPS_ONE \in Nat  BY <1>b
    <3> QED  BY <1>b, <2>0, <3>1, PowersStep DEF KeptNum, KeptDen
  <2>4. next \in Nat /\ BPS_ONE * next <= f * r  BY <1>1, <2>1, <2>2
  <2> HIDE DEF f, next, d, k, r
  <2>5. next * (d * BPS_ONE) <= quoted * (k * r)
    <3>1. \A a, b, c \in Nat : a <= b => a * c <= b * c
      OBVIOUS
    <3>2. (BPS_ONE * next) * d <= (f * r) * d
      <4>1. BPS_ONE * next \in Nat /\ f * r \in Nat  BY <1>b, <2>1, <2>4
      <4> QED  BY <2>1, <2>4, <3>1, <4>1
    <3>3. (f * d) * r <= (quoted * k) * r
      <4>1. f * d \in Nat /\ quoted * k \in Nat  BY <1>t, <2>1
      <4> QED  BY <1>b, <2>1, <3>1, <4>1
    <3>4. \A a, b, c \in Nat : (a * b) * c = (a * c) * b /\ (a * b) * c = a * (b * c)
                               /\ (a * b) * c = b * (c * a) /\ (a * b) * c \in Nat
      OBVIOUS
    <3>5. (f * r) * d = (f * d) * r  BY <1>b, <2>1, <3>4
    <3>6. (BPS_ONE * next) * d = next * (d * BPS_ONE)  BY <1>b, <2>1, <2>4, <3>4
    <3>7. (quoted * k) * r = quoted * (k * r)  BY <1>t, <1>b, <2>1, <3>4
    <3>8. /\ (BPS_ONE * next) * d \in Nat /\ (f * r) * d \in Nat
          /\ (quoted * k) * r \in Nat
      BY <1>t, <1>b, <2>1, <2>4, <3>4
    <3> QED  BY <3>2, <3>3, <3>5, <3>6, <3>7, <3>8
  <2> QED  BY <2>0, <2>3, <2>4, <2>5 DEF next
<1>9. hops \in S
  <2> HIDE DEF S
  <2>1. 0..hops \subseteq S  BY <1>t, <1>7, <1>8, BoundedInduction
  <2> QED  BY <1>t, <2>1
<1> QED  BY <1>5, <1>9

(* The floor of a compounded tolerance reverts whatever hop-by-hop guards  *)
(* of the same tolerance would have reverted, and is tight to one basis    *)
(* point, for every quote, tolerance and number of hops.                   *)
THEOREM CompoundIsTightAlways == Spec => []CompoundIsTight
<1>1. Typed => CompoundIsTight
  <2> SUFFICES ASSUME Typed PROVE CompoundIsTight
    OBVIOUS
  <2> DEFINE k == KeptNum(tol, hops)
             d == KeptDen(hops)
             x == BPS_ONE * k
             c == CeilDiv(x, d)
             f == HopByHopFloor
  <2>t. quoted \in Nat /\ tol \in Nat /\ hops \in Nat /\ BPS_ONE \in Nat \ {0}
    BY PartsAssumption, BpsAssumption DEF Typed
  <2>1. k \in Nat /\ d \in Nat \ {0}  BY <2>t, KeptRange
  <2>2. f \in Nat /\ f * d <= quoted * k  BY HopByHopKeepsLess
  <2>3. Compound(tol, hops) = SaturatingSub(BPS_ONE, c)  BY DEF Compound
  <2>4. k <= d
    <3> DEFINE S == {i \in 0..hops : KeptNum(tol, i) <= KeptDen(i)}
    <3>1. Retained(tol) \in Nat /\ Retained(tol) <= BPS_ONE
      BY <2>t, RetainedRange
    <3>2. BPS_ONE \in Nat  BY <2>t
    <3>3. 0 \in S
      <4>1. KeptNum(tol, 0) = 1 /\ KeptDen(0) = 1
        BY <3>1, <3>2, PowersDef DEF KeptNum, KeptDen
      <4> QED  BY <2>t, <4>1
    <3>4. ASSUME NEW i \in 0..hops - 1, i \in S PROVE i + 1 \in S
      <4>1. i \in Nat /\ i + 1 \in 0..hops  BY <2>t
      <4>2. /\ KeptNum(tol, i + 1) = KeptNum(tol, i) * Retained(tol)
            /\ KeptDen(i + 1) = KeptDen(i) * BPS_ONE
        BY <3>1, <3>2, <4>1, PowersStep DEF KeptNum, KeptDen
      <4>3. KeptNum(tol, i) \in Nat /\ KeptDen(i) \in Nat /\ KeptNum(tol, i) <= KeptDen(i)
        BY <2>t, <3>4, <4>1, KeptRange
      <4>4. \A a, b, e, g \in Nat : a <= b /\ e <= g => a * e <= b * g
        <5> SUFFICES ASSUME NEW a \in Nat, NEW b \in Nat, NEW e \in Nat, NEW g \in Nat,
                            a <= b, e <= g
                     PROVE  a * e <= b * g
          OBVIOUS
        <5>1. a * e <= b * e  OBVIOUS
        <5>2. b * e <= b * g  OBVIOUS
        <5>3. a * e \in Nat /\ b * e \in Nat /\ b * g \in Nat  OBVIOUS
        <5> QED  BY <5>1, <5>2, <5>3
      <4>5. KeptNum(tol, i + 1) <= KeptDen(i + 1)
        BY <3>1, <3>2, <4>2, <4>3, <4>4
      <4> QED  BY <4>1, <4>5
    <3>5. hops \in S
      <4> HIDE DEF S
      <4>1. 0..hops \subseteq S  BY <2>t, <3>3, <3>4, BoundedInduction
      <4> QED  BY <2>t, <4>1
    <3> QED  BY <3>5
  <2> HIDE DEF k, d, f
  <2>5. x \in Nat /\ x <= d * BPS_ONE
    <3>1. \A a, b, e \in Nat : a <= b => e * a <= b * e /\ e * a \in Nat
      OBVIOUS
    <3> QED  BY <2>t, <2>1, <2>4, <3>1
  <2> HIDE DEF x
  <2>6. c \in Nat /\ c <= BPS_ONE /\ x <= d * c /\ d * c <= x + d - 1
    <3>1. BPS_ONE \in Nat  BY <2>t
    <3> QED  BY <2>1, <2>5, <3>1, CeilDivCovers, CeilDivBelow, CeilDivLeast
  <2> HIDE DEF c
  <2>7. Compound(tol, hops) = BPS_ONE - c
    BY <2>t, <2>3, <2>6 DEF SaturatingSub
  <2>8. Retained(Compound(tol, hops)) = c
    BY <2>t, <2>6, <2>7 DEF Retained, SaturatingSub
  <2>9. MinAmountOut(quoted, Compound(tol, hops)) >= f
    <3> DEFINE y == quoted * c
    <3>1. MinAmountOut(quoted, Compound(tol, hops)) = y \div BPS_ONE
      BY <2>8 DEF MinAmountOut
    <3>2. y \in Nat  BY <2>t, <2>6
    <3>3. f * BPS_ONE <= y
      <4>1. \A a, b, e \in Nat : a <= b => a * e <= b * e
        OBVIOUS
      <4>2. (f * d) * BPS_ONE <= (quoted * k) * BPS_ONE
        <5>1. f * d \in Nat /\ quoted * k \in Nat  BY <2>t, <2>1, <2>2
        <5> QED  BY <2>t, <2>2, <4>1, <5>1
      <4>3. x * quoted <= (d * c) * quoted
        <5>1. d * c \in Nat  BY <2>1, <2>6
        <5> QED  BY <2>t, <2>5, <2>6, <4>1, <5>1
      <4>4. \A a, b, e \in Nat : (a * b) * e = (a * e) * b /\ (a * b) * e = (e * b) * a
                                 /\ (a * b) * e \in Nat
        OBVIOUS
      <4>5. (quoted * k) * BPS_ONE = x * quoted
        BY <2>t, <2>1, <4>4 DEF x
      <4>6. (d * c) * quoted = y * d  BY <2>t, <2>1, <2>6, <4>4
      <4>7. (f * d) * BPS_ONE = (f * BPS_ONE) * d  BY <2>t, <2>1, <2>2, <4>4
      <4>8. /\ (f * d) * BPS_ONE \in Nat /\ (quoted * k) * BPS_ONE \in Nat
            /\ (d * c) * quoted \in Nat
        BY <2>t, <2>1, <2>2, <2>6, <4>4
      <4>9. (f * BPS_ONE) * d <= y * d
        BY <4>2, <4>3, <4>5, <4>6, <4>7, <4>8
      <4>10. \A a, b \in Nat, e \in Nat \ {0} : a * e <= b * e => a <= b
        OBVIOUS
      <4>11. f * BPS_ONE \in Nat  BY <2>t, <2>2
      <4> HIDE DEF y
      <4> QED  BY <2>1, <3>2, <4>9, <4>10, <4>11
    <3> HIDE DEF y
    <3>4. y \div BPS_ONE \in Nat /\ y < BPS_ONE * (y \div BPS_ONE) + BPS_ONE
      BY <2>t, <3>2
    <3>5. \A b \in Nat \ {0}, m, e, w \in Nat : m * b <= w /\ w < b * e + b => m <= e
      <4> SUFFICES ASSUME NEW b \in Nat \ {0}, NEW m \in Nat, NEW e \in Nat, NEW w \in Nat,
                          m * b <= w, w < b * e + b, e + 1 <= m
                   PROVE  FALSE
        OBVIOUS
      <4>1. b * (e + 1) <= b * m  OBVIOUS
      <4>2. b * (e + 1) = b * e + b /\ b * m = m * b  OBVIOUS
      <4>3. b * e \in Nat /\ b * m \in Nat  OBVIOUS
      <4> QED  BY <4>1, <4>2, <4>3
    <3>6. f <= y \div BPS_ONE  BY <2>t, <2>2, <3>2, <3>3, <3>4, <3>5
    <3> QED  BY <2>2, <3>1, <3>4, <3>6
  <2>10. (BPS_ONE - Compound(tol, hops)) * d >= BPS_ONE * k
    <3>1. BPS_ONE - Compound(tol, hops) = c  BY <2>t, <2>6, <2>7
    <3>2. c * d = d * c /\ c * d \in Nat  BY <2>1, <2>6
    <3> QED  BY <2>5, <2>6, <3>1, <3>2 DEF x
  <2>11. (BPS_ONE - Compound(tol, hops) - 1) * d < BPS_ONE * k
    <3>1. BPS_ONE - Compound(tol, hops) - 1 = c - 1  BY <2>t, <2>6, <2>7
    <3>2. (c - 1) * d = d * c - d /\ d * c \in Nat  BY <2>1, <2>6
    <3> QED  BY <2>1, <2>5, <2>6, <3>1, <3>2 DEF x
  <2> QED  BY <2>9, <2>10, <2>11 DEF CompoundIsTight, f, k, d
<1> QED  BY <1>1, TypedInvariant, PTL

-----------------------------------------------------------------------------
(* The prices of a pool and the limits of a caller. *)

(* FloorSqrt is the integer square root.                                   *)
LEMMA FloorSqrtIs ==
  ASSUME NEW m \in Nat
  PROVE  /\ FloorSqrt(m) \in Nat /\ FloorSqrt(m) * FloorSqrt(m) <= m
         /\ m < (FloorSqrt(m) + 1) * (FloorSqrt(m) + 1)
<1> DEFINE Over == {s \in Nat : m < (s + 1) * (s + 1)}
<1>1. m \in Over
  <2>1. (m + 1) * (m + 1) = m * m + m + m + 1 /\ m * m \in Nat  OBVIOUS
  <2> QED  BY <2>1
<1>2. PICK s \in Over : \A other \in Over : s <= other
  <2>1. Over \in SUBSET Nat  OBVIOUS
  <2> HIDE DEF Over
  <2> QED  BY <1>1, <2>1, LeastElement
<1>3. s \in Nat /\ m < (s + 1) * (s + 1) /\ s <= m  BY <1>1, <1>2
<1>4. s * s <= m
  <2>1. CASE s = 0  BY <2>1
  <2>2. CASE s # 0
    <3>1. s - 1 \in Nat /\ s - 1 \notin Over  BY <1>2, <1>3, <2>2
    <3>2. (s - 1) + 1 = s  BY <1>3
    <3>3. ~(m < s * s)  BY <3>1, <3>2
    <3>4. s * s \in Nat  BY <1>3
    <3> QED  BY <3>3, <3>4
  <2> QED  BY <2>1, <2>2
<1>5. \E one \in 0..m : one * one <= m /\ m < (one + 1) * (one + 1)
  BY <1>3, <1>4
<1> DEFINE root == CHOOSE one \in 0..m : one * one <= m /\ m < (one + 1) * (one + 1)
<1>6. root \in 0..m /\ root * root <= m /\ m < (root + 1) * (root + 1)
  BY <1>5
<1> QED  BY <1>6 DEF FloorSqrt

LEMMA SquaresClimb ==
  /\ \A x, y \in Nat : x <= y => x * x <= y * y
  /\ \A x, y \in Nat : x < y => x * x < y * y
<1>1. ASSUME NEW x \in Nat, NEW y \in Nat, x <= y PROVE x * x <= y * y
  <2>1. x * x <= x * y /\ x * y <= y * y  BY <1>1
  <2>2. x * x \in Nat /\ x * y \in Nat /\ y * y \in Nat  OBVIOUS
  <2> QED  BY <2>1, <2>2
<1>2. ASSUME NEW x \in Nat, NEW y \in Nat, x < y PROVE x * x < y * y
  <2>1. (x + 1) * (x + 1) <= y * y
    <3>1. x + 1 \in Nat /\ x + 1 <= y  BY <1>2
    <3> QED  BY <1>1, <3>1
  <2>2. (x + 1) * (x + 1) = x * x + x + x + 1 /\ x * x \in Nat /\ y * y \in Nat
    OBVIOUS
  <2> QED  BY <2>1, <2>2
<1> QED  BY <1>1, <1>2

(* The root of a ratio is the last whose square is not above it.           *)
LEMMA ToSqrtIsLast ==
  ASSUME NEW ratio \in Fractions, NEW s \in Nat
  PROVE  /\ ToSqrt(ratio) \in Nat
         /\ (s * s * ratio.den <= ratio.num * Q96 * Q96) <=> (s <= ToSqrt(ratio))
<1> DEFINE x == ratio.num * Q96 * Q96
           den == ratio.den
           m == x \div den
           root == FloorSqrt(m)
           q == s * s
<1>1. x \in Nat /\ den \in Nat \ {0}
  <2>1. \A a, b \in Nat : a * b * b \in Nat  OBVIOUS
  <2>2. ratio.num \in Nat /\ ratio.den \in Nat \ {0} /\ Q96 \in Nat
    BY PricesAssumption DEF Fractions
  <2> QED  BY <2>1, <2>2
<1>2. ToSqrt(ratio) = root  BY DEF ToSqrt
<1> HIDE DEF x, den
<1>3. m \in Nat /\ den * m <= x /\ x < den * m + den  BY <1>1
<1> HIDE DEF m
<1>4. root \in Nat /\ root * root <= m /\ m < (root + 1) * (root + 1)
  BY <1>3, FloorSqrtIs
<1> HIDE DEF root
<1>5. q \in Nat  OBVIOUS
<1>6. s <= root => q <= m
  <2> SUFFICES ASSUME s <= root PROVE q <= m
    OBVIOUS
  <2>1. q <= root * root  BY <1>4, SquaresClimb
  <2>2. root * root \in Nat  BY <1>4
  <2> QED  BY <1>3, <1>4, <1>5, <2>1, <2>2
<1>7. ~(s <= root) => m < q
  <2> SUFFICES ASSUME ~(s <= root) PROVE m < q
    OBVIOUS
  <2>1. root + 1 \in Nat /\ root + 1 <= s  BY <1>4
  <2>2. (root + 1) * (root + 1) <= q  BY <2>1, SquaresClimb
  <2>3. (root + 1) * (root + 1) \in Nat  BY <2>1
  <2> QED  BY <1>3, <1>4, <1>5, <2>2, <2>3
<1> HIDE DEF q
<1>8. q <= m <=> q * den <= x
  <2>1. q <= m => q * den <= den * m
    BY <1>1, <1>3, <1>5
  <2>2. m + 1 <= q => den * m + den <= q * den
    <3> SUFFICES ASSUME m + 1 <= q PROVE den * m + den <= q * den
      OBVIOUS
    <3>1. den * (m + 1) <= den * q  BY <1>1, <1>3, <1>5
    <3>2. den * (m + 1) = den * m + den /\ den * q = q * den  BY <1>1, <1>3, <1>5
    <3> QED  BY <3>1, <3>2
  <2>3. q * den \in Nat /\ den * m \in Nat  BY <1>1, <1>3, <1>5
  <2> QED  BY <1>1, <1>3, <1>5, <2>1, <2>2, <2>3
<1>9. s * s * ratio.den = q * den /\ ratio.num * Q96 * Q96 = x  BY DEF q, den, x
<1>10. (q * den <= x) <=> (s <= root)
  <2>1. q <= m <=> s <= root  BY <1>3, <1>4, <1>5, <1>6, <1>7
  <2> QED  BY <1>8, <2>1
<1> QED  BY <1>2, <1>4, <1>9, <1>10

(* A price is its own square root at the square root it was made of.       *)
LEMMA RootOfSpot ==
  ASSUME NEW sqrt \in Nat \ {0}
  PROVE  ToSqrt(FromSqrt(sqrt)) = sqrt
<1> DEFINE q == sqrt * sqrt
           z == Q96 * Q96
<1>1. FromSqrt(sqrt) = [num |-> q, den |-> z]  BY DEF FromSqrt, Fraction
<1>2. q \in Nat \ {0} /\ z \in Nat \ {0}
  <2>1. \A a \in Nat \ {0} : a * a \in Nat \ {0}  OBVIOUS
  <2> QED  BY <2>1, PricesAssumption
<1>3. q * Q96 * Q96 = q * z
  BY PricesAssumption
<1>4. (q * z) \div z = q
  <2> HIDE DEF q, z
  <2> DEFINE w == q * z
             d == w \div z
  <2>1. w \in Nat  BY <1>2
  <2> HIDE DEF w
  <2>2. d \in Nat /\ z * d <= w /\ w < z * d + z  BY <1>2, <2>1
  <2> HIDE DEF d
  <2>3. z * d <= z * q /\ z * q < z * d + z
    <3>1. w = z * q  BY <1>2 DEF w
    <3> QED  BY <2>2, <3>1
  <2>4. d <= q /\ q < d + 1
    <3>1. \A a \in Nat \ {0}, b, c \in Nat : a * b <= a * c => b <= c  OBVIOUS
    <3>2. d <= q  BY <1>2, <2>2, <2>3, <3>1
    <3>3. q < d + 1
      <4> SUFFICES ASSUME d + 1 <= q PROVE FALSE
        BY <1>2, <2>2
      <4>1. z * (d + 1) <= z * q /\ z * (d + 1) = z * d + z
        BY <1>2, <2>2
      <4>2. z * q \in Nat /\ z * d \in Nat  BY <1>2, <2>2
      <4> QED  BY <1>2, <2>3, <4>1, <4>2
    <3> QED  BY <3>2, <3>3
  <2> QED  BY <1>2, <2>2, <2>4 DEF d, w
<1>5. ToSqrt(FromSqrt(sqrt)) = FloorSqrt(q)
  BY <1>1, <1>3, <1>4 DEF ToSqrt
<1> DEFINE root == FloorSqrt(q)
<1>6. root \in Nat /\ root * root <= q /\ q < (root + 1) * (root + 1)
  BY <1>2, FloorSqrtIs
<1> HIDE DEF root
<1>7. sqrt <= root
  <2> SUFFICES ASSUME root + 1 <= sqrt PROVE FALSE
    BY <1>6
  <2>1. (root + 1) * (root + 1) <= sqrt * sqrt  BY <1>6, SquaresClimb
  <2>2. (root + 1) * (root + 1) \in Nat  BY <1>6
  <2> QED  BY <1>2, <1>6, <2>1, <2>2
<1>8. root <= sqrt
  <2> SUFFICES ASSUME sqrt < root PROVE FALSE
    BY <1>6
  <2>1. sqrt * sqrt < root * root  BY <1>6, SquaresClimb
  <2>2. root * root \in Nat  BY <1>6
  <2> QED  BY <1>2, <1>6, <2>1, <2>2
<1> QED  BY <1>5, <1>6, <1>7, <1>8 DEF root

LEMMA RangeOfSqrt ==
  /\ MinSqrt + 1 \in Nat \ {0} /\ MaxSqrt - 1 \in Nat /\ MinSqrt + 1 <= MaxSqrt - 1
  /\ \A s \in MinSqrt + 1..MaxSqrt - 1 : s \in Nat \ {0}
BY PricesAssumption

(* The clamped root of a ratio is the last square root of the range that   *)
(* is not above it, or the start of the range.                             *)
LEMMA ClampedRoot ==
  ASSUME NEW ratio \in Fractions
  PROVE  LET bound == Clamped(ToSqrt(ratio))
             Below(s) == s * s * ratio.den <= ratio.num * Q96 * Q96
         IN  /\ bound \in MinSqrt + 1..MaxSqrt - 1
             /\ Below(bound) \/ bound = MinSqrt + 1
             /\ ~Below(bound + 1) \/ bound = MaxSqrt - 1
<1> DEFINE root == ToSqrt(ratio)
           bound == Clamped(root)
           Below(s) == s * s * ratio.den <= ratio.num * Q96 * Q96
           low == MinSqrt + 1
           high == MaxSqrt - 1
<1>1. root \in Nat /\ \A s \in Nat : Below(s) <=> s <= root
  <2>1. 0 \in Nat  OBVIOUS
  <2> QED  BY <2>1, ToSqrtIsLast
<1>2. low \in Nat /\ high \in Nat /\ low <= high  BY RangeOfSqrt
<1>3. bound = IF root < low THEN low ELSE IF root > high THEN high ELSE root
  BY DEF Clamped
<1> HIDE DEF root, bound, Below, low, high
<1>4. bound \in low..high /\ bound \in Nat  BY <1>1, <1>2, <1>3
<1>5. bound <= root \/ bound = low  BY <1>1, <1>2, <1>3
<1>6. ~(bound + 1 <= root) \/ bound = high  BY <1>1, <1>2, <1>3
<1>7. (Below(bound) <=> bound <= root) /\ (Below(bound + 1) <=> bound + 1 <= root)
  <2>1. bound + 1 \in Nat  BY <1>4
  <2> QED  BY <1>1, <1>4, <2>1
<1> QED  BY <1>4, <1>5, <1>6, <1>7 DEF root, bound, Below, low, high

(* A limit bounds a swap by the last square root not above it, the same in *)
(* both orientations; one about other assets is refused; and a pool's own  *)
(* spot price is a limit at which it stands, for every price, range and    *)
(* unit of square roots.                                                   *)
THEOREM LimitMeansItsPriceAlways == Spec => []LimitMeansItsPrice
<1>1. Typed => LimitMeansItsPrice
  <2> SUFFICES ASSUME Typed PROVE LimitMeansItsPrice
    OBVIOUS
  <2> DEFINE pair == <<1, 2>>
             limit == priced.limit
             sqrt == priced.sqrt
             num == IF limit.base = 1 THEN limit.ratio.num ELSE limit.ratio.den
             den == IF limit.base = 1 THEN limit.ratio.den ELSE limit.ratio.num
             Below(s) == s * s * den <= num * Q96 * Q96
             bound == SqrtLimit(pair, limit)
             forth == SpotPrice(pair, 1, 2, sqrt)
             back == SpotPrice(pair, 2, 1, sqrt)
  <2>t. /\ limit \in [base : Nat, quote : Nat, ratio : Fractions]
        /\ sqrt \in MinSqrt + 1..MaxSqrt - 1 /\ sqrt \in Nat \ {0}
    BY RangeOfSqrt DEF Typed
  <2>i. ASSUME NEW ratio \in Fractions
        PROVE  /\ Inverted(ratio) \in Fractions
               /\ Inverted(ratio).num = ratio.den /\ Inverted(ratio).den = ratio.num
               /\ Inverted(Inverted(ratio)) = ratio
    BY DEF Inverted, Fraction, Fractions
  <2>o. pair # <<2, 1>>  OBVIOUS
  <2>1. ASSUME {limit.base, limit.quote} # {1, 2} PROVE bound = NotInPool
    <3>1. <<limit.base, limit.quote>> # pair /\ <<limit.quote, limit.base>> # pair
      BY <2>1
    <3> QED  BY <3>1 DEF SqrtLimit
  <2>2. ASSUME {limit.base, limit.quote} = {1, 2}
        PROVE  /\ bound \in MinSqrt + 1..MaxSqrt - 1
               /\ Below(bound) \/ bound = MinSqrt + 1
               /\ ~Below(bound + 1) \/ bound = MaxSqrt - 1
               /\ bound = SqrtLimit(pair, InvertPrice(limit))
    <3>1. CASE limit.base = 1
      <4>1. limit.quote = 2  BY <2>2, <3>1
      <4>2. bound = Clamped(ToSqrt(limit.ratio))  BY <3>1, <4>1 DEF SqrtLimit
      <4>3. /\ InvertPrice(limit).base = 2 /\ InvertPrice(limit).quote = 1
            /\ InvertPrice(limit).ratio = Inverted(limit.ratio)
        BY <3>1, <4>1 DEF InvertPrice, PriceOf
      <4>4. SqrtLimit(pair, InvertPrice(limit)) = Clamped(ToSqrt(Inverted(Inverted(limit.ratio))))
        BY <2>o, <4>3 DEF SqrtLimit
      <4>5. SqrtLimit(pair, InvertPrice(limit)) = bound
        BY <2>t, <2>i, <4>2, <4>4
      <4>6. num = limit.ratio.num /\ den = limit.ratio.den  BY <3>1
      <4>7. limit.ratio \in Fractions  BY <2>t
      <4> QED  BY <4>2, <4>5, <4>6, <4>7, ClampedRoot
    <3>2. CASE limit.base # 1
      <4>1. limit.base = 2 /\ limit.quote = 1  BY <2>2, <3>2
      <4>2. bound = Clamped(ToSqrt(Inverted(limit.ratio)))
        BY <2>o, <4>1 DEF SqrtLimit
      <4>3. /\ InvertPrice(limit).base = 1 /\ InvertPrice(limit).quote = 2
            /\ InvertPrice(limit).ratio = Inverted(limit.ratio)
        BY <4>1 DEF InvertPrice, PriceOf
      <4>4. SqrtLimit(pair, InvertPrice(limit)) = bound
        BY <4>2, <4>3 DEF SqrtLimit
      <4>5. /\ Inverted(limit.ratio) \in Fractions
            /\ Inverted(limit.ratio).num = num /\ Inverted(limit.ratio).den = den
        BY <2>t, <2>i, <3>2
      <4> QED  BY <4>2, <4>4, <4>5, ClampedRoot
    <3> QED  BY <3>1, <3>2
  <2>3. /\ forth.base = 1 /\ forth.quote = 2 /\ forth.ratio = FromSqrt(sqrt)
        /\ back.base = 2 /\ back.quote = 1 /\ back.ratio = Inverted(FromSqrt(sqrt))
    BY <2>o DEF SpotPrice, PriceOf
  <2>4. FromSqrt(sqrt) \in Fractions
    <3>1. \A a \in Nat \ {0} : a * a \in Nat \ {0}  OBVIOUS
    <3>2. sqrt * sqrt \in Nat \ {0} /\ Q96 * Q96 \in Nat \ {0}
      BY <2>t, <3>1, PricesAssumption
    <3> QED  BY <3>2 DEF FromSqrt, Fraction, Fractions
  <2>5. forth.ratio.num * back.ratio.num = forth.ratio.den * back.ratio.den
    <3>1. /\ back.ratio.num = forth.ratio.den /\ back.ratio.den = forth.ratio.num
          /\ forth.ratio.num \in Nat /\ forth.ratio.den \in Nat
      BY <2>3, <2>4, <2>i DEF Fractions
    <3> QED  BY <3>1
  <2>6. Clamped(sqrt) = sqrt  BY <2>t, RangeOfSqrt DEF Clamped
  <2>7. SqrtLimit(pair, forth) = sqrt
    BY <2>t, <2>3, <2>6, RootOfSpot DEF SqrtLimit
  <2>8. SqrtLimit(pair, back) = sqrt
    <3>1. Inverted(back.ratio) = FromSqrt(sqrt)  BY <2>3, <2>4, <2>i
    <3> QED  BY <2>o, <2>t, <2>3, <2>6, <3>1, RootOfSpot DEF SqrtLimit
  <2>9. \A spot \in {forth, back}, zeroForOne \in BOOLEAN :
           AlreadyReached(sqrt, zeroForOne, SqrtLimit(pair, spot))
    <3>1. \A zeroForOne \in BOOLEAN : AlreadyReached(sqrt, zeroForOne, sqrt)
      BY <2>t DEF AlreadyReached
    <3> QED  BY <2>7, <2>8, <3>1
  <2> HIDE DEF forth, back, bound, Below, limit, sqrt
  <2>10. IF {limit.base, limit.quote} # {1, 2} THEN bound = NotInPool
         ELSE /\ bound \in MinSqrt + 1..MaxSqrt - 1
              /\ Below(bound) \/ bound = MinSqrt + 1
              /\ ~Below(bound + 1) \/ bound = MaxSqrt - 1
              /\ bound = SqrtLimit(pair, InvertPrice(limit))
    BY <2>1, <2>2
  <2> QED  BY <2>5, <2>9, <2>10
       DEF LimitMeansItsPrice, forth, back, bound, Below, limit, sqrt
<1> QED  BY <1>1, TypedInvariant, PTL

-----------------------------------------------------------------------------
(* The sequences that discover() builds: which element comes from where.   *)

LEMMA SortedIs ==
  ASSUME NEW x \in Nat, NEW y \in Nat
  PROVE  /\ Sorted(x, y) \in Seq(Nat) /\ ToSet(Sorted(x, y)) = {x, y}
         /\ x # y => Sorted(x, y)[1] < Sorted(x, y)[2]
<1>1. \A a, b \in Nat : <<a, b>> \in Seq(Nat) /\ ToSet(<<a, b>>) = {a, b}
                        /\ <<a, b>>[1] = a /\ <<a, b>>[2] = b
  <2> SUFFICES ASSUME NEW a \in Nat, NEW b \in Nat
               PROVE  /\ <<a, b>> \in Seq(Nat) /\ ToSet(<<a, b>>) = {a, b}
                      /\ <<a, b>>[1] = a /\ <<a, b>>[2] = b
    OBVIOUS
  <2>1. DOMAIN <<a, b>> = {1, 2}  OBVIOUS
  <2>2. ToSet(<<a, b>>) = {a, b}  BY <2>1 DEF ToSet
  <2> QED  BY <2>2
<1>2. CASE x < y
  <2>1. Sorted(x, y) = <<x, y>>  BY <1>2 DEF Sorted
  <2> QED  BY <1>1, <1>2, <2>1
<1>3. CASE ~(x < y)
  <2>1. Sorted(x, y) = <<y, x>>  BY <1>3 DEF Sorted
  <2>2. {y, x} = {x, y}  OBVIOUS
  <2>3. <<y, x>> \in Seq(Nat) /\ ToSet(<<y, x>>) = {y, x}
        /\ <<y, x>>[1] = y /\ <<y, x>>[2] = x
    BY <1>1
  <2> QED  BY <1>3, <2>1, <2>2, <2>3
<1> QED  BY <1>2, <1>3

(* lo and hi say of each pair which two assets it is of; every two are of  *)
(* one pair.                                                               *)
PairsOf(pairs, assets, lo, hi) ==
  /\ lo \in [1..Len(pairs) -> 1..Len(assets)] /\ hi \in [1..Len(pairs) -> 1..Len(assets)]
  /\ \A j, k \in 1..Len(pairs) : lo[j] = lo[k] /\ hi[j] = hi[k] => j = k
  /\ \A k \in 1..Len(pairs) :
       lo[k] < hi[k] /\ pairs[k] = Sorted(assets[lo[k]], assets[hi[k]])
  /\ \A i, j \in 1..Len(assets) :
       i < j => \E k \in 1..Len(pairs) : lo[k] = i /\ hi[k] = j

LEMMA SortedPairsIs ==
  ASSUME NEW assets \in Seq(Nat)
  PROVE  /\ SortedPairs(assets) \in Seq(Seq(Nat))
         /\ \E lo, hi : PairsOf(SortedPairs(assets), assets, lo, hi)
<1> DEFINE N == Len(assets)
           Row(i) == [k \in 1..N - i |-> Sorted(assets[i], assets[i + k])]
           rows == [i \in DOMAIN assets |-> Row(i)]
           pairs == SortedPairs(assets)
<1>0. N \in Nat /\ DOMAIN assets = 1..N /\ \A i \in 1..N : assets[i] \in Nat
  OBVIOUS
<1>1. \A i \in 1..N : Row(i) \in Seq(Seq(Nat)) /\ Len(Row(i)) = N - i
  <2> SUFFICES ASSUME NEW i \in 1..N
               PROVE  Row(i) \in Seq(Seq(Nat)) /\ Len(Row(i)) = N - i
    OBVIOUS
  <2>1. N - i \in Nat  BY <1>0
  <2>2. \A k \in 1..N - i : Sorted(assets[i], assets[i + k]) \in Seq(Nat)
    <3> SUFFICES ASSUME NEW k \in 1..N - i
                 PROVE  Sorted(assets[i], assets[i + k]) \in Seq(Nat)
      OBVIOUS
    <3>1. i + k \in 1..N  BY <1>0
    <3>2. assets[i] \in Nat /\ assets[i + k] \in Nat  BY <1>0, <3>1
    <3> QED  BY <3>2, SortedIs
  <2> DEFINE one == Row(i)
             width == N - i
  <2>3. one \in [1..width -> Seq(Nat)] /\ DOMAIN one = 1..width /\ width \in Nat
    BY <2>1, <2>2
  <2> HIDE DEF one, width
  <2>4. one \in Seq(Seq(Nat))  BY <2>3, SeqDef
  <2>5. Len(one) = width  BY <2>3, <2>4, LenProperties
  <2> QED  BY <2>4, <2>5 DEF one, width
<1> HIDE DEF Row
<1>2. rows \in Seq(Seq(Seq(Nat))) /\ Len(rows) = N
  <2>1. rows \in [1..N -> Seq(Seq(Nat))]  BY <1>0, <1>1
  <2>2. DOMAIN rows = 1..N  BY <1>0
  <2> HIDE DEF rows, N
  <2>3. rows \in Seq(Seq(Seq(Nat)))  BY <1>0, <2>1, SeqDef
  <2> QED  BY <1>0, <2>2, <2>3, LenProperties
<1>3. pairs = FlattenSeq(rows)
  <2>1. pairs = FlattenSeq([i \in DOMAIN assets |->
                   [k \in 1..(Len(assets) - i) |-> Sorted(assets[i], assets[i + k])]])
    BY DEF SortedPairs
  <2> QED  BY <2>1 DEF rows, Row
<1>r. \A i \in 1..N : rows[i] = Row(i)  BY <1>0
<1>c. \A i \in 1..N : \A k \in 1..N - i : Row(i)[k] = Sorted(assets[i], assets[i + k])
  BY DEF Row
<1> HIDE DEF rows, pairs
<1>4. PICK row, col : Lists(pairs, rows, N, row, col)
  BY <1>2, <1>3, FlattenLists
<1>5. pairs \in Seq(Seq(Nat)) /\ Len(pairs) \in Nat
  BY <1>2, <1>3, FlattenLists
<1> HIDE DEF N
<1> DEFINE L == Len(pairs)
           hi == [k \in 1..L |-> row[k] + col[k]]
<1> HIDE DEF L
<1>6. \A k \in 1..L : /\ row[k] \in 1..N /\ col[k] \in 1..N - row[k]
                      /\ hi[k] = row[k] + col[k] /\ hi[k] \in 1..N /\ row[k] < hi[k]
                      /\ pairs[k] = Sorted(assets[row[k]], assets[hi[k]])
  <2> SUFFICES ASSUME NEW k \in 1..L
               PROVE  /\ row[k] \in 1..N /\ col[k] \in 1..N - row[k]
                      /\ hi[k] = row[k] + col[k] /\ hi[k] \in 1..N /\ row[k] < hi[k]
                      /\ pairs[k] = Sorted(assets[row[k]], assets[hi[k]])
    OBVIOUS
  <2>1. /\ row[k] \in 1..N /\ col[k] \in 1..Len(rows[row[k]])
        /\ pairs[k] = rows[row[k]][col[k]]
    BY <1>4 DEF Lists, L
  <2>2. rows[row[k]] = Row(row[k]) /\ Len(Row(row[k])) = N - row[k]
    BY <1>1, <1>r, <2>1
  <2>3. col[k] \in 1..N - row[k]  BY <2>1, <2>2
  <2>4. hi[k] = row[k] + col[k]  OBVIOUS
  <2>5. pairs[k] = Sorted(assets[row[k]], assets[row[k] + col[k]])
    BY <1>c, <2>1, <2>2, <2>3
  <2>6. row[k] + col[k] \in 1..N /\ row[k] < row[k] + col[k]  BY <1>0, <2>1, <2>3
  <2> HIDE DEF hi
  <2> QED  BY <2>1, <2>3, <2>4, <2>5, <2>6
<1>7. row \in [1..L -> 1..N] /\ hi \in [1..L -> 1..N]
  <2>1. row \in [1..L -> 1..N]
    <3>1. row \in [1..Len(pairs) -> 1..N]  BY <1>4 DEF Lists
    <3> QED  BY <3>1 DEF L
  <2>2. \A k \in 1..L : row[k] + col[k] \in 1..N  BY <1>6
  <2> QED  BY <2>1, <2>2
<1> HIDE DEF hi
<1>8. \A j, k \in 1..L : row[j] = row[k] /\ hi[j] = hi[k] => j = k
  <2> SUFFICES ASSUME NEW j \in 1..L, NEW k \in 1..L, row[j] = row[k], hi[j] = hi[k]
               PROVE  j = k
    OBVIOUS
  <2>1. row[j] \in Int /\ col[j] \in Int /\ col[k] \in Int
    <3>1. row[j] \in 1..N /\ col[j] \in 1..N - row[j] /\ col[k] \in 1..N - row[k]
      BY <1>6
    <3> QED  BY <1>0, <3>1
  <2>2. col[j] = col[k]
    <3>1. row[j] + col[j] = row[k] + col[k]  BY <1>6
    <3> QED  BY <2>1, <3>1
  <2> QED  BY <1>4, <2>2 DEF Lists, L
<1>9. \A i, j \in 1..N : i < j => \E k \in 1..L : row[k] = i /\ hi[k] = j
  <2> SUFFICES ASSUME NEW i \in 1..N, NEW j \in 1..N, i < j
               PROVE  \E k \in 1..L : row[k] = i /\ hi[k] = j
    OBVIOUS
  <2>1. j - i \in 1..Len(rows[i])
    <3>1. Len(rows[i]) = N - i  BY <1>1, <1>r
    <3> QED  BY <1>0, <3>1
  <2>2. PICK k \in 1..L : row[k] = i /\ col[k] = j - i
    BY <1>4, <2>1 DEF Lists, L
  <2>3. hi[k] = j
    <3>1. hi[k] = row[k] + col[k]  BY <1>6
    <3> QED  BY <2>2, <3>1
  <2> QED  BY <2>2, <2>3
<1>10. PairsOf(pairs, assets, row, hi)
  BY <1>6, <1>7, <1>8, <1>9 DEF PairsOf, N, L
<1>11. \E l, h : PairsOf(pairs, assets, l, h)  BY <1>10
<1> QED  BY <1>5, <1>11 DEF pairs

LEMMA TiersType == ASSUME NEW from \in HasFactory PROVE Tiers(from) \in Seq(Nat)
<1>1. FeeTiers \in Seq(Nat) /\ TickSpacings \in Seq(Nat)  BY DiscoveryAssumption
<1>2. Passing(TickSpacings, 0..MaxI24) \in Seq(Nat)  BY <1>1, PassingPicks
<1>3. CASE from = "UniswapV2"  BY <1>3 DEF Tiers
<1>4. CASE from = "Aerodrome"  BY <1>4 DEF Tiers
<1>5. CASE from = "UniswapV3"  BY <1>1, <1>5 DEF Tiers
<1>6. CASE from = "Slipstream"  BY <1>2, <1>6 DEF Tiers
<1> QED  BY <1>3, <1>4, <1>5, <1>6, DiscoveryAssumption

(* lo, hi and tier say of each question which two assets and which tier it *)
(* is about; every two assets and tier are asked about once.               *)
QuestionsOf(asked, assets, tiers, lo, hi, tier) ==
  /\ \A k \in 1..Len(asked) :
       /\ lo[k] \in 1..Len(assets) /\ hi[k] \in 1..Len(assets) /\ lo[k] < hi[k]
       /\ tier[k] \in 1..Len(tiers)
       /\ asked[k] = [assets |-> Sorted(assets[lo[k]], assets[hi[k]]),
                      tier |-> tiers[tier[k]]]
  /\ \A j, k \in 1..Len(asked) :
       lo[j] = lo[k] /\ hi[j] = hi[k] /\ tier[j] = tier[k] => j = k
  /\ \A i, j \in 1..Len(assets), t \in 1..Len(tiers) :
       i < j => \E k \in 1..Len(asked) : lo[k] = i /\ hi[k] = j /\ tier[k] = t

LEMMA QuestionsAre ==
  ASSUME NEW from \in HasFactory, NEW assets \in Seq(Nat)
  PROVE  /\ Len(Questions(from, assets)) \in Nat
         /\ DOMAIN Questions(from, assets) = 1..Len(Questions(from, assets))
         /\ \E lo, hi, tier :
              QuestionsOf(Questions(from, assets), assets, Tiers(from), lo, hi, tier)
<1> DEFINE pairs == SortedPairs(assets)
           tiers == Tiers(from)
           asked == Questions(from, assets)
           P == Len(pairs)
           T == Len(tiers)
           D == [assets : Seq(Nat), tier : Nat]
           Row(p) == [t \in DOMAIN tiers |-> [assets |-> pairs[p], tier |-> tiers[t]]]
           rows == [p \in DOMAIN pairs |-> Row(p)]
<1>1. PICK first, second : PairsOf(pairs, assets, first, second)
  BY SortedPairsIs
<1>2. pairs \in Seq(Seq(Nat)) /\ tiers \in Seq(Nat)  BY SortedPairsIs, TiersType
<1>3. asked = FlattenSeq(rows)  BY DEF Questions
<1> HIDE DEF pairs, tiers, asked
<1>4. /\ P \in Nat /\ DOMAIN pairs = 1..P /\ T \in Nat /\ DOMAIN tiers = 1..T
      /\ \A p \in 1..P : pairs[p] \in Seq(Nat)
      /\ \A t \in 1..T : tiers[t] \in Nat
  BY <1>2, LenProperties, ElementOfSeq
<1> HIDE DEF P, T
<1>5. \A p \in 1..P : /\ Row(p) \in Seq(D) /\ Len(Row(p)) = T
                      /\ \A t \in 1..T : Row(p)[t] = [assets |-> pairs[p], tier |-> tiers[t]]
  <2> SUFFICES ASSUME NEW p \in 1..P
               PROVE  /\ Row(p) \in Seq(D) /\ Len(Row(p)) = T
                      /\ \A t \in 1..T : Row(p)[t] = [assets |-> pairs[p], tier |-> tiers[t]]
    OBVIOUS
  <2> DEFINE one == Row(p)
  <2>1. /\ one \in [1..T -> D] /\ DOMAIN one = 1..T
        /\ \A t \in 1..T : one[t] = [assets |-> pairs[p], tier |-> tiers[t]]
    BY <1>4
  <2> HIDE DEF one, D
  <2>2. one \in Seq(D)  BY <1>4, <2>1, SeqDef
  <2>3. Len(one) = T  BY <1>4, <2>1, <2>2, LenProperties
  <2> QED  BY <2>1, <2>2, <2>3 DEF one
<1> HIDE DEF Row, D
<1>6. rows \in Seq(Seq(D)) /\ Len(rows) = P /\ \A p \in 1..P : rows[p] = Row(p)
  <2>1. /\ rows \in [1..P -> Seq(D)] /\ DOMAIN rows = 1..P
        /\ \A p \in 1..P : rows[p] = Row(p)
    BY <1>4, <1>5
  <2> HIDE DEF rows
  <2>2. rows \in Seq(Seq(D))  BY <1>4, <2>1, SeqDef
  <2> QED  BY <1>4, <2>1, <2>2, LenProperties
<1> HIDE DEF rows
<1>7. PICK row, col : Lists(asked, rows, P, row, col)
  BY <1>3, <1>6, FlattenLists
<1>8. asked \in Seq(D)  BY <1>3, <1>6, FlattenLists
<1>9. Len(asked) \in Nat /\ DOMAIN asked = 1..Len(asked)  BY <1>8, LenProperties
<1> DEFINE L == Len(asked)
           lo == [k \in 1..L |-> first[row[k]]]
           hi == [k \in 1..L |-> second[row[k]]]
<1> HIDE DEF L
<1>10. \A k \in 1..L : /\ row[k] \in 1..P /\ col[k] \in 1..T
                       /\ asked[k] = [assets |-> pairs[row[k]], tier |-> tiers[col[k]]]
  <2> SUFFICES ASSUME NEW k \in 1..L
               PROVE  /\ row[k] \in 1..P /\ col[k] \in 1..T
                      /\ asked[k] = [assets |-> pairs[row[k]], tier |-> tiers[col[k]]]
    OBVIOUS
  <2>1. /\ row[k] \in 1..P /\ col[k] \in 1..Len(rows[row[k]])
        /\ asked[k] = rows[row[k]][col[k]]
    BY <1>7 DEF Lists, L
  <2>2. rows[row[k]] = Row(row[k])  BY <1>6, <2>1
  <2>3. Len(Row(row[k])) = T  BY <1>5, <2>1
  <2> QED  BY <1>5, <2>1, <2>2, <2>3
<1>11. /\ \A p \in 1..P : /\ first[p] \in 1..Len(assets) /\ second[p] \in 1..Len(assets)
                          /\ first[p] < second[p]
                          /\ pairs[p] = Sorted(assets[first[p]], assets[second[p]])
       /\ \A p, q \in 1..P : first[p] = first[q] /\ second[p] = second[q] => p = q
       /\ \A i, j \in 1..Len(assets) : i < j => \E p \in 1..P : first[p] = i /\ second[p] = j
  BY <1>1 DEF PairsOf, P
<1>12. \A k \in 1..L : lo[k] = first[row[k]] /\ hi[k] = second[row[k]]  OBVIOUS
<1> HIDE DEF lo, hi
<1>13. \A k \in 1..L :
         /\ lo[k] \in 1..Len(assets) /\ hi[k] \in 1..Len(assets) /\ lo[k] < hi[k]
         /\ col[k] \in 1..T
         /\ asked[k] = [assets |-> Sorted(assets[lo[k]], assets[hi[k]]),
                        tier |-> tiers[col[k]]]
  <2> SUFFICES ASSUME NEW k \in 1..L
               PROVE  /\ lo[k] \in 1..Len(assets) /\ hi[k] \in 1..Len(assets)
                      /\ lo[k] < hi[k] /\ col[k] \in 1..T
                      /\ asked[k] = [assets |-> Sorted(assets[lo[k]], assets[hi[k]]),
                                     tier |-> tiers[col[k]]]
    OBVIOUS
  <2>1. /\ row[k] \in 1..P /\ col[k] \in 1..T
        /\ asked[k] = [assets |-> pairs[row[k]], tier |-> tiers[col[k]]]
    BY <1>10
  <2>2. lo[k] = first[row[k]] /\ hi[k] = second[row[k]]  BY <1>12
  <2>3. /\ first[row[k]] \in 1..Len(assets) /\ second[row[k]] \in 1..Len(assets)
        /\ first[row[k]] < second[row[k]]
    BY <1>11, <2>1
  <2>4. pairs[row[k]] = Sorted(assets[first[row[k]]], assets[second[row[k]]])
    BY <1>11, <2>1
  <2>5. lo[k] \in 1..Len(assets) /\ hi[k] \in 1..Len(assets) /\ lo[k] < hi[k]
    BY <2>2, <2>3
  <2>6. asked[k] = [assets |-> Sorted(assets[lo[k]], assets[hi[k]]), tier |-> tiers[col[k]]]
    BY <2>1, <2>2, <2>4
  <2> QED  BY <2>1, <2>5, <2>6
<1>14. \A j, k \in 1..L : lo[j] = lo[k] /\ hi[j] = hi[k] /\ col[j] = col[k] => j = k
  <2> SUFFICES ASSUME NEW j \in 1..L, NEW k \in 1..L,
                      lo[j] = lo[k], hi[j] = hi[k], col[j] = col[k]
               PROVE  j = k
    OBVIOUS
  <2>0. row[j] \in 1..P /\ row[k] \in 1..P  BY <1>10
  <2>a. first[row[j]] = first[row[k]] /\ second[row[j]] = second[row[k]]  BY <1>12
  <2>1. row[j] = row[k]  BY <1>11, <2>0, <2>a
  <2> QED  BY <1>7, <2>1 DEF Lists, L
<1>15. \A i, j \in 1..Len(assets), t \in 1..T :
         i < j => \E k \in 1..L : lo[k] = i /\ hi[k] = j /\ col[k] = t
  <2> SUFFICES ASSUME NEW i \in 1..Len(assets), NEW j \in 1..Len(assets), NEW t \in 1..T,
                      i < j
               PROVE  \E k \in 1..L : lo[k] = i /\ hi[k] = j /\ col[k] = t
    OBVIOUS
  <2>1. PICK p \in 1..P : first[p] = i /\ second[p] = j  BY <1>11
  <2>2. t \in 1..Len(rows[p])  BY <1>5, <1>6
  <2>3. PICK k \in 1..L : row[k] = p /\ col[k] = t  BY <1>7, <2>2 DEF Lists, L
  <2> QED  BY <1>12, <2>1, <2>3
<1>16. QuestionsOf(asked, assets, tiers, lo, hi, col)
  BY <1>13, <1>14, <1>15 DEF QuestionsOf, L, T
<1>17. \E l, h, c : QuestionsOf(asked, assets, tiers, l, h, c)  BY <1>16
<1> QED  BY <1>9, <1>17 DEF asked, tiers

(* What discover() returns, and at which question each key was found.      *)
FoundAt(deployed, asked, lost, found, at) ==
  /\ Len(found) \in Nat /\ DOMAIN found = 1..Len(found)
  /\ \A k \in 1..Len(found) : /\ at[k] \in 1..Len(asked) /\ at[k] \notin lost
                              /\ found[k].address = PoolOf(deployed, asked[at[k]])
                              /\ found[k].address # NoPool
                              /\ found[k].assets = asked[at[k]].assets
                              /\ found[k].fee = FeeBps(query.from, asked[at[k]].tier)
  /\ \A j, k \in 1..Len(found) : at[j] = at[k] => j = k
  /\ \A i \in 1..Len(asked) :
       i \notin lost /\ PoolOf(deployed, asked[i]) # NoPool =>
         \E k \in 1..Len(found) : at[k] = i

LEMMA DiscoveredAre ==
  ASSUME Typed, query.from \in HasFactory
  PROVE  \E at : FoundAt(query.deployed, Questions(query.from, query.assets),
                         query.lost, Discovered, at)
<1> DEFINE asked == Questions(query.from, query.assets)
           L == Len(asked)
           pool(i) == DecodePoolAddress(query.deployed, asked[i], i \in query.lost)
           keys == [i \in DOMAIN asked |->
                      Key(query.from, pool(i), asked[i].assets, asked[i].tier)]
           D == ToSet(keys)
           S == {key \in ToSet(keys) : key.address # NoPool}
<1>1. L \in Nat /\ DOMAIN asked = 1..L
  <2>1. query.assets \in Seq(Nat)
    BY PartsAssumption, SeqMonotonic DEF Typed
  <2> QED  BY <2>1, QuestionsAre
<1>2. Discovered = Passing(keys, S)
  <2>1. query.from \notin DOMAIN Configured  BY DiscoveryAssumption
  <2> QED  BY <2>1 DEF Discovered, Discover, Found
<1> HIDE DEF asked, L
<1>3. \A i \in 1..L :
        /\ keys[i].address = pool(i) /\ keys[i].assets = asked[i].assets
        /\ keys[i].fee = FeeBps(query.from, asked[i].tier)
  BY <1>1 DEF Key
<1>4. DOMAIN keys = 1..L  BY <1>1
<1> HIDE DEF keys, pool
<1>5. keys \in Seq(D) /\ Len(keys) = L
  <2>1. keys \in [1..L -> D]
    <3>1. keys = [i \in 1..L |-> keys[i]]  BY <1>1 DEF keys
    <3>2. \A i \in 1..L : keys[i] \in D  BY <1>4 DEF ToSet
    <3> HIDE DEF D
    <3> QED  BY <3>1, <3>2
  <2> HIDE DEF D
  <2>2. keys \in Seq(D)  BY <1>1, <2>1, SeqDef
  <2> QED  BY <1>1, <1>4, <2>2, LenProperties
<1>s. \A i \in 1..L : keys[i] \in S <=> keys[i].address # NoPool
  BY <1>4 DEF ToSet
<1> HIDE DEF D, S
<1>6. PICK at : Picks(Discovered, keys, S, L, at)  BY <1>2, <1>5, PassingPicks
<1>7. Discovered \in Seq(D)  BY <1>2, <1>5, PassingPicks
<1>8. Len(Discovered) \in Nat /\ DOMAIN Discovered = 1..Len(Discovered)
  BY <1>7, LenProperties
<1>9. \A i \in 1..L : /\ pool(i) # NoPool => /\ i \notin query.lost
                                             /\ pool(i) = PoolOf(query.deployed, asked[i])
                      /\ i \notin query.lost => pool(i) = PoolOf(query.deployed, asked[i])
  BY DEF pool, DecodePoolAddress
<1>10. \A k \in 1..Len(Discovered) :
         /\ at[k] \in 1..L /\ at[k] \notin query.lost
         /\ Discovered[k].address = PoolOf(query.deployed, asked[at[k]])
         /\ Discovered[k].address # NoPool
         /\ Discovered[k].assets = asked[at[k]].assets
         /\ Discovered[k].fee = FeeBps(query.from, asked[at[k]].tier)
  <2> SUFFICES ASSUME NEW k \in 1..Len(Discovered)
               PROVE /\ at[k] \in 1..L /\ at[k] \notin query.lost
                     /\ Discovered[k].address = PoolOf(query.deployed, asked[at[k]])
                     /\ Discovered[k].address # NoPool
                     /\ Discovered[k].assets = asked[at[k]].assets
                     /\ Discovered[k].fee = FeeBps(query.from, asked[at[k]].tier)
    OBVIOUS
  <2>1. at[k] \in 1..L /\ Discovered[k] = keys[at[k]] /\ keys[at[k]] \in S
    BY <1>6 DEF Picks
  <2> QED  BY <1>3, <1>9, <1>s, <2>1
<1>11. \A j, k \in 1..Len(Discovered) : at[j] = at[k] => j = k
  <2> SUFFICES ASSUME NEW j \in 1..Len(Discovered), NEW k \in 1..Len(Discovered), j # k
               PROVE  at[j] # at[k]
    OBVIOUS
  <2>1. at[j] \in 1..L /\ at[k] \in 1..L /\ (j < k => at[j] < at[k])
        /\ (k < j => at[k] < at[j])
    BY <1>6 DEF Picks
  <2>2. j < k \/ k < j  BY <1>8
  <2> QED  BY <1>2, <2>1, <2>2
<1>12. \A i \in 1..L :
         i \notin query.lost /\ PoolOf(query.deployed, asked[i]) # NoPool =>
           \E k \in 1..Len(Discovered) : at[k] = i
  <2> SUFFICES ASSUME NEW i \in 1..L, i \notin query.lost,
                      PoolOf(query.deployed, asked[i]) # NoPool
               PROVE  \E k \in 1..Len(Discovered) : at[k] = i
    OBVIOUS
  <2>1. keys[i] \in S  BY <1>3, <1>9, <1>s
  <2> QED  BY <1>6, <2>1 DEF Picks
<1>13. FoundAt(query.deployed, asked, query.lost, Discovered, at)
  BY <1>8, <1>10, <1>11, <1>12 DEF FoundAt, L
<1> QED  BY <1>13 DEF asked

(* A deployed pool is of two different tokens and of one of the tiers.     *)
LEMMA Deployed ==
  ASSUME Typed, query.from \in HasFactory, NEW pool \in query.deployed
  PROVE  /\ pool = [tokens |-> pool.tokens, tier |-> pool.tier]
         /\ pool.tokens \subseteq Tokens /\ Cardinality(pool.tokens) = 2
         /\ \E t \in 1..Len(Tiers(query.from)) : pool.tier = Tiers(query.from)[t]
         /\ pool # NoPool
<1> DEFINE tiers == Tiers(query.from)
<1>1. tiers \in Seq(Nat)  BY TiersType
<1> HIDE DEF tiers
<1>2. pool \in [tokens : kSubset(2, Tokens), tier : ToSet(tiers)]
  BY DEF Typed, Pools, tiers
<1>3. DOMAIN tiers = 1..Len(tiers) /\ \A t \in 1..Len(tiers) : tiers[t] \in Nat
  BY <1>1, LenProperties, ElementOfSeq
<1>4. \E t \in 1..Len(tiers) : pool.tier = tiers[t]  BY <1>2, <1>3 DEF ToSet
<1>5. pool.tokens \subseteq Tokens /\ Cardinality(pool.tokens) = 2
  BY <1>2 DEF kSubset
<1>6. pool = [tokens |-> pool.tokens, tier |-> pool.tier]  BY <1>2
<1>7. pool.tier \in Nat  BY <1>3, <1>4
<1>8. pool.tokens \in SUBSET Nat  BY <1>5, PartsAssumption
<1>9. [tokens |-> pool.tokens, tier |-> pool.tier] \in [tokens : SUBSET Nat, tier : Nat]
  BY <1>7, <1>8
<1>10. pool # NoPool  BY <1>6, <1>9, DiscoveryAssumption
<1> QED  BY <1>4, <1>5, <1>6, <1>10 DEF tiers

(* What the factory answers to the question about x and y in a tier.       *)
LEMMA Answered ==
  ASSUME Typed, query.from \in HasFactory, NEW x \in Nat, NEW y \in Nat, NEW t,
         NEW pool, pool = PoolOf(query.deployed, [assets |-> Sorted(x, y), tier |-> t])
  PROVE  /\ pool # NoPool => /\ pool \in query.deployed
                             /\ pool.tokens = {x, y} /\ x # y /\ pool.tier = t
         /\ \A other \in query.deployed :
              other.tokens = {x, y} /\ other.tier = t => pool = other
<1> DEFINE answer == [tokens |-> {x, y}, tier |-> t]
<1>1. pool = IF answer \in query.deployed THEN answer ELSE NoPool
  BY SortedIs DEF PoolOf
<1>2. answer.tokens = {x, y} /\ answer.tier = t  OBVIOUS
<1>3. \A other \in query.deployed :
        other.tokens = {x, y} /\ other.tier = t => pool = other
  BY <1>1, Deployed
<1> HIDE DEF answer
<1>4. ASSUME pool # NoPool
      PROVE  pool \in query.deployed /\ pool.tokens = {x, y} /\ x # y /\ pool.tier = t
  <2>1. pool = answer /\ answer \in query.deployed  BY <1>1, <1>4
  <2>2. Cardinality({x, y}) = 2  BY <1>2, <2>1, Deployed
  <2>3. x # y
    <3> SUFFICES ASSUME x = y PROVE FALSE
      OBVIOUS
    <3>1. {x, y} = {x}  OBVIOUS
    <3>2. Cardinality({x}) = 1  BY FS_Singleton
    <3> QED  BY <2>2, <3>1, <3>2
  <2> QED  BY <1>2, <2>1, <2>3
<1> QED  BY <1>3, <1>4

(* Every key that discover() returns is of the pool it asked about, at     *)
(* whichever position its answer came.                                     *)
KeyOf(k, q, i, j, t) ==
  LET key == Discovered[k]
      x == query.assets[i]
      y == query.assets[j]
  IN  /\ q \in 1..Len(Questions(query.from, query.assets)) /\ q \notin query.lost
      /\ {i, j} \subseteq 1..Len(query.assets) /\ i < j
      /\ t \in 1..Len(Tiers(query.from))
      /\ x \in Nat /\ y \in Nat /\ x # y /\ key.address \in query.deployed
      /\ key.address.tokens = {x, y} /\ key.assets = Sorted(x, y)
      /\ key.address.tier = Tiers(query.from)[t]
      /\ key.fee = FeeBps(query.from, key.address.tier)

LEMMA KeysAre ==
  ASSUME Typed, query.from \in HasFactory,
         NEW at, NEW lo, NEW hi, NEW tier,
         FoundAt(query.deployed, Questions(query.from, query.assets),
                 query.lost, Discovered, at),
         QuestionsOf(Questions(query.from, query.assets), query.assets,
                     Tiers(query.from), lo, hi, tier),
         NEW k \in 1..Len(Discovered)
  PROVE  KeyOf(k, at[k], lo[at[k]], hi[at[k]], tier[at[k]])
<1> DEFINE asked == Questions(query.from, query.assets)
           tiers == Tiers(query.from)
           assets == query.assets
           q == at[k]
           x == assets[lo[q]]
           y == assets[hi[q]]
           key == Discovered[k]
<1>1. /\ q \in 1..Len(asked) /\ q \notin query.lost
      /\ key.address = PoolOf(query.deployed, asked[q]) /\ key.address # NoPool
      /\ key.assets = asked[q].assets /\ key.fee = FeeBps(query.from, asked[q].tier)
  BY DEF FoundAt
<1>2. /\ lo[q] \in 1..Len(assets) /\ hi[q] \in 1..Len(assets) /\ lo[q] < hi[q]
      /\ tier[q] \in 1..Len(tiers)
      /\ asked[q] = [assets |-> Sorted(x, y), tier |-> tiers[tier[q]]]
  BY <1>1 DEF QuestionsOf
<1> HIDE DEF asked, tiers
<1>3. assets \in Seq(Nat)
  BY PartsAssumption, SeqMonotonic DEF Typed
<1>4. x \in Nat /\ y \in Nat  BY <1>2, <1>3, ElementOfSeq
<1> HIDE DEF x, y, q, key
<1>5. key.address = PoolOf(query.deployed, [assets |-> Sorted(x, y), tier |-> tiers[tier[q]]])
  BY <1>1, <1>2
<1>6. /\ key.address \in query.deployed /\ key.address.tokens = {x, y} /\ x # y
      /\ key.address.tier = tiers[tier[q]]
  BY <1>1, <1>4, <1>5, Answered
<1>7. key.assets = Sorted(x, y) /\ key.fee = FeeBps(query.from, key.address.tier)
  BY <1>1, <1>2, <1>6
<1> QED  BY <1>1, <1>2, <1>4, <1>6, <1>7 DEF KeyOf, x, y, q, key, asked, tiers

(* The keys that discover() returns are those of the pools they name.      *)
THEOREM KeysFitTheirPoolsAlways == Spec => []KeysFitTheirPools
<1>1. Typed => KeysFitTheirPools
  <2> SUFFICES ASSUME Typed, query.from \in HasFactory, NEW k \in DOMAIN Discovered
               PROVE  /\ ToSet(Discovered[k].assets) = Discovered[k].address.tokens
                      /\ Discovered[k].assets[1] < Discovered[k].assets[2]
                      /\ Discovered[k].fee = FeeBps(query.from, Discovered[k].address.tier)
    BY DEF KeysFitTheirPools
  <2>1. PICK at : FoundAt(query.deployed, Questions(query.from, query.assets),
                          query.lost, Discovered, at)
    BY DiscoveredAre
  <2>2. query.assets \in Seq(Nat)  BY PartsAssumption, SeqMonotonic DEF Typed
  <2>3. PICK lo, hi, tier :
          QuestionsOf(Questions(query.from, query.assets), query.assets,
                      Tiers(query.from), lo, hi, tier)
    BY <2>2, QuestionsAre
  <2>4. k \in 1..Len(Discovered)  BY <2>1 DEF FoundAt
  <2> DEFINE x == query.assets[lo[at[k]]]
             y == query.assets[hi[at[k]]]
  <2>k. KeyOf(k, at[k], lo[at[k]], hi[at[k]], tier[at[k]])
    BY <2>1, <2>3, <2>4, KeysAre
  <2>5. /\ x \in Nat /\ y \in Nat /\ x # y
        /\ Discovered[k].address.tokens = {x, y} /\ Discovered[k].assets = Sorted(x, y)
        /\ Discovered[k].fee = FeeBps(query.from, Discovered[k].address.tier)
    BY <2>k DEF KeyOf
  <2> HIDE DEF x, y
  <2>6. ToSet(Sorted(x, y)) = {x, y} /\ Sorted(x, y)[1] < Sorted(x, y)[2]
    BY <2>5, SortedIs
  <2> QED  BY <2>5, <2>6
<1> QED  BY <1>1, TypedInvariant, PTL

(* A set of two elements of those that s lists is of two places of s.      *)
LEMMA TwoOf ==
  ASSUME NEW s \in Seq(Nat), NEW two \in SUBSET ToSet(s), Cardinality(two) = 2
  PROVE  \E i, j \in 1..Len(s) : i < j /\ two = {s[i], s[j]}
<1>1. Len(s) \in Nat /\ DOMAIN s = 1..Len(s) /\ \A i \in 1..Len(s) : s[i] \in Nat
  BY LenProperties, ElementOfSeq
<1>2. IsFiniteSet(ToSet(s))
  <2>1. IsFiniteSet(1..Len(s))  BY <1>1, FS_Interval
  <2>2. s \in [1..Len(s) -> ToSet(s)]  BY <1>1, SeqDef DEF ToSet
  <2>3. \A x \in ToSet(s) : \E i \in 1..Len(s) : s[i] = x  BY <1>1 DEF ToSet
  <2>4. s \in Surjection(1..Len(s), ToSet(s))  BY <2>2, <2>3 DEF Surjection
  <2> QED  BY <2>1, <2>4, FS_Surjection
<1>3. IsFiniteSet(two)  BY <1>2, FS_Subset
<1>4. two # {}  BY <1>3, FS_EmptySet
<1>5. PICK x \in two : TRUE  BY <1>4
<1>6. IsFiniteSet(two \ {x}) /\ Cardinality(two \ {x}) = 1
  BY <1>3, <1>5, FS_RemoveElement
<1>7. PICK y : two \ {x} = {y}  BY <1>6, FS_Singleton
<1>8. two = {x, y} /\ x # y  BY <1>5, <1>7
<1>9. PICK i \in 1..Len(s) : s[i] = x  BY <1>1, <1>8 DEF ToSet
<1>10. PICK j \in 1..Len(s) : s[j] = y  BY <1>1, <1>8 DEF ToSet
<1>11. i # j  BY <1>8, <1>9, <1>10
<1>12. CASE i < j  BY <1>8, <1>9, <1>10, <1>12
<1>13. CASE j < i
  <2>1. two = {s[j], s[i]}  BY <1>8, <1>9, <1>10
  <2> QED  BY <1>13, <2>1
<1> QED  BY <1>1, <1>11, <1>12, <1>13

(* Two keys of one pool came from one answer, if no asset and no tier is   *)
(* listed twice.                                                           *)
LEMMA KeysDiffer ==
  ASSUME IsInjective(query.assets), IsInjective(Tiers(query.from)),
         query.assets \in Seq(Nat), Tiers(query.from) \in Seq(Nat),
         NEW k, NEW q, NEW i, NEW j, NEW t, KeyOf(k, q, i, j, t),
         NEW k2, NEW q2, NEW i2, NEW j2, NEW t2, KeyOf(k2, q2, i2, j2, t2),
         Discovered[k].address = Discovered[k2].address
  PROVE  i = i2 /\ j = j2 /\ t = t2
<1> DEFINE assets == query.assets
           tiers == Tiers(query.from)
<1>1. /\ i \in 1..Len(assets) /\ j \in 1..Len(assets) /\ i < j /\ t \in 1..Len(tiers)
      /\ Discovered[k].address.tokens = {assets[i], assets[j]}
      /\ Discovered[k].address.tier = tiers[t]
  BY DEF KeyOf
<1>2. /\ i2 \in 1..Len(assets) /\ j2 \in 1..Len(assets) /\ i2 < j2 /\ t2 \in 1..Len(tiers)
      /\ Discovered[k2].address.tokens = {assets[i2], assets[j2]}
      /\ Discovered[k2].address.tier = tiers[t2]
  BY DEF KeyOf
<1>3. DOMAIN assets = 1..Len(assets) /\ DOMAIN tiers = 1..Len(tiers)
      /\ Len(assets) \in Nat
  BY LenProperties
<1>4. \A m, n \in 1..Len(assets) : assets[m] = assets[n] => m = n
  BY <1>3 DEF IsInjective
<1>5. \A m, n \in 1..Len(tiers) : tiers[m] = tiers[n] => m = n
  BY <1>3 DEF IsInjective
<1> HIDE DEF assets, tiers
<1>6. {assets[i], assets[j]} = {assets[i2], assets[j2]} /\ tiers[t] = tiers[t2]
  BY <1>1, <1>2
<1>7. t = t2  BY <1>1, <1>2, <1>5, <1>6
<1>8. \/ assets[i] = assets[i2] /\ assets[j] = assets[j2]
      \/ assets[i] = assets[j2] /\ assets[j] = assets[i2]
  BY <1>6
<1>9. (i = i2 /\ j = j2) \/ (i = j2 /\ j = i2)  BY <1>1, <1>2, <1>4, <1>8
<1>10. ~(i = j2 /\ j = i2)  BY <1>1, <1>2, <1>3
<1> QED  BY <1>7, <1>9, <1>10

(* discover() finds every pool of two of the assets and no other, and no   *)
(* pool twice.                                                             *)
THEOREM FindsEveryPoolOnceAlways == Spec => []FindsEveryPoolOnce
<1>1. Typed => FindsEveryPoolOnce
  <2> SUFFICES ASSUME Typed, query.from \in HasFactory PROVE FindsEveryPoolOnce
    BY DEF FindsEveryPoolOnce
  <2> DEFINE found == {Discovered[k].address : k \in DOMAIN Discovered}
             traded == {pool \in query.deployed : pool.tokens \subseteq ToSet(query.assets)}
             asked == Questions(query.from, query.assets)
             unread == {PoolOf(query.deployed, asked[k]) : k \in query.lost}
             N == Len(Discovered)
  <2>a. query.assets \in Seq(Nat)  BY PartsAssumption, SeqMonotonic DEF Typed
  <2>b. Tiers(query.from) \in Seq(Nat)  BY TiersType
  <2>c. \A i \in 1..Len(query.assets) : query.assets[i] \in Nat  BY <2>a, ElementOfSeq
  <2>1. PICK at : FoundAt(query.deployed, asked, query.lost, Discovered, at)
    BY DiscoveredAre
  <2>2. PICK lo, hi, tier :
          QuestionsOf(asked, query.assets, Tiers(query.from), lo, hi, tier)
    BY <2>a, QuestionsAre
  <2>3. N \in Nat /\ DOMAIN Discovered = 1..N  BY <2>1 DEF FoundAt
  <2>4. \A k \in 1..N : KeyOf(k, at[k], lo[at[k]], hi[at[k]], tier[at[k]])
    BY <2>1, <2>2, KeysAre
  <2>5. found \subseteq traded
    <3> SUFFICES ASSUME NEW k \in 1..N
                 PROVE  /\ Discovered[k].address \in query.deployed
                        /\ Discovered[k].address.tokens \subseteq ToSet(query.assets)
      BY <2>3
    <3>1. /\ Discovered[k].address \in query.deployed
          /\ lo[at[k]] \in 1..Len(query.assets) /\ hi[at[k]] \in 1..Len(query.assets)
          /\ Discovered[k].address.tokens =
               {query.assets[lo[at[k]]], query.assets[hi[at[k]]]}
      BY <2>4 DEF KeyOf
    <3>2. \A i \in 1..Len(query.assets) : query.assets[i] \in ToSet(query.assets)
      BY <2>a, LenProperties DEF ToSet
    <3> QED  BY <3>1, <3>2
  <2>6. traded \subseteq found \cup unread
    <3> SUFFICES ASSUME NEW pool \in query.deployed, pool.tokens \subseteq ToSet(query.assets),
                        pool \notin unread
                 PROVE  pool \in found
      OBVIOUS
    <3>0. pool.tokens \in SUBSET ToSet(query.assets) /\ Cardinality(pool.tokens) = 2
      BY <2>a, Deployed
    <3>1. PICK i \in 1..Len(query.assets), j \in 1..Len(query.assets) :
            i < j /\ pool.tokens = {query.assets[i], query.assets[j]}
      BY <2>a, <3>0, TwoOf, Zenon
    <3>2. PICK t \in 1..Len(Tiers(query.from)) : pool.tier = Tiers(query.from)[t]
      BY Deployed
    <3>3. PICK q \in 1..Len(asked) : lo[q] = i /\ hi[q] = j /\ tier[q] = t
      BY <2>2, <3>1 DEF QuestionsOf
    <3>4. asked[q] = [assets |-> Sorted(query.assets[i], query.assets[j]),
                      tier |-> Tiers(query.from)[t]]
      BY <2>2, <3>3 DEF QuestionsOf
    <3>5. PoolOf(query.deployed, asked[q]) = pool /\ pool # NoPool
      <4> DEFINE x == query.assets[i]
                 y == query.assets[j]
                 u == Tiers(query.from)[t]
                 reply == PoolOf(query.deployed, asked[q])
      <4>1. x \in Nat /\ y \in Nat  BY <2>c
      <4>2. pool.tokens = {x, y} /\ pool.tier = u  BY <3>1, <3>2
      <4>3. reply = PoolOf(query.deployed, [assets |-> Sorted(x, y), tier |-> u])
        BY <3>4
      <4> HIDE DEF x, y, u, reply
      <4>4. \A other \in query.deployed :
              other.tokens = {x, y} /\ other.tier = u => reply = other
        BY <4>1, <4>3, Answered
      <4>5. reply = pool  BY <4>2, <4>4
      <4> QED  BY <4>5, Deployed DEF reply
    <3>6. q \notin query.lost  BY <3>5
    <3>7. PICK k \in 1..N : at[k] = q  BY <2>1, <3>5, <3>6 DEF FoundAt
    <3>8. Discovered[k].address = pool  BY <2>1, <3>5, <3>7 DEF FoundAt
    <3> QED  BY <2>3, <3>7, <3>8
  <2>7. ASSUME IsInjective(query.assets), IsInjective(Tiers(query.from))
        PROVE  N = Cardinality(found)
    <3> DEFINE name == [k \in 1..N |-> Discovered[k].address]
    <3>1. \A k \in 1..N : name[k] = Discovered[k].address  OBVIOUS
    <3>2. name \in [1..N -> found] /\ \A x \in found : \E k \in 1..N : name[k] = x
      BY <2>3
    <3> HIDE DEF name, found, N
    <3>3. \A k, m \in 1..N : name[k] = name[m] => k = m
      <4> SUFFICES ASSUME NEW k \in 1..N, NEW m \in 1..N, name[k] = name[m] PROVE k = m
        OBVIOUS
      <4>1. Discovered[k].address = Discovered[m].address  BY <3>1
      <4>2. /\ KeyOf(k, at[k], lo[at[k]], hi[at[k]], tier[at[k]])
            /\ KeyOf(m, at[m], lo[at[m]], hi[at[m]], tier[at[m]])
        BY <2>4
      <4>3. lo[at[k]] = lo[at[m]] /\ hi[at[k]] = hi[at[m]] /\ tier[at[k]] = tier[at[m]]
        BY <2>7, <2>a, <2>b, <4>1, <4>2, KeysDiffer
      <4>4. at[k] \in 1..Len(asked) /\ at[m] \in 1..Len(asked)  BY <4>2 DEF KeyOf
      <4>5. at[k] = at[m]  BY <2>2, <4>3, <4>4 DEF QuestionsOf
      <4> QED  BY <2>1, <4>5 DEF FoundAt, N
    <3>4. name \in Bijection(1..N, found)
      BY <3>2, <3>3 DEF Bijection, Injection, Surjection, IsInjective
    <3>5. IsFiniteSet(1..N) /\ Cardinality(1..N) = N  BY <2>3, FS_Interval
    <3>6. ExistsBijection(1..N, found)  BY <3>4 DEF ExistsBijection
    <3> QED  BY <3>5, <3>6, FS_Bijection
  <2> QED  BY <2>5, <2>6, <2>7 DEF FindsEveryPoolOnce
<1> QED  BY <1>1, TypedInvariant, PTL

-----------------------------------------------------------------------------
(* Words and where they lie. *)

(* Division with a rest is unique.                                         *)
LEMMA Quotient ==
  ASSUME NEW n \in Int, NEW b \in Nat \ {0}, NEW q \in Int, NEW r \in 0..b - 1, n = b * q + r
  PROVE  n \div b = q /\ n % b = r
<1>1. /\ n \div b \in Int /\ n % b \in 0..b - 1 /\ n = b * (n \div b) + (n % b)
  OBVIOUS
<1>2. b * (q - (n \div b)) = (n % b) - r
  BY <1>1
<1>3. ~(q - (n \div b) >= 1)
  BY <1>1, <1>2
<1>4. ~(q - (n \div b) <= -1)
  BY <1>1, <1>2
<1>5. n \div b = q
  BY <1>1, <1>3, <1>4
<1> QED  BY <1>1, <1>5

(* Powers of two, as the numbers of sets of bits.                          *)
LEMMA BitSets ==
  ASSUME NEW n \in Nat
  PROVE  /\ IsFiniteSet(SUBSET (1..n)) /\ Cardinality(SUBSET (1..n)) = 2^n
         /\ 2^n \in Nat \ {0}
<1>1. IsFiniteSet(1..n) /\ Cardinality(1..n) = n
  BY FS_Interval
<1>2. IsFiniteSet(SUBSET (1..n)) /\ Cardinality(SUBSET (1..n)) = 2^n
  BY <1>1, FS_SUBSET
<1>3. 2^n \in Nat
  BY <1>2, FS_CardinalityType
<1>4. SUBSET (1..n) # {}
  OBVIOUS
<1>5. 2^n # 0
  BY <1>2, <1>4, FS_EmptySet
<1> QED  BY <1>2, <1>3, <1>5

LEMMA PowersMultiply ==
  ASSUME NEW m \in Nat, NEW n \in Nat
  PROVE  2^(m + n) = 2^m * 2^n
<1> DEFINE Low == 1..m  High == m + 1..m + n  All == 1..m + n
<1>1. IsFiniteSet(High) /\ Cardinality(High) = n
  <2>1. m + 1 \in Int /\ m + n \in Int
    OBVIOUS
  <2>2. IsFiniteSet(High) /\ Cardinality(High) = IF m + 1 > m + n THEN 0 ELSE m + n - (m + 1) + 1
    BY <2>1, FS_Interval
  <2> QED  BY <2>2
<1>2. Low \cup High = All /\ Low \cap High = {}
  OBVIOUS
<1> HIDE DEF Low, High, All
<1>3. IsFiniteSet(SUBSET High) /\ Cardinality(SUBSET High) = 2^n
  BY <1>1, FS_SUBSET
<1>4. IsFiniteSet(SUBSET Low) /\ Cardinality(SUBSET Low) = 2^m
  BY BitSets DEF Low
<1>5. IsFiniteSet(SUBSET All) /\ Cardinality(SUBSET All) = 2^(m + n)
  <2>1. m + n \in Nat
    OBVIOUS
  <2> QED  BY <2>1, BitSets DEF All
<1> DEFINE S == SUBSET Low  T == SUBSET High  U == SUBSET All
           parts == [bits \in U |-> <<bits \cap Low, bits \cap High>>]
<1>6. parts \in Bijection(U, S \X T)
  <2>1. parts \in [U -> S \X T]
    OBVIOUS
  <2>2. ASSUME NEW one \in U, NEW other \in U, parts[one] = parts[other]
        PROVE  one = other
    BY <2>2, <1>2
  <2>3. ASSUME NEW pair \in S \X T PROVE \E bits \in U : parts[bits] = pair
    <3>1. PICK low \in S, high \in T : pair = <<low, high>>
      OBVIOUS
    <3>2. low \cup high \in U
      BY <1>2
    <3>3. (low \cup high) \cap Low = low /\ (low \cup high) \cap High = high
      BY <1>2
    <3>4. parts[low \cup high] = pair
      BY <3>1, <3>2, <3>3
    <3> QED  BY <3>2, <3>4
  <2> HIDE DEF S, T, U, parts
  <2>4. parts \in Injection(U, S \X T)
    BY <2>1, <2>2 DEF Injection, IsInjective
  <2>5. parts \in Surjection(U, S \X T)
    BY <2>1, <2>3 DEF Surjection
  <2> QED  BY <2>4, <2>5 DEF Bijection
<1> HIDE DEF S, T, U, parts
<1>7. Cardinality(S \X T) = Cardinality(S) * Cardinality(T)
  BY <1>3, <1>4, FS_Product DEF S, T
<1>8. Cardinality(S \X T) = Cardinality(U)
  BY <1>5, <1>6, FS_Bijection DEF ExistsBijection, U
<1> QED  BY <1>3, <1>4, <1>5, <1>7, <1>8 DEF S, T, U

LEMMA Ring ==
  ASSUME NEW x \in Int, NEW y \in Int, NEW z \in Int
  PROVE  /\ x * y \in Int /\ x * (y + z) = x * y + x * z /\ x * (y * z) = (x * y) * z
         /\ (y + z) * x = y * x + z * x
OBVIOUS

(* A word made of four fields, of P, T, F and G values, comes apart again: *)
(* Q and R values are below the third and the fourth.                      *)
MadeOf(word, P, T, F, G, Q, R, p, t, f, l) ==
  /\ P \in Nat \ {0} /\ T \in Nat \ {0} /\ F \in Nat \ {0} /\ G \in Nat \ {0}
  /\ p \in 0..P - 1 /\ t \in 0..T - 1 /\ f \in 0..F - 1 /\ l \in 0..G - 1
  /\ Q = P * T /\ R = Q * F /\ word = p + P * t + Q * f + R * l

LEMMA FourFields ==
  ASSUME NEW P, NEW T, NEW F, NEW G, NEW Q, NEW R, NEW p, NEW t, NEW f, NEW l, NEW word,
         MadeOf(word, P, T, F, G, Q, R, p, t, f, l)
  PROVE  /\ (word \div 1) % P = p /\ (word \div P) % T = t
         /\ (word \div Q) % F = f /\ (word \div R) % G = l
<1>a. /\ P \in Nat \ {0} /\ T \in Nat \ {0} /\ F \in Nat \ {0} /\ G \in Nat \ {0}
      /\ p \in 0..P - 1 /\ t \in 0..T - 1 /\ f \in 0..F - 1 /\ l \in 0..G - 1
  BY DEF MadeOf
<1>b. Q = P * T /\ R = Q * F /\ word = p + P * t + Q * f + R * l
  BY DEF MadeOf
<1> DEFINE fl == f + F * l  tfl == t + T * fl  low == p + P * t  lower == low + Q * f
<1>1. /\ Q \in Nat \ {0} /\ R \in Nat \ {0} /\ fl \in Nat
      /\ tfl \in Nat /\ p \in Int /\ t \in Int /\ f \in Int /\ l \in Int
  <2>1. \A x \in Nat \ {0}, y \in Nat \ {0} : x * y \in Nat \ {0}
    OBVIOUS
  <2>2. \A x \in Nat, y \in Nat : x * y \in Nat
    OBVIOUS
  <2>3. fl \in Nat
    <3>1. F * l \in Nat
      BY <1>a, <2>2
    <3> QED  BY <1>a, <3>1
  <2>4. T * fl \in Nat
    BY <1>a, <2>2, <2>3
  <2>5. tfl \in Nat
    BY <1>a, <2>4
  <2>6. Q \in Nat \ {0}
    BY <1>a, <1>b, <2>1
  <2>7. R \in Nat \ {0}
    BY <1>a, <1>b, <2>1, <2>6
  <2> QED  BY <1>a, <2>3, <2>5, <2>6, <2>7
<1>2. low \in 0..Q - 1 /\ lower \in 0..R - 1
  <2>1. \A x \in Nat \ {0}, y \in Nat \ {0} : \A u \in 0..x - 1, v \in 0..y - 1 : u + x * v \in 0..x * y - 1
    <3>1. SUFFICES ASSUME NEW x \in Nat \ {0}, NEW y \in Nat \ {0}, NEW u \in 0..x - 1, NEW v \in 0..y - 1
                   PROVE  u + x * v \in 0..x * y - 1
      OBVIOUS
    <3>2. x * v \in Nat /\ x * v <= x * (y - 1) /\ x * (y - 1) = x * y - x /\ x * y \in Nat
      OBVIOUS
    <3> QED  BY <3>2
  <2>2. low \in 0..Q - 1
    BY <1>a, <1>b, <2>1
  <2> HIDE DEF low
  <2>3. low + Q * f \in 0..Q * F - 1
    BY <1>a, <2>1, <2>2, <1>1
  <2> QED  BY <1>b, <2>2, <2>3
<1>3. /\ p + P * tfl \in Nat /\ word = p + P * tfl
      /\ tfl = t + T * fl /\ word = low + Q * fl /\ fl = f + F * l /\ word = lower + R * l
  <2>1. /\ P \in Int /\ T \in Int /\ F \in Int /\ fl \in Int /\ Q \in Int /\ R \in Int
        /\ F * l \in Int /\ T * fl \in Int /\ tfl \in Int
    BY <1>a, <1>1, Ring
  <2>2. P * tfl = P * t + P * (T * fl)
    BY <2>1, <1>1, Ring
  <2>3. P * (T * fl) = Q * fl
    BY <1>b, <2>1, <1>1, Ring
  <2>4. Q * fl = Q * f + Q * (F * l)
    BY <2>1, <1>1, Ring
  <2>5. Q * (F * l) = R * l
    BY <1>b, <2>1, <1>1, Ring
  <2>6. /\ P * t \in Int /\ Q * f \in Int /\ R * l \in Int /\ P * tfl \in Int /\ Q * fl \in Int
    BY <2>1, <1>1, Ring
  <2>7. word = p + P * t + Q * f + R * l
    BY <1>b
  <2>8. low = p + P * t /\ lower = p + P * t + Q * f /\ fl = f + F * l /\ tfl = t + T * fl
    OBVIOUS
  <2> HIDE DEF low, lower, fl, tfl
  <2>9. word = p + P * tfl /\ word = low + Q * fl /\ word = lower + R * l
    BY <2>2, <2>3, <2>4, <2>5, <2>6, <2>7, <2>8, <1>1
  <2>10. P * tfl \in Nat
    BY <1>a, <1>1
  <2> QED  BY <1>a, <2>8, <2>9, <2>10
<1> HIDE DEF fl, tfl, low, lower
<1>r. /\ P * tfl \in Int /\ T * fl \in Int /\ Q * fl \in Int /\ F * l \in Int
      /\ low \in Int /\ lower \in Int
  BY <1>a, <1>1, <1>2, Ring
<1>4. (word \div 1) % P = p
  <2>1. word \in Int /\ word \div 1 = word
    BY <1>3
  <2>2. word = P * tfl + p /\ tfl \in Int
    BY <1>1, <1>3, <1>r
  <2>3. word % P = p
    BY <1>a, <2>1, <2>2, Quotient
  <2> QED  BY <2>1, <2>3
<1>5. (word \div P) % T = t
  <2>1. word = P * tfl + p /\ word \in Int /\ tfl \in Int
    BY <1>1, <1>2, <1>3, <1>r
  <2>2. tfl = T * fl + t /\ fl \in Int
    BY <1>1, <1>2, <1>3, <1>r
  <2>3. word \div P = tfl
    BY <1>a, <2>1, Quotient
  <2>4. tfl % T = t
    BY <1>a, <2>1, <2>2, <1>1, Quotient
  <2> QED  BY <2>3, <2>4
<1>6. (word \div Q) % F = f
  <2>1. word = Q * fl + low /\ word \in Int /\ fl \in Int
    BY <1>1, <1>2, <1>3, <1>r
  <2>2. fl = F * l + f /\ l \in Int
    BY <1>1, <1>2, <1>3, <1>r
  <2>3. word \div Q = fl
    BY <1>a, <2>1, <1>1, <1>2, Quotient
  <2>4. fl % F = f
    BY <1>a, <2>1, <2>2, <1>1, Quotient
  <2> QED  BY <2>3, <2>4
<1>7. (word \div R) % G = l
  <2>1. word = R * l + lower /\ word \in Int
    <3>1. R * l \in Int
      BY <1>1
    <3> QED  BY <1>2, <1>3, <3>1
  <2>2. word \div R = l
    BY <1>a, <2>1, <1>1, <1>2, Quotient
  <2>3. l = G * 0 + l /\ 0 \in Int
    BY <1>a
  <2>4. l % G = l
    BY <1>a, <1>1, <2>3, Quotient
  <2> QED  BY <2>2, <2>4
<1> QED  BY <1>3, <1>4, <1>5, <1>6, <1>7

(* Two's complement.                                                       *)
LEMMA SignedIs ==
  ASSUME NEW bits \in Nat \ {0}, NEW n \in Signed(bits)
  PROVE  n % 2^bits \in Unsigned(bits) /\ SignExtended(n % 2^bits, bits) = n
<1> DEFINE half == 2^(bits - 1)  whole == 2^bits
<1>1. bits - 1 \in Nat /\ bits = (bits - 1) + 1
  OBVIOUS
<1>2. half \in Nat \ {0} /\ whole = 2 * half
  <2>1. 2^1 = 2
    OBVIOUS
  <2>2. half \in Nat \ {0}
    BY <1>1, BitSets
  <2>3. 2^((bits - 1) + 1) = half * 2^1
    BY <1>1, PowersMultiply
  <2> QED  BY <1>1, <2>1, <2>2, <2>3
<1>3. n \in -half..half - 1
  BY DEF Signed
<1>4. /\ Unsigned(bits) = 0..whole - 1
      /\ SignExtended(n % whole, bits) = IF n % whole < half THEN n % whole ELSE (n % whole) - whole
  BY DEF Unsigned, SignExtended
<1> HIDE DEF half, whole
<1>5. n % whole = IF n >= 0 THEN n ELSE n + whole
  <2>1. CASE n >= 0
    <3>1. n = whole * 0 + n /\ n \in 0..whole - 1 /\ n \in Int /\ whole \in Nat \ {0}
      BY <1>2, <1>3, <2>1
    <3> QED  BY <3>1, <2>1, Quotient
  <2>2. CASE n < 0
    <3>1. /\ n = whole * (-1) + (n + whole) /\ n + whole \in 0..whole - 1
          /\ n \in Int /\ -1 \in Int /\ whole \in Nat \ {0}
      BY <1>2, <1>3, <2>2
    <3>2. n % whole = n + whole
      BY <3>1, Quotient
    <3>3. ~(n >= 0)
      BY <1>2, <1>3, <2>2
    <3> QED  BY <3>3, <3>2
  <2>3. n >= 0 \/ n < 0
    BY <1>2, <1>3
  <2> QED  BY <2>1, <2>2, <2>3
<1>6. n % whole \in 0..whole - 1
  BY <1>2, <1>3, <1>5
<1>7. (IF n % whole < half THEN n % whole ELSE (n % whole) - whole) = n
  BY <1>2, <1>3, <1>5
<1> QED  BY <1>4, <1>6, <1>7 DEF whole

(* The words of the pool manager.                                          *)
LEMMA BitCounts ==
  /\ PriceBits \in Nat \ {0} /\ TickBits \in Nat \ {0} /\ HalfFeeBits \in Nat \ {0}
  /\ LiquidityBits \in Nat \ {0} /\ FEE_UNIT \in Nat \ {0} /\ FeeBits \in Nat \ {0}
BY StorageAssumption DEF FeeBits

LEMMA Slot0Is ==
  ASSUME NEW pool, IsPoolState(pool)
  PROVE  DecodeSlot0(Slot0Word(pool)) =
           [ price |-> pool.price, tick |-> pool.tick,
             protocolFee |-> pool.fees[1] + 2^HalfFeeBits * pool.fees[2],
             lpFee |-> pool.lpFee ]
<1> DEFINE t == pool.tick % 2^TickBits
           f == pool.fees[1] + 2^HalfFeeBits * pool.fees[2]
           P == 2^PriceBits  T == 2^TickBits  F == 2^FeeBits  H == 2^HalfFeeBits
<1>1. /\ pool.price \in Unsigned(PriceBits) /\ pool.tick \in Signed(TickBits)
      /\ pool.lpFee \in Unsigned(FeeBits) /\ pool.fees[1] \in Unsigned(HalfFeeBits)
      /\ pool.fees[2] \in Unsigned(HalfFeeBits)
  BY DEF IsPoolState
<1>2. t \in Unsigned(TickBits) /\ SignExtended(t, TickBits) = pool.tick
  BY <1>1, SignedIs, BitCounts
<1>3. /\ P \in Nat \ {0} /\ T \in Nat \ {0} /\ F \in Nat \ {0} /\ H \in Nat \ {0}
      /\ F = H * H
      /\ 2^(PriceBits + TickBits) = P * T /\ 2^(PriceBits + TickBits + FeeBits) = (P * T) * F
      /\ PriceBits + TickBits \in Nat /\ PriceBits + TickBits + FeeBits \in Nat
  <2>1. /\ PriceBits \in Nat /\ TickBits \in Nat /\ FeeBits \in Nat /\ HalfFeeBits \in Nat
        /\ PriceBits + TickBits \in Nat /\ FeeBits = HalfFeeBits + HalfFeeBits
        /\ PriceBits + TickBits + FeeBits \in Nat
    BY BitCounts DEF FeeBits
  <2>2. 2^(HalfFeeBits + HalfFeeBits) = H * H
    BY <2>1, PowersMultiply
  <2>3. 2^(PriceBits + TickBits) = P * T
    BY <2>1, PowersMultiply
  <2>4. 2^(PriceBits + TickBits + FeeBits) = 2^(PriceBits + TickBits) * F
    BY <2>1, PowersMultiply
  <2> QED  BY <2>1, <2>2, <2>3, <2>4, BitSets
<1>4. f \in Unsigned(FeeBits) /\ f \in Nat
  <2>1. Unsigned(FeeBits) = 0..F - 1 /\ Unsigned(HalfFeeBits) = 0..H - 1
    BY DEF Unsigned
  <2>2. pool.fees[1] \in 0..H - 1 /\ pool.fees[2] \in 0..H - 1
    BY <1>1, <2>1
  <2>3. f = pool.fees[1] + H * pool.fees[2]
    OBVIOUS
  <2> HIDE DEF f, H, F
  <2>4. \A x, y \in 0..H - 1 : x + H * y \in 0..H * H - 1
    <3>1. SUFFICES ASSUME NEW x \in 0..H - 1, NEW y \in 0..H - 1
                   PROVE  x + H * y \in 0..H * H - 1
      OBVIOUS
    <3>2. H * y \in Nat /\ H * y <= H * (H - 1) /\ H * (H - 1) = H * H - H /\ H * H \in Nat
      BY <1>3
    <3> QED  BY <1>3, <3>2
  <2>5. f \in 0..H * H - 1
    BY <2>2, <2>3, <2>4
  <2> QED  BY <1>3, <2>1, <2>5
<1>5. /\ pool.price \in 0..P - 1 /\ t \in 0..T - 1 /\ f \in 0..F - 1 /\ pool.lpFee \in 0..F - 1
  BY <1>1, <1>2, <1>4 DEF Unsigned
<1> DEFINE word == Slot0Word(pool)
<1>w. word = pool.price + P * t + (P * T) * f + ((P * T) * F) * pool.lpFee
  BY <1>3 DEF Slot0Word
<1>f. DecodeSlot0(word) =
        [ price |-> (word \div 1) % P, tick |-> SignExtended((word \div P) % T, TickBits),
          protocolFee |-> (word \div (P * T)) % F, lpFee |-> (word \div ((P * T) * F)) % F ]
  <2>1. 2^0 = 1
    OBVIOUS
  <2> QED  BY <1>3, <2>1 DEF DecodeSlot0, Field
<1>g. f = pool.fees[1] + 2^HalfFeeBits * pool.fees[2]
  OBVIOUS
<1>h. word = Slot0Word(pool)
  OBVIOUS
<1> HIDE DEF P, T, F, H, f, t, word
<1>7. /\ (word \div 1) % P = pool.price /\ (word \div P) % T = t
      /\ (word \div (P * T)) % F = f /\ (word \div ((P * T) * F)) % F = pool.lpFee
  <2>1. MadeOf(word, P, T, F, F, P * T, (P * T) * F, pool.price, t, f, pool.lpFee)
    BY <1>w, <1>3, <1>5 DEF MadeOf
  <2> QED  BY <2>1, FourFields
<1> QED  BY <1>2, <1>f, <1>g, <1>h, <1>7

LEMMA TickWordIs ==
  ASSUME NEW gross \in Unsigned(LiquidityBits), NEW net \in Signed(LiquidityBits), NEW info,
         info.gross = gross, info.net = net
  PROVE  DecodeTick(TickWord(info)) = [gross |-> gross, net |-> net]
<1> DEFINE A == 2^LiquidityBits  word == TickWord(info)  n == net % A
<1>1. LiquidityBits \in Nat \ {0} /\ A \in Nat \ {0} /\ gross \in 0..A - 1
  BY BitCounts, BitSets DEF Unsigned
<1>2. n \in 0..A - 1 /\ SignExtended(n, LiquidityBits) = net
  BY <1>1, SignedIs DEF Unsigned
<1>3. word = gross + A * n
  BY DEF TickWord
<1>4. 2^0 = 1
  OBVIOUS
<1>5. DecodeTick(word) = [ gross |-> (word \div 1) % A,
                           net |-> SignExtended((word \div A) % A, LiquidityBits) ]
  BY <1>4 DEF DecodeTick, Field
<1> HIDE DEF A, word, n
<1>6. MadeOf(word, A, A, 1, 1, A * A, A * A, gross, n, 0, 0)
  <2>1. A * A \in Int /\ (A * A) * 1 = A * A /\ (A * A) * 0 = 0
    BY <1>1
  <2>2. word = gross + A * n + (A * A) * 0 + (A * A) * 0
    <3>1. A * n \in Int
      BY <1>1, <1>2
    <3> QED  BY <1>1, <1>3, <2>1, <3>1
  <2> QED  BY <1>1, <1>2, <2>1, <2>2 DEF MadeOf
<1>7. (word \div 1) % A = gross /\ (word \div A) % A = n
  BY <1>6, FourFields
<1> QED  BY <1>2, <1>5, <1>7 DEF word

LEMMA LiquidityIs ==
  ASSUME NEW amount \in Unsigned(LiquidityBits)
  PROVE  DecodeLiquidity(amount) = amount
<1> DEFINE A == 2^LiquidityBits
<1>1. A \in Nat \ {0} /\ amount \in 0..A - 1 /\ amount \in Int
  BY BitCounts, BitSets DEF Unsigned
<1>2. 2^0 = 1 /\ amount \div 1 = amount
  BY <1>1
<1>3. DecodeLiquidity(amount) = amount % A
  BY <1>2 DEF DecodeLiquidity, Field
<1> HIDE DEF A
<1>4. amount = A * 0 + amount /\ 0 \in Int
  BY <1>1
<1>5. amount % A = amount
  BY <1>1, <1>4, Quotient
<1> QED  BY <1>3, <1>5

LEMMA NothingDecoded ==
  DecodeTick(0).gross = 0
<1> DEFINE A == 2^LiquidityBits
<1>1. A \in Nat \ {0}
  BY BitCounts, BitSets
<1>2. 0 = A * 0 + 0 /\ 0 \in Int /\ 0 \in 0..A - 1
  BY <1>1
<1>3. 2^0 = 1 /\ 0 \div 1 = 0
  OBVIOUS
<1>4. 0 % A = 0
  BY <1>1, <1>2, Quotient
<1> QED  BY <1>3, <1>4 DEF DecodeTick, Field

-----------------------------------------------------------------------------
(* Slots. *)

PoolRoot(id) == <<id, [hashed |-> <<>>, plus |-> 6]>>

LEMMA Places == PlaceOf("slot0") = 1 /\ PlaceOf("liquidity") = 4 /\ PlaceOf("ticks") = 5
<1>1. /\ DOMAIN StateLayout = 1..7
      /\ StateLayout[1] = "slot0" /\ StateLayout[2] = "feeGrowthGlobal0X128"
      /\ StateLayout[3] = "feeGrowthGlobal1X128" /\ StateLayout[4] = "liquidity"
      /\ StateLayout[5] = "ticks" /\ StateLayout[6] = "tickBitmap" /\ StateLayout[7] = "positions"
  BY DEF StateLayout
<1>2. \A i \in 1..7 : i = 1 \/ i = 2 \/ i = 3 \/ i = 4 \/ i = 5 \/ i = 6 \/ i = 7
  OBVIOUS
<1>3. \A i \in DOMAIN StateLayout :
        /\ StateLayout[i] = "slot0" <=> i = 1
        /\ StateLayout[i] = "liquidity" <=> i = 4
        /\ StateLayout[i] = "ticks" <=> i = 5
  BY <1>1, <1>2
<1>4. 1 \in DOMAIN StateLayout /\ 4 \in DOMAIN StateLayout /\ 5 \in DOMAIN StateLayout
  BY <1>1
<1> QED  BY <1>3, <1>4 DEF PlaceOf

LEMMA SlotsAre ==
  ASSUME NEW id
  PROVE  /\ StateAt(id, "slot0") = [hashed |-> PoolRoot(id), plus |-> 0]
         /\ StateAt(id, "liquidity") = [hashed |-> PoolRoot(id), plus |-> 3]
         /\ StateAt(id, "ticks") = [hashed |-> PoolRoot(id), plus |-> 4]
         /\ PoolStateSlot(id) = [hashed |-> PoolRoot(id), plus |-> 0]
         /\ OffsetSlot(PoolStateSlot(id), LIQUIDITY_OFFSET) = [hashed |-> PoolRoot(id), plus |-> 3]
         /\ OffsetSlot(PoolStateSlot(id), TICKS_OFFSET) = [hashed |-> PoolRoot(id), plus |-> 4]
         /\ \A tick : TickInfoSlot(PoolStateSlot(id), tick) = Keccak(tick, StateAt(id, "ticks"))
<1>1. PoolStateSlot(id) = [hashed |-> PoolRoot(id), plus |-> 0]
  BY DEF PoolStateSlot, Keccak, POOLS_SLOT, Slot, PoolRoot
<1>2. \A n \in Int : OffsetSlot([hashed |-> PoolRoot(id), plus |-> 0], n) = [hashed |-> PoolRoot(id), plus |-> n]
  BY DEF OffsetSlot
<1>3. Keccak(id, Slot(6)) = [hashed |-> PoolRoot(id), plus |-> 0]
  BY DEF Keccak, Slot, PoolRoot
<1>4. /\ PlaceOf("slot0") - 1 = 0 /\ PlaceOf("liquidity") - 1 = 3 /\ PlaceOf("ticks") - 1 = 4
      /\ 0 \in Int /\ 3 \in Int /\ 4 \in Int
  BY Places
<1>5. /\ StateAt(id, "slot0") = [hashed |-> PoolRoot(id), plus |-> 0]
      /\ StateAt(id, "liquidity") = [hashed |-> PoolRoot(id), plus |-> 3]
      /\ StateAt(id, "ticks") = [hashed |-> PoolRoot(id), plus |-> 4]
  BY <1>2, <1>3, <1>4 DEF StateAt
<1>6. /\ OffsetSlot(PoolStateSlot(id), LIQUIDITY_OFFSET) = [hashed |-> PoolRoot(id), plus |-> 3]
      /\ OffsetSlot(PoolStateSlot(id), TICKS_OFFSET) = [hashed |-> PoolRoot(id), plus |-> 4]
  BY <1>1, <1>2, <1>4 DEF LIQUIDITY_OFFSET, TICKS_OFFSET
<1>7. \A tick : TickInfoSlot(PoolStateSlot(id), tick) = Keccak(tick, StateAt(id, "ticks"))
  BY <1>5, <1>6 DEF TickInfoSlot
<1> QED  BY <1>1, <1>5, <1>6, <1>7

LEMMA RootsDiffer ==
  ASSUME NEW id, NEW other
  PROVE  /\ PoolRoot(id) = PoolRoot(other) => id = other
         /\ \A m, n : [hashed |-> PoolRoot(id), plus |-> m] = [hashed |-> PoolRoot(other), plus |-> n]
                        => id = other /\ m = n
<1>1. PoolRoot(id) = PoolRoot(other) => id = other
  BY DEF PoolRoot
<1>2. \A m, n : [hashed |-> PoolRoot(id), plus |-> m] = [hashed |-> PoolRoot(other), plus |-> n]
                  => PoolRoot(id) = PoolRoot(other) /\ m = n
  OBVIOUS
<1> QED  BY <1>1, <1>2

(* A tick's slot is none of a pool's own.                                  *)
LEMMA TickSlotsDiffer ==
  ASSUME NEW id, NEW tick
  PROVE  /\ \A other, n : Keccak(tick, StateAt(id, "ticks")) # [hashed |-> PoolRoot(other), plus |-> n]
         /\ \A other, at : Keccak(at, StateAt(other, "ticks")) = Keccak(tick, StateAt(id, "ticks"))
                             => other = id /\ at = tick
<1>1. \A one, at : Keccak(at, StateAt(one, "ticks")) =
                     [hashed |-> <<at, [hashed |-> PoolRoot(one), plus |-> 4]>>, plus |-> 0]
  BY SlotsAre DEF Keccak
<1>2. ASSUME NEW other, NEW n, Keccak(tick, StateAt(id, "ticks")) = [hashed |-> PoolRoot(other), plus |-> n]
      PROVE  FALSE
  <2>1. <<tick, [hashed |-> PoolRoot(id), plus |-> 4]>> = PoolRoot(other)
    <3>1. [hashed |-> <<tick, [hashed |-> PoolRoot(id), plus |-> 4]>>, plus |-> 0].hashed
            = [hashed |-> PoolRoot(other), plus |-> n].hashed
      BY <1>1, <1>2
    <3> QED  BY <3>1
  <2>2. [hashed |-> PoolRoot(id), plus |-> 4] = [hashed |-> <<>>, plus |-> 6]
    BY <2>1 DEF PoolRoot
  <2>3. [hashed |-> PoolRoot(id), plus |-> 4].plus = [hashed |-> <<>>, plus |-> 6].plus
    BY <2>2
  <2> QED  BY <2>3
<1>3. ASSUME NEW other, NEW at, Keccak(at, StateAt(other, "ticks")) = Keccak(tick, StateAt(id, "ticks"))
      PROVE  other = id /\ at = tick
  <2>1. <<at, [hashed |-> PoolRoot(other), plus |-> 4]>> = <<tick, [hashed |-> PoolRoot(id), plus |-> 4]>>
    <3>1. [hashed |-> <<at, [hashed |-> PoolRoot(other), plus |-> 4]>>, plus |-> 0].hashed
            = [hashed |-> <<tick, [hashed |-> PoolRoot(id), plus |-> 4]>>, plus |-> 0].hashed
      BY <1>1, <1>3
    <3> QED  BY <3>1
  <2>2. at = tick /\ [hashed |-> PoolRoot(other), plus |-> 4] = [hashed |-> PoolRoot(id), plus |-> 4]
    BY <2>1
  <2> QED  BY <2>2, RootsDiffer
<1> QED  BY <1>2, <1>3

-----------------------------------------------------------------------------
(* What is read there. *)

LEMMA ReadsSlot0 ==
  ASSUME NEW manager, NEW id \in DOMAIN manager
  PROVE  Word(manager, PoolStateSlot(id)) = Slot0Word(manager[id])
<1>1. \A other : PoolStateSlot(id) = StateAt(other, "slot0") <=> other = id
  BY SlotsAre, RootsDiffer
<1>2. (CHOOSE other \in DOMAIN manager : PoolStateSlot(id) = StateAt(other, "slot0")) = id
  BY <1>1
<1> QED  BY <1>1, <1>2 DEF Word

LEMMA ReadsLiquidity ==
  ASSUME NEW manager, NEW id \in DOMAIN manager
  PROVE  Word(manager, OffsetSlot(PoolStateSlot(id), LIQUIDITY_OFFSET)) = manager[id].liquidity
<1> DEFINE slot == OffsetSlot(PoolStateSlot(id), LIQUIDITY_OFFSET)
<1>1. \A other : slot = StateAt(other, "liquidity") <=> other = id
  BY SlotsAre, RootsDiffer
<1>2. \A other : slot # StateAt(other, "slot0")
  <2>1. 3 # 0
    OBVIOUS
  <2> QED  BY <2>1, SlotsAre, RootsDiffer
<1> HIDE DEF slot
<1>3. (CHOOSE other \in DOMAIN manager : slot = StateAt(other, "liquidity")) = id
  BY <1>1
<1>4. Word(manager, slot) = manager[id].liquidity
  BY <1>1, <1>2, <1>3 DEF Word
<1> QED  BY <1>4 DEF slot

LEMMA ReadsTick ==
  ASSUME NEW manager, NEW id \in DOMAIN manager, NEW tick
  PROVE  Word(manager, TickInfoSlot(PoolStateSlot(id), tick)) =
           IF tick \in DOMAIN manager[id].ticks THEN TickWord(manager[id].ticks[tick]) ELSE 0
<1> DEFINE slot == TickInfoSlot(PoolStateSlot(id), tick)
<1>1. \A other, at : slot = Keccak(at, StateAt(other, "ticks")) <=> other = id /\ at = tick
  BY SlotsAre, TickSlotsDiffer
<1>2. \A other : slot # StateAt(other, "slot0") /\ slot # StateAt(other, "liquidity")
  BY SlotsAre, TickSlotsDiffer
<1> HIDE DEF slot
<1>3. CASE tick \in DOMAIN manager[id].ticks
  <2> DEFINE owner == CHOOSE one \in DOMAIN manager :
                         \E at \in DOMAIN manager[one].ticks : slot = Keccak(at, StateAt(one, "ticks"))
  <2>1. owner = id
    BY <1>1, <1>3
  <2>2. (CHOOSE at \in DOMAIN manager[id].ticks : slot = Keccak(at, StateAt(id, "ticks"))) = tick
    BY <1>1, <1>3
  <2>3. \E one \in DOMAIN manager : \E at \in DOMAIN manager[one].ticks :
          slot = Keccak(at, StateAt(one, "ticks"))
    BY <1>1, <1>3
  <2>4. Word(manager, slot) =
          TickWord(manager[owner].ticks[CHOOSE at \in DOMAIN manager[owner].ticks :
                                          slot = Keccak(at, StateAt(owner, "ticks"))])
    BY <1>2, <2>3 DEF Word
  <2> HIDE DEF owner
  <2>5. Word(manager, slot) = TickWord(manager[id].ticks[tick])
    BY <2>1, <2>2, <2>4
  <2> QED  BY <1>3, <2>5 DEF slot
<1>4. CASE tick \notin DOMAIN manager[id].ticks
  <2>1. Word(manager, slot) = 0
    BY <1>1, <1>2, <1>4 DEF Word
  <2> QED  BY <1>4, <2>1 DEF slot
<1> QED  BY <1>3, <1>4

(* The window around the tick holds every usable tick that is near.        *)
LEMMA TowardsZeroIs ==
  ASSUME NEW tick \in Int, NEW s \in Nat \ {0}
  PROVE  /\ TowardsZero(tick, s) \in Int
         /\ tick - s * TowardsZero(tick, s) \in -(s - 1)..s - 1
<1>1. CASE tick < 0
  <2>1. /\ -tick \in Int /\ (-tick) \div s \in Int /\ (-tick) % s \in 0..s - 1
        /\ -tick = s * ((-tick) \div s) + ((-tick) % s)
    BY <1>1
  <2>2. PICK q \in Int, r \in 0..s - 1 : q = (-tick) \div s /\ -tick = s * q + r
    BY <2>1
  <2>3. TowardsZero(tick, s) = -q
    BY <1>1, <2>2 DEF TowardsZero
  <2>4. s * (-q) = -(s * q) /\ s * q \in Int
    BY <2>2
  <2>5. tick - s * (-q) = -r
    BY <2>2, <2>4
  <2> QED  BY <2>2, <2>3, <2>5
<1>2. CASE ~(tick < 0)
  <2>1. /\ tick \div s \in Int /\ tick % s \in 0..s - 1
        /\ tick = s * (tick \div s) + (tick % s)
    OBVIOUS
  <2>2. PICK q \in Int, r \in 0..s - 1 : q = tick \div s /\ tick = s * q + r
    BY <2>1
  <2>3. TowardsZero(tick, s) = q
    BY <1>2, <2>2 DEF TowardsZero
  <2>4. tick - s * q = r
    <3>1. s * q \in Int
      BY <2>2
    <3> QED  BY <2>2, <3>1
  <2> QED  BY <2>2, <2>3, <2>4
<1> QED  BY <1>1, <1>2

LEMMA WindowReaches ==
  ASSUME NEW tick \in Int, NEW s \in Nat \ {0}, NEW w \in Nat \ {0}, NEW other \in Int,
         other % s = 0, other \in tick - (w - 1) * s..tick + (w - 1) * s
  PROVE  other \in WindowTicks(tick, s, w)
<1> DEFINE q == TowardsZero(tick, s)  m == other \div s  step == m - q
<1>1. q \in Int /\ tick - s * q \in -(s - 1)..s - 1
  BY TowardsZeroIs
<1>2. m \in Int /\ other = s * m
  <2>1. m \in Int /\ other = s * m + (other % s)
    OBVIOUS
  <2>2. s * m \in Int
    BY <2>1
  <2> QED  BY <2>1, <2>2
<1>3. step \in Int /\ m = q + step
  BY <1>1, <1>2
<1> HIDE DEF q, m, step
<1>4. s * m = s * q + s * step /\ s * q \in Int /\ s * step \in Int /\ (w - 1) * s = s * w - s /\ s * w \in Int
  <2>1. s \in Int /\ w \in Int /\ w - 1 \in Int /\ -1 \in Int
    OBVIOUS
  <2>2. s * m = s * q + s * step /\ s * q \in Int /\ s * step \in Int /\ s * w \in Int
    BY <1>1, <1>3, <2>1, Ring
  <2>3. (w - 1) * s = s * w - s
    OBVIOUS
  <2> QED  BY <2>2, <2>3
<1>5. s * step <= s * w - 1 /\ s * step >= 1 - s * w
  BY <1>1, <1>2, <1>4
<1>6. ~(step >= w) /\ ~(step <= -w)
  <2>1. ASSUME step >= w PROVE FALSE
    <3>1. s * step >= s * w
      BY <1>3, <2>1
    <3> QED  BY <1>4, <1>5, <3>1
  <2>2. ASSUME step <= -w PROVE FALSE
    <3>1. s * step <= s * (-w) /\ s * (-w) = -(s * w)
      BY <1>3, <2>2
    <3> QED  BY <1>4, <1>5, <3>1
  <2> QED  BY <2>1, <2>2
<1>7. step \in -w..w
  BY <1>3, <1>6
<1>8. other = q * s + step * s
  BY <1>1, <1>2, <1>3, <1>4
<1> QED  BY <1>7, <1>8 DEF WindowTicks, q

(* What is left after the protocol and then the liquidity providers.       *)
LEMMA CombinedFeeCompounds ==
  ASSUME NEW protocol \in Nat, NEW lp \in Nat
  PROVE  LET fee == CombinedFee(lp, protocol)
             left == (FEE_UNIT - protocol) * (FEE_UNIT - lp)
         IN  (FEE_UNIT - fee) * FEE_UNIT <= left /\ left < (FEE_UNIT - fee + 1) * FEE_UNIT
<1> DEFINE both == protocol * lp  q == both \div FEE_UNIT  r == both % FEE_UNIT  U == FEE_UNIT
<1>1. U \in Nat \ {0}
  BY BitCounts
<1>2. both \in Nat
  OBVIOUS
<1>3. /\ q \in Int /\ r \in 0..U - 1 /\ both = U * q + r
  <2> HIDE DEF both
  <2> QED  BY <1>1, <1>2
<1>4. CombinedFee(lp, protocol) = protocol + lp - q
  BY DEF CombinedFee
<1>5. (U - protocol) * (U - lp) = U * U - U * protocol - U * lp + both
  BY <1>1
<1> HIDE DEF both, q, r
<1>6. (U - (protocol + lp - q)) * U = U * U - U * protocol - U * lp + U * q
  BY <1>1, <1>3
<1>7. (U - (protocol + lp - q) + 1) * U = U * U - U * protocol - U * lp + U * q + U
  BY <1>1, <1>3
<1>8. /\ U * U \in Int /\ U * protocol \in Int /\ U * lp \in Int /\ U * q \in Int
  BY <1>1, <1>3
<1>9. /\ (U - (protocol + lp - q)) * U <= (U - protocol) * (U - lp)
      /\ (U - protocol) * (U - lp) < (U - (protocol + lp - q) + 1) * U
  <2> DEFINE A == U * U  B == U * protocol  C == U * lp  D == U * q
             x == (U - (protocol + lp - q)) * U  y == (U - protocol) * (U - lp)
             z == (U - (protocol + lp - q) + 1) * U
  <2>1. /\ A \in Int /\ B \in Int /\ C \in Int /\ D \in Int
        /\ x = A - B - C + D /\ y = A - B - C + both /\ z = A - B - C + D + U /\ both = D + r
    BY <1>3, <1>5, <1>6, <1>7, <1>8
  <2> HIDE DEF A, B, C, D, x, y, z, U
  <2>2. x <= y /\ y < z
    BY <1>1, <1>3, <2>1
  <2> QED  BY <2>2 DEF x, y, z
<1> QED  BY <1>4, <1>9

-----------------------------------------------------------------------------
StoredTyped ==
  /\ \A id \in DOMAIN stored.pools : IsPoolState(stored.pools[id])
  /\ stored.spacing \in Nat \ {0} /\ stored.window \in Nat

LEMMA StoredTypedAlways == Spec => []StoredTyped
<1>1. Init => StoredTyped
  BY DEF Init, NothingStored, StoredTyped
<1>2. StoredTyped /\ [Next]_vars => StoredTyped'
  <2> SUFFICES ASSUME StoredTyped, [Next]_vars PROVE StoredTyped'
    OBVIOUS
  <2>1. CASE Store
    <3>1. PICK pools \in Managers, spacing \in Spacings, window \in 0..MaxWindow :
            stored' = [pools |-> pools, spacing |-> spacing, window |-> window]
      BY <2>1 DEF Store
    <3>2. stored'.pools = pools /\ stored'.spacing = spacing /\ stored'.window = window
      BY <3>1
    <3>3. /\ \A id \in DOMAIN pools : IsPoolState(pools[id])
          /\ spacing \in Nat \ {0} /\ window \in Nat
      BY PartsAssumption
    <3> QED  BY <3>2, <3>3 DEF StoredTyped, IsPoolState
  <2>2. CASE UNCHANGED stored
    BY <2>2 DEF StoredTyped, IsPoolState
  <2> QED
    BY <2>1, <2>2 DEF Next, vars, AddHop, DropAsset, Requote, Loosen, Lengthen, Ask,
                      AskConfigured, Price
<1> QED  BY <1>1, <1>2, PTL DEF Spec

LEMMA HalvesOf ==
  ASSUME NEW low \in Unsigned(HalfFeeBits), NEW high \in Unsigned(HalfFeeBits)
  PROVE  /\ (low + 2^HalfFeeBits * high) % 2^HalfFeeBits = low
         /\ (low + 2^HalfFeeBits * high) \div 2^HalfFeeBits = high
         /\ low \in Nat /\ high \in Nat
<1> DEFINE H == 2^HalfFeeBits
<1>1. H \in Nat \ {0} /\ low \in 0..H - 1 /\ high \in 0..H - 1
  BY BitCounts, BitSets DEF Unsigned
<1> HIDE DEF H
<1>2. H * high \in Int
  BY <1>1
<1>3. low + H * high = H * high + low /\ low + H * high \in Int /\ high \in Int
  BY <1>1, <1>2
<1>4. (low + H * high) % H = low /\ (low + H * high) \div H = high
  BY <1>1, <1>3, Quotient
<1> QED  BY <1>1, <1>4 DEF H

(* A V4 pool is read from its own words, whatever the manager stores of it *)
(* and of others, and at any width of the fields.                          *)
THEOREM ReadsItsOwnStorageAlways == Spec => []ReadsItsOwnStorage
<1>1. StoredTyped => ReadsItsOwnStorage
  <2> SUFFICES ASSUME StoredTyped, NEW id \in DOMAIN stored.pools
               PROVE
        LET pool == stored.pools[id]
            window == TickWindow(stored.window)
            read == BuildPool(stored.pools, id, stored.spacing, window)
            Compounds(fee, ofProtocol) ==
              LET left == (FEE_UNIT - ofProtocol) * (FEE_UNIT - pool.lpFee)
              IN  /\ (FEE_UNIT - fee) * FEE_UNIT <= left
                  /\ left < (FEE_UNIT - fee + 1) * FEE_UNIT
            near == { tick \in DOMAIN pool.ticks :
                        /\ pool.ticks[tick].gross # 0 /\ tick % stored.spacing = 0
                        /\ tick \in pool.tick - (window - 1) * stored.spacing
                                    ..pool.tick + (window - 1) * stored.spacing }
        IN  /\ read.price = pool.price /\ read.tick = pool.tick
            /\ read.liquidity = pool.liquidity
            /\ Compounds(read.zeroForOne, pool.fees[1])
            /\ Compounds(read.oneForZero, pool.fees[2])
            /\ near \subseteq DOMAIN read.ticks
            /\ \A tick \in DOMAIN read.ticks :
                 /\ tick \in DOMAIN pool.ticks /\ pool.ticks[tick].gross # 0
                 /\ read.ticks[tick] = pool.ticks[tick].net
    BY DEF ReadsItsOwnStorage
  <2> DEFINE pool == stored.pools[id]  s == stored.spacing  w == TickWindow(stored.window)
             state == DecodeSlot0(Word(stored.pools, PoolStateSlot(id)))
             Info(tick) == DecodeTick(Word(stored.pools, TickInfoSlot(PoolStateSlot(id), tick)))
             read == BuildPool(stored.pools, id, s, w)
  <2>1. IsPoolState(pool) /\ s \in Nat \ {0} /\ w \in Nat \ {0}
    BY DEF StoredTyped, TickWindow
  <2>2. state = [ price |-> pool.price, tick |-> pool.tick,
                  protocolFee |-> pool.fees[1] + 2^HalfFeeBits * pool.fees[2],
                  lpFee |-> pool.lpFee ]
    BY <2>1, Slot0Is, ReadsSlot0
  <2>3. DecodeLiquidity(Word(stored.pools, OffsetSlot(PoolStateSlot(id), LIQUIDITY_OFFSET)))
          = pool.liquidity
    BY <2>1, ReadsLiquidity, LiquidityIs DEF IsPoolState
  <2>4. \A tick : IF tick \in DOMAIN pool.ticks
                  THEN Info(tick) = [gross |-> pool.ticks[tick].gross, net |-> pool.ticks[tick].net]
                  ELSE Info(tick).gross = 0
    <3> SUFFICES ASSUME NEW tick
                 PROVE IF tick \in DOMAIN pool.ticks
                  THEN Info(tick) = [gross |-> pool.ticks[tick].gross, net |-> pool.ticks[tick].net]
                  ELSE Info(tick).gross = 0
      OBVIOUS
    <3>1. CASE tick \in DOMAIN pool.ticks
      <4>1. /\ pool.ticks[tick].gross \in Unsigned(LiquidityBits)
            /\ pool.ticks[tick].net \in Signed(LiquidityBits)
        BY <2>1, <3>1 DEF IsPoolState
      <4>2. Info(tick) = DecodeTick(TickWord(pool.ticks[tick]))
        BY <3>1, ReadsTick
      <4> HIDE DEF Info, pool
      <4> QED  BY <3>1, <4>1, <4>2, TickWordIs
    <3>2. CASE tick \notin DOMAIN pool.ticks
      BY <3>2, ReadsTick, NothingDecoded
    <3> QED  BY <3>1, <3>2
  <2>5. /\ read.price = state.price /\ read.tick = state.tick /\ read.liquidity = pool.liquidity
        /\ read.zeroForOne = CombinedFee(state.lpFee, state.protocolFee % 2^HalfFeeBits)
        /\ read.oneForZero = CombinedFee(state.lpFee, state.protocolFee \div 2^HalfFeeBits)
    BY <2>3 DEF BuildPool
  <2>6. /\ DOMAIN read.ticks = {t \in WindowTicks(state.tick, s, w) : Info(t).gross # 0}
        /\ \A t \in DOMAIN read.ticks : read.ticks[t] = Info(t).net
    BY DEF BuildPool
  <2>7. /\ pool.fees[1] \in Unsigned(HalfFeeBits) /\ pool.fees[2] \in Unsigned(HalfFeeBits)
        /\ pool.lpFee \in Nat /\ pool.tick \in Int /\ DOMAIN pool.ticks \subseteq Int
    <3>1. pool.lpFee \in Unsigned(FeeBits) /\ Unsigned(FeeBits) \subseteq Nat
      BY <2>1 DEF IsPoolState, Unsigned
    <3>2. pool.tick \in Signed(TickBits) /\ Signed(TickBits) \subseteq Int
      BY <2>1 DEF IsPoolState, Signed
    <3> QED  BY <2>1, <3>1, <3>2 DEF IsPoolState
  <2> HIDE DEF pool, s, w, state, Info, read
  <2>8. /\ read.zeroForOne = CombinedFee(pool.lpFee, pool.fees[1])
        /\ read.oneForZero = CombinedFee(pool.lpFee, pool.fees[2])
        /\ pool.fees[1] \in Nat /\ pool.fees[2] \in Nat
    BY <2>2, <2>5, <2>7, HalvesOf
  <2>9. ASSUME NEW tick \in DOMAIN pool.ticks, pool.ticks[tick].gross # 0, tick % s = 0,
               tick \in pool.tick - (w - 1) * s..pool.tick + (w - 1) * s
        PROVE  tick \in DOMAIN read.ticks
    <3>1. tick \in WindowTicks(pool.tick, s, w)
      BY <2>1, <2>7, <2>9, WindowReaches
    <3>2. Info(tick).gross # 0 /\ state.tick = pool.tick
      BY <2>2, <2>4, <2>9
    <3> QED  BY <2>6, <3>1, <3>2
  <2>10. ASSUME NEW tick \in DOMAIN read.ticks
         PROVE  /\ tick \in DOMAIN pool.ticks /\ pool.ticks[tick].gross # 0
                /\ read.ticks[tick] = pool.ticks[tick].net
    BY <2>4, <2>6
  <2>11. /\ (FEE_UNIT - read.zeroForOne) * FEE_UNIT <= (FEE_UNIT - pool.fees[1]) * (FEE_UNIT - pool.lpFee)
         /\ (FEE_UNIT - pool.fees[1]) * (FEE_UNIT - pool.lpFee) < (FEE_UNIT - read.zeroForOne + 1) * FEE_UNIT
    BY <2>7, <2>8, CombinedFeeCompounds
  <2>12. /\ (FEE_UNIT - read.oneForZero) * FEE_UNIT <= (FEE_UNIT - pool.fees[2]) * (FEE_UNIT - pool.lpFee)
         /\ (FEE_UNIT - pool.fees[2]) * (FEE_UNIT - pool.lpFee) < (FEE_UNIT - read.oneForZero + 1) * FEE_UNIT
    BY <2>7, <2>8, CombinedFeeCompounds
  <2>13. read.price = pool.price /\ read.tick = pool.tick /\ read.liquidity = pool.liquidity
    BY <2>2, <2>5
  <2> QED  BY <2>9, <2>10, <2>11, <2>12, <2>13 DEF pool, s, w, read
<1> QED  BY <1>1, StoredTypedAlways, PTL
=============================================================================
