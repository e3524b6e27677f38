------------------------------- MODULE Routing ------------------------------
(***************************************************************************)
(* The routing layer of amm-rpc: the structural validation of a route and  *)
(* its partition into maximal runs of pools that settle through one        *)
(* on-chain router, each run becoming one transaction.                     *)
(*                                                                         *)
(* A route has n pools, 1..n, and n + 1 boundaries, 0..n: boundary i lies  *)
(* between pool i and pool i + 1, and path[i + 1] is the asset that        *)
(* crosses it.  A span covers the pools start + 1 .. end, so it leads from *)
(* boundary start to boundary end (the code's half-open range start..end). *)
(***************************************************************************)
EXTENDS Naturals, Sequences

CONSTANTS
  Pool,            \* the pools a caller may route through
  Asset,           \* the assets they trade
  KindOf,          \* the PoolKind each pool reports, "Unknown" if it has
                   \* no Introspect or reports a kind without a router
  AssetsOf,        \* the assets each pool trades
  CURVE_MAX_HOPS   \* how many pools one Curve router call can chain

PoolKind == {"UniswapV2", "UniswapV3", "UniswapV4", "CurveStable",
             "CurveCrypto", "AerodromeVolatile", "AerodromeStable",
             "Slipstream"}
RouterKind == {"UniswapUniversal", "Curve", "Aerodrome", "Slipstream"}

ASSUME RoutingAssumption ==
  /\ KindOf \in [Pool -> PoolKind \cup {"Unknown"}]
  /\ AssetsOf \in [Pool -> SUBSET Asset]
  /\ CURVE_MAX_HOPS \in Nat \ {0}

(* The router a pool settles through; "None" for an unclassifiable pool.   *)
RouterKindOf(pool) ==
  CASE KindOf[pool] \in {"UniswapV2", "UniswapV3", "UniswapV4"} -> "UniswapUniversal"
    [] KindOf[pool] \in {"CurveStable", "CurveCrypto"} -> "Curve"
    [] KindOf[pool] \in {"AerodromeVolatile", "AerodromeStable"} -> "Aerodrome"
    [] KindOf[pool] = "Slipstream" -> "Slipstream"
    [] OTHER -> "None"

(* Pool i trades the two distinct path assets it stands between.           *)
HopJoined(route, i) ==
  /\ route.path[i] # route.path[i + 1]
  /\ {route.path[i], route.path[i + 1]} \subseteq AssetsOf[route.pools[i]]

(* Route::validate: "Ok" or the error it returns.                          *)
Validate(route) ==
  CASE route.pools = <<>> -> "EmptyRoute"
    [] /\ route.pools # <<>>
       /\ Len(route.path) # Len(route.pools) + 1 -> "DisjointRoute"
    [] OTHER ->
       IF \A i \in 1..Len(route.pools) : HopJoined(route, i)
       THEN "Ok" ELSE "DisjointRoute"

-----------------------------------------------------------------------------
SpanLen(span) == span.end - span.start

\* Mutants of Extends: no cap at all; the cap applied to every router.
ExtendsUncapped(span, kind) == span.kind = kind
ExtendsCappingAll(span, kind) ==
  span.kind = kind /\ SpanLen(span) < CURVE_MAX_HOPS

(* A pool of this router joins the last span: same router, and not a Curve *)
(* span that is already full.                                              *)
Extends(span, kind) ==
  /\ span.kind = kind
  /\ ~(kind = "Curve" /\ SpanLen(span) >= CURVE_MAX_HOPS)

Grown(span, end) == [kind |-> span.kind, start |-> span.start, end |-> end]

(* One turn of partition's loop: the pool after boundary i.                *)
AddPool(spans, kind, i) ==
  IF spans # <<>> /\ Extends(spans[Len(spans)], kind)
  THEN [spans EXCEPT ![Len(spans)] = Grown(@, i + 1)]
  ELSE Append(spans, [kind |-> kind, start |-> i, end |-> i + 1])

(* The spans after each number of pools. *)
SpanScan(pools) ==
  LET scan[i \in 0..Len(pools)] ==
        IF i = 0 THEN <<>>
        ELSE AddPool(scan[i - 1], RouterKindOf(pools[i]), i - 1)
  IN  scan

Classifiable(pools) == \A i \in 1..Len(pools) : RouterKindOf(pools[i]) # "None"

(* partition of a route whose pools are all Classifiable; the code returns *)
(* UnsupportedProtocol for any other.                                      *)
Partition(pools) == SpanScan(pools)[Len(pools)]

-----------------------------------------------------------------------------
(* What the partition promises (router_span.rs, doc of partition).         *)

(* Total, ordered, gap-free, no span empty.                                *)
GapFree(spans, n) ==
  /\ spans # <<>> => spans[1].start = 0 /\ spans[Len(spans)].end = n
  /\ spans = <<>> => n = 0
  /\ \A k \in 1..Len(spans) : spans[k].start < spans[k].end /\ spans[k].end <= n
  /\ \A k \in 1..Len(spans) - 1 : spans[k].end = spans[k + 1].start

(* Every pool of a span settles through the span's router.                 *)
OneRouterPerSpan(pools, spans) ==
  \A k \in 1..Len(spans) : \A i \in spans[k].start + 1 .. spans[k].end :
    RouterKindOf(pools[i]) = spans[k].kind

(* No Curve span exceeds what one router call can chain.                   *)
CurveCapped(spans) ==
  \A k \in 1..Len(spans) :
    spans[k].kind = "Curve" => SpanLen(spans[k]) <= CURVE_MAX_HOPS

(* No two neighbours could have been one transaction: they differ in       *)
(* router, or the first is a full Curve span.                              *)
Maximal(spans) ==
  \A k \in 1..Len(spans) - 1 :
    \/ spans[k].kind # spans[k + 1].kind
    \/ spans[k].kind = "Curve" /\ SpanLen(spans[k]) = CURVE_MAX_HOPS

IsPartition(pools, spans, n) ==
  /\ GapFree(spans, n)
  /\ OneRouterPerSpan(pools, spans)
  /\ CurveCapped(spans)
  /\ Maximal(spans)
=============================================================================
