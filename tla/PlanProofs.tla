----------------------------- MODULE PlanProofs -----------------------------
(***************************************************************************)
(* The type invariant and the custody of the funds a plan moves, for every *)
(* route, quote, tolerance, price and surplus: what a driven plan holds    *)
(* and delivers, what a careless caller cannot break, and the refinement   *)
(* of SwapPromise.                                                         *)
(***************************************************************************)
EXTENDS PlanProperties, RouteProofs, SequenceTheorems

-----------------------------------------------------------------------------
(* Quoting: the multi-hop quotes are well defined: an amount, or nothing,  *)
(* at every boundary of the route.                                         *)

MaybeAmount == Amount \cup {None}

(* Some pools and assets of a route, in step with each other.              *)
Hops(route) ==
  /\ route.pools \in Seq(Pool) /\ route.path \in Seq(Asset)
  /\ Len(route.path) = Len(route.pools) + 1

(* quote_path_amounts starts at the input and quotes forward.              *)
LEMMA QuotePathAmountsType ==
  ASSUME NEW route, Hops(route), NEW start \in MaybeAmount
  PROVE  /\ QuotePathAmounts(route, start) \in [0..Len(route.pools) -> MaybeAmount]
         /\ QuotePathAmounts(route, start)[0] = start
         /\ \A i \in 1..Len(route.pools) :
              QuotePathAmounts(route, start)[i - 1] # None =>
                QuotePathAmounts(route, start)[i] =
                  Quote(route.pools[i], route.path[i], route.path[i + 1],
                        QuotePathAmounts(route, start)[i - 1])
<1> DEFINE n == Len(route.pools)
           Through(x, i) == IF x = None THEN None
                            ELSE Quote(route.pools[i], route.path[i],
                                       route.path[i + 1], x)
           Is(f) == f = [i \in 0..n |-> IF i = 0 THEN start
                          ELSE IF f[i - 1] = None THEN None
                          ELSE Quote(route.pools[i], route.path[i],
                                     route.path[i + 1], f[i - 1])]
           step == [i \in 1..n |-> [x \in MaybeAmount |-> Through(x, i)]]
<1>0. n \in Nat  BY DEF Hops
<1>1. \A i \in 1..n, x \in MaybeAmount : Through(x, i) \in MaybeAmount
  <2> SUFFICES ASSUME NEW i \in 1..n, NEW x \in Amount
               PROVE Quote(route.pools[i], route.path[i], route.path[i + 1], x)
                       \in MaybeAmount
    BY DEF MaybeAmount
  <2>1. route.pools[i] \in Pool /\ route.path[i] \in Asset /\ route.path[i + 1] \in Asset
    BY <1>0 DEF Hops
  <2> QED  BY <2>1, QuotingAssumption DEF MaybeAmount
<1>2. step \in [1..n -> [MaybeAmount -> MaybeAmount]]  BY <1>1
<1>3. PICK g : Climbs(g, n, MaybeAmount, start, step)
  <2> HIDE DEF step, n
  <2> QED  BY <1>0, <1>2, RecursionUp
<1>4. \E f : Is(f)
  <2>1. \A i \in 1..n : i - 1 \in 0..n /\ g[i - 1] \in MaybeAmount /\ g[i] = Through(g[i - 1], i)
    <3> SUFFICES ASSUME NEW i \in 1..n
                 PROVE /\ i - 1 \in 0..n /\ g[i - 1] \in MaybeAmount
                       /\ g[i] = Through(g[i - 1], i)
      OBVIOUS
    <3>1. i - 1 \in 0..n  BY <1>0
    <3>2. g[i - 1] \in MaybeAmount /\ g[i] = step[i][g[i - 1]]
      BY <1>3, <3>1 DEF Climbs
    <3>3. \A x \in MaybeAmount : step[i][x] = Through(x, i)  OBVIOUS
    <3> HIDE DEF step, Through
    <3> QED  BY <3>1, <3>2, <3>3
  <2>2. \A i \in 0..n : g[i] = IF i = 0 THEN start ELSE Through(g[i - 1], i)
    BY <1>0, <1>3, <2>1 DEF Climbs
  <2>3. g = [i \in 0..n |-> g[i]]  BY <1>3 DEF Climbs
  <2>4. Is(g)  BY <2>2, <2>3
  <2> HIDE DEF Is
  <2> QED  BY <2>4
<1> DEFINE f == CHOOSE f : Is(f)
<1>5. Is(f)  BY <1>4
<1>6. f = QuotePathAmounts(route, start)  BY DEF QuotePathAmounts
<1> HIDE DEF f
<1>7. f[0] = start /\ \A i \in 0..n - 1 : f[i + 1] = Through(f[i], i + 1)
  <2>1. f[0] = start  BY <1>0, <1>5
  <2>2. \A i \in 0..n - 1 : i + 1 \in 0..n /\ i + 1 # 0 /\ (i + 1) - 1 = i
    BY <1>0
  <2> QED  BY <1>5, <2>1, <2>2
<1> DEFINE S == {i \in 0..n : f[i] \in MaybeAmount}
<1>8. 0..n \subseteq S
  <2>1. 0 \in S  BY <1>0, <1>7
  <2>2. \A i \in 0..n - 1 : i \in S => i + 1 \in S
    BY <1>0, <1>1, <1>7
  <2> HIDE DEF S, n
  <2> QED  BY <1>0, <2>1, <2>2, BoundedInduction
<1>9. f \in [0..n -> MaybeAmount]  BY <1>5, <1>8
<1>10. ASSUME NEW i \in 1..n, f[i - 1] # None
       PROVE  f[i] = Quote(route.pools[i], route.path[i], route.path[i + 1], f[i - 1])
  <2>1. i - 1 \in 0..n - 1 /\ (i - 1) + 1 = i  BY <1>0
  <2>2. f[i] = Through(f[i - 1], i)  BY <1>7, <2>1
  <2> QED  BY <1>10, <2>2
<1> QED  BY <1>6, <1>7, <1>9, <1>10

(* quote_path_exact_out ends at the target and quotes backward.            *)
LEMMA QuotePathExactOutType ==
  ASSUME NEW route, Hops(route), NEW target \in MaybeAmount
  PROVE  /\ QuotePathExactOut(route, target) \in [0..Len(route.pools) -> MaybeAmount]
         /\ QuotePathExactOut(route, target)[Len(route.pools)] = target
         /\ \A i \in 1..Len(route.pools) :
              QuotePathExactOut(route, target)[i - 1] # None =>
                /\ route.pools[i] \in HasExactOut
                /\ QuotePathExactOut(route, target)[i] # None
                /\ QuotePathExactOut(route, target)[i - 1] =
                     QuoteExactOut(route.pools[i], route.path[i], route.path[i + 1],
                                   QuotePathExactOut(route, target)[i])
<1> DEFINE n == Len(route.pools)
           Before(x, i) == IF x = None \/ route.pools[i + 1] \notin HasExactOut
                           THEN None
                           ELSE QuoteExactOut(route.pools[i + 1], route.path[i + 1],
                                              route.path[i + 2], x)
           Is(f) == f = [i \in 0..n |-> IF i = n THEN target
                          ELSE IF f[i + 1] = None \/ route.pools[i + 1] \notin HasExactOut
                            THEN None
                          ELSE QuoteExactOut(route.pools[i + 1], route.path[i + 1],
                                             route.path[i + 2], f[i + 1])]
           step == [i \in 0..n - 1 |-> [x \in MaybeAmount |-> Before(x, i)]]
<1>0. n \in Nat  BY DEF Hops
<1>1. \A i \in 0..n - 1, x \in MaybeAmount : Before(x, i) \in MaybeAmount
  <2> SUFFICES ASSUME NEW i \in 0..n - 1, NEW x \in Amount
               PROVE QuoteExactOut(route.pools[i + 1], route.path[i + 1],
                                   route.path[i + 2], x) \in MaybeAmount
    BY DEF MaybeAmount
  <2>1. i + 1 \in 1..n /\ i + 1 \in 1..n + 1 /\ i + 2 \in 1..n + 1  BY <1>0
  <2>2. /\ route.pools[i + 1] \in Pool
        /\ route.path[i + 1] \in Asset /\ route.path[i + 2] \in Asset
    BY <2>1 DEF Hops
  <2> QED  BY <2>2, QuotingAssumption DEF MaybeAmount
<1>2. step \in [0..n - 1 -> [MaybeAmount -> MaybeAmount]]  BY <1>1
<1>3. PICK g : Descends(g, n, MaybeAmount, target, step)
  <2> HIDE DEF step, n
  <2> QED  BY <1>0, <1>2, RecursionDown
<1>4. \E f : Is(f)
  <2>1. \A i \in 0..n - 1 : g[i] = Before(g[i + 1], i)
    <3> SUFFICES ASSUME NEW i \in 0..n - 1 PROVE g[i] = Before(g[i + 1], i)
      OBVIOUS
    <3>1. i + 1 \in 0..n  BY <1>0
    <3>2. g[i + 1] \in MaybeAmount /\ g[i] = step[i][g[i + 1]]
      BY <1>3, <3>1 DEF Descends
    <3>3. \A x \in MaybeAmount : step[i][x] = Before(x, i)  OBVIOUS
    <3> HIDE DEF step, Before
    <3> QED  BY <3>2, <3>3
  <2>2. \A i \in 0..n : g[i] = IF i = n THEN target ELSE Before(g[i + 1], i)
    BY <1>0, <1>3, <2>1 DEF Descends
  <2>3. g = [i \in 0..n |-> g[i]]  BY <1>3 DEF Descends
  <2>4. Is(g)  BY <2>2, <2>3
  <2> HIDE DEF Is
  <2> QED  BY <2>4
<1> DEFINE f == CHOOSE f : Is(f)
<1>5. Is(f)  BY <1>4
<1>6. f = QuotePathExactOut(route, target)  BY DEF QuotePathExactOut
<1> HIDE DEF f
<1>7. f[n] = target /\ \A i \in 0..n - 1 : f[i] = Before(f[i + 1], i)
  BY <1>0, <1>5
<1> DEFINE S == {i \in 0..n : f[n - i] \in MaybeAmount}
<1>8. 0..n \subseteq S
  <2>1. 0 \in S
    <3>1. n - 0 = n  BY <1>0
    <3> QED  BY <1>0, <1>7, <3>1
  <2>2. ASSUME NEW i \in 0..n - 1, i \in S PROVE i + 1 \in S
    <3> DEFINE j == n - (i + 1)
    <3>1. j \in 0..n - 1 /\ j + 1 = n - i /\ i + 1 \in 0..n  BY <1>0
    <3> HIDE DEF j
    <3>2. f[j + 1] \in MaybeAmount  BY <2>2, <3>1
    <3>3. f[j] = Before(f[j + 1], j)  BY <1>7, <3>1
    <3>4. f[j] \in MaybeAmount
      <4> HIDE DEF Before
      <4> QED  BY <1>1, <3>1, <3>2, <3>3
    <3> QED  BY <3>1, <3>4 DEF j
  <2> HIDE DEF S, n
  <2> QED  BY <1>0, <2>1, <2>2, BoundedInduction
<1>9. \A i \in 0..n : f[i] \in MaybeAmount
  <2> SUFFICES ASSUME NEW i \in 0..n PROVE f[i] \in MaybeAmount
    OBVIOUS
  <2>1. n - i \in 0..n /\ n - (n - i) = i  BY <1>0
  <2> QED  BY <1>8, <2>1
<1>10. f \in [0..n -> MaybeAmount]  BY <1>5, <1>9
<1>11. ASSUME NEW i \in 1..n, f[i - 1] # None
       PROVE  /\ route.pools[i] \in HasExactOut /\ f[i] # None
              /\ f[i - 1] = QuoteExactOut(route.pools[i], route.path[i],
                                          route.path[i + 1], f[i])
  <2>1. i - 1 \in 0..n - 1 /\ (i - 1) + 1 = i /\ (i - 1) + 2 = i + 1  BY <1>0
  <2>2. f[i - 1] = Before(f[i], i - 1)  BY <1>7, <2>1
  <2> QED  BY <1>11, <2>1, <2>2
<1> QED  BY <1>6, <1>7, <1>10, <1>11

-----------------------------------------------------------------------------
LEMMA VerdictsAreVerdicts ==
  ASSUME NEW condition, NEW error \in Verdict
  PROVE  Reject(condition, error) \in Verdict
BY DEF Reject, Verdict

(* FirstError returns one of the verdicts, and "Ok" only if all are "Ok".  *)
LEMMA FirstErrorIs ==
  ASSUME NEW verdicts \in Seq(Verdict)
  PROVE  /\ FirstError(verdicts) \in Verdict
         /\ FirstError(verdicts) = "Ok" =>
              \A i \in 1..Len(verdicts) : verdicts[i] = "Ok"
<1> DEFINE failed == {i \in 1..Len(verdicts) : verdicts[i] # "Ok"}
<1>1. CASE failed = {}
  BY <1>1 DEF FirstError, Verdict
<1>2. CASE failed # {}
  <2>1. failed \in SUBSET Nat  OBVIOUS
  <2>2. \E i \in failed : \A j \in failed : i <= j
    BY <1>2, <2>1, LeastElement
  <2> DEFINE first == CHOOSE i \in failed : \A j \in failed : i <= j
  <2>3. first \in failed  BY <2>2
  <2>4. FirstError(verdicts) = verdicts[first]  BY <1>2 DEF FirstError
  <2>5. verdicts[first] \in Verdict /\ verdicts[first] # "Ok"  BY <2>3
  <2> QED  BY <2>4, <2>5
<1> QED  BY <1>1, <1>2

(* What validate() has established of a route it accepts.                  *)
LEMMA ValidRoute ==
  ASSUME NEW req \in Request, Validate(req) = "Ok"
  PROVE  Hops(req) /\ Len(req.pools) \in Nat \ {0}
<1>1. req.pools \in Seq(Pool) /\ req.path \in Seq(Asset)  BY DEF Request
<1>2. req.pools # <<>>
  <2> SUFFICES ASSUME req.pools = <<>> PROVE FALSE
    OBVIOUS
  <2>1. Validate(req) = "EmptyRoute"  BY DEF Validate
  <2> QED  BY <2>1
<1>3. Len(req.path) = Len(req.pools) + 1
  <2> SUFFICES ASSUME Len(req.path) # Len(req.pools) + 1 PROVE FALSE
    OBVIOUS
  <2>1. Validate(req) = "DisjointRoute"  BY <1>2 DEF Validate
  <2> QED  BY <2>1
<1> QED  BY <1>1, <1>2, <1>3 DEF Hops

(* What plan() has established of a request it accepts.                    *)
LEMMA AcceptedRequest ==
  ASSUME NEW req \in Request, PlanVerdict(req) = "Ok"
  PROVE  /\ Validate(req) = "Ok"
         /\ Classifiable(req.pools)
         /\ QuoteVerdict(req) = "Ok"
         /\ StrictVerdict(req) = "Ok"
<1>1. Validate(req) = "Ok" /\ Classifiable(req.pools)
  BY DEF PlanVerdict, Verdict
<1> DEFINE checks == << QuoteVerdict(req), StrictVerdict(req),
                        Reject(~req.absolute, "UnresolvedDeadline") >>
<1>2. FirstError(checks) = "Ok"  BY <1>1 DEF PlanVerdict
<1>3. QuoteVerdict(req) \in Verdict
  BY DEF QuoteVerdict, ExactOutError, Reject, Verdict, BuildError
<1>4. checks \in Seq(Verdict)
  <2>1. StrictVerdict(req) \in Verdict
    BY DEF StrictVerdict, Reject, Verdict, BuildError
  <2>2. Reject(~req.absolute, "UnresolvedDeadline") \in Verdict
    BY DEF Reject, Verdict, BuildError
  <2> QED  BY <1>3, <2>1, <2>2
<1>5. Len(checks) = 3 /\ checks[1] = QuoteVerdict(req)
      /\ checks[2] = StrictVerdict(req)
  OBVIOUS
<1> HIDE DEF checks
<1>6. \A i \in 1..3 : checks[i] = "Ok"  BY <1>2, <1>4, <1>5, FirstErrorIs
<1> QED  BY <1>1, <1>5, <1>6

LEMMA PlanVerdictType ==
  ASSUME NEW req \in Request PROVE PlanVerdict(req) \in Verdict
<1>1. Validate(req) \in Verdict
  <2>1. CASE req.pools = <<>>
    BY <2>1 DEF Validate, Verdict, BuildError
  <2>2. CASE req.pools # <<>> /\ Len(req.path) # Len(req.pools) + 1
    BY <2>2 DEF Validate, Verdict, BuildError
  <2>3. CASE req.pools # <<>> /\ Len(req.path) = Len(req.pools) + 1
    <3>1. Validate(req) = IF \A i \in 1..Len(req.pools) : HopJoined(req, i)
                          THEN "Ok" ELSE "DisjointRoute"
      BY <2>3 DEF Validate
    <3> QED  BY <3>1 DEF Verdict, BuildError
  <2> QED  BY <2>1, <2>2, <2>3
<1> DEFINE checks == << QuoteVerdict(req), StrictVerdict(req),
                        Reject(~req.absolute, "UnresolvedDeadline") >>
<1>2. checks \in Seq(Verdict)
  <2>1. QuoteVerdict(req) \in Verdict
    BY DEF QuoteVerdict, ExactOutError, Reject, Verdict, BuildError
  <2>2. StrictVerdict(req) \in Verdict
    BY DEF StrictVerdict, Reject, Verdict, BuildError
  <2>3. Reject(~req.absolute, "UnresolvedDeadline") \in Verdict
    BY DEF Reject, Verdict, BuildError
  <2> QED  BY <2>1, <2>2, <2>3
<1>3. FirstError(checks) \in Verdict
  <2> HIDE DEF checks
  <2> QED  BY <1>2, FirstErrorIs
<1>4. "UnsupportedProtocol" \in Verdict  BY DEF Verdict, BuildError
<1> QED  BY <1>1, <1>3, <1>4 DEF PlanVerdict

(* The plan of an accepted request: an amount at every boundary, a         *)
(* partition of the route, and one span with a ceiling if it is strict.    *)
LEMMA PlanOfType ==
  ASSUME NEW req \in Request, PlanVerdict(req) = "Ok"
  PROVE  /\ PlanOf(req).spans \in Seq(Span)
         /\ IsPartition(req.pools, PlanOf(req).spans, Len(req.pools))
         /\ PlanOf(req).amounts \in [0..Len(req.pools) -> Amount]
         /\ PlanOf(req).strict = IsStrict(req)
         /\ PlanOf(req).floor \in Amount \cup {None}
         /\ IF IsStrict(req)
              THEN PlanOf(req).maxIn \in Amount /\ Len(PlanOf(req).spans) = 1
              ELSE PlanOf(req).maxIn = None
<1> DEFINE n == Len(req.pools)
           p == PlanOf(req)
           required == QuotePathExactOut(req, req.amount)
<1>1. /\ Hops(req) /\ n \in Nat \ {0} /\ Classifiable(req.pools)
      /\ QuoteVerdict(req) = "Ok" /\ StrictVerdict(req) = "Ok"
  BY AcceptedRequest, ValidRoute
<1>2. req.amount \in Amount /\ req.tol \in Nat  BY DEF Request
<1>3. p.spans = Partition(req.pools)  BY DEF PlanOf
<1>4. p.spans \in Seq(Span) /\ IsPartition(req.pools, p.spans, n)
  BY <1>1, <1>3, PartitionIsPartition
<1>5. required \in [0..n -> MaybeAmount]
  BY <1>1, <1>2, QuotePathExactOutType DEF MaybeAmount
<1>6. req.exactOut => required \in [0..n -> Amount]
  <2> SUFFICES ASSUME req.exactOut PROVE required \in [0..n -> Amount]
    OBVIOUS
  <2>1. Quoted(required)
    BY <1>1 DEF QuoteVerdict, ExactOutError, Reject
  <2> QED  BY <1>5, <2>1 DEF Quoted, MaybeAmount
<1>7. p.amounts \in [0..n -> Amount]
  <2>1. Quoted(p.amounts)
    BY <1>1 DEF QuoteVerdict, ExactOutError, Reject
  <2>2. p.amounts \in [0..n -> MaybeAmount]
    <3>1. CASE ~req.exactOut
      <4>1. p.amounts = QuotePathAmounts(req, req.amount)  BY <3>1 DEF PlanOf
      <4> QED  BY <1>1, <1>2, <4>1, QuotePathAmountsType DEF MaybeAmount
    <3>2. CASE req.exactOut /\ req.strict
      <4>1. p.amounts = required  BY <3>2 DEF PlanOf
      <4> QED  BY <1>5, <4>1
    <3>3. CASE req.exactOut /\ ~req.strict
      <4>1. p.amounts = QuotePathAmounts(req, required[0])  BY <3>3 DEF PlanOf
      <4>2. required[0] \in MaybeAmount  BY <1>1, <1>5
      <4> QED  BY <1>1, <4>1, <4>2, QuotePathAmountsType
    <3> QED  BY <3>1, <3>2, <3>3
  <2> QED  BY <2>1, <2>2 DEF Quoted, MaybeAmount
<1>8. p.strict = IsStrict(req)  BY DEF PlanOf
<1>9. p.floor \in Amount \cup {None}  BY <1>2 DEF PlanOf
<1>10. CASE IsStrict(req)
  <2>1. required[0] \in Amount  BY <1>1, <1>6, <1>10 DEF IsStrict
  <2>2. p.maxIn = MaxAmountIn(required[0], req.tol)  BY <1>10 DEF PlanOf
  <2>3. p.maxIn \in Amount  BY <1>2, <2>1, <2>2, GuardsBracket
  <2>4. Len(p.spans) = 1  BY <1>1, <1>3, <1>10 DEF StrictVerdict, Reject
  <2> QED  BY <1>4, <1>7, <1>8, <1>9, <1>10, <2>3, <2>4
<1>11. CASE ~IsStrict(req)
  <2>1. p.maxIn = None  BY <1>11 DEF PlanOf
  <2> QED  BY <1>4, <1>7, <1>8, <1>9, <1>11, <2>1
<1> QED  BY <1>10, <1>11

-----------------------------------------------------------------------------
(* Every builder answers with a BuildError or "Ok".                        *)
LEMMA EncodersAnswer ==
  ASSUME NEW call PROVE SinglePoolVerdict(call) \in Verdict
<1> USE DEF Verdict, BuildError
<1>1. \A key : Needs(call, key) \in Verdict  BY DEF Needs, Reject
<1>2. NoPriceLimit(call) \in Verdict  BY DEF NoPriceLimit, Reject
<1>3. \A native : ResolveSwapWith(call, native) \in Verdict
  BY DEF ResolveSwapWith, Reject
<1>4. ResolveSwap(call) \in Verdict  BY <1>3 DEF ResolveSwap
<1>5. DeliversToSender(call) \in Verdict  BY DEF DeliversToSender, Reject
<1> DEFINE kind == KindOf[FirstPool(call)]
           executable == /\ FirstPool(call) \in BuiltIn
                         /\ RouterKindOf(FirstPool(call)) = "Curve" => CurveEnabled
           head == << Reject(~executable, "UnsupportedProtocol") >>
           checks ==
             CASE kind = "UniswapV2" -> UniswapV2Checks(call)
               [] kind = "UniswapV3" -> SwapRouter02Checks(call, "v3")
               [] kind = "UniswapV4" -> UniswapV4Checks(call)
               [] kind = "Slipstream" -> SwapRouter02Checks(call, "slipstream")
               [] kind \in {"AerodromeVolatile", "AerodromeStable"} ->
                    AerodromeChecks(call)
               [] OTHER -> CurveChecks(call)
<1>6. UniswapV2Checks(call) \in Seq(Verdict)
  <2> HIDE DEF Verdict
  <2> QED  BY <1>1, <1>2, <1>4 DEF UniswapV2Checks
<1>7. \A key : SwapRouter02Checks(call, key) \in Seq(Verdict)
  <2>1. LimitFits(call) \in Verdict  BY DEF LimitFits, Reject
  <2> HIDE DEF Verdict
  <2> QED  BY <1>1, <1>4, <2>1 DEF SwapRouter02Checks
<1>8. UniswapV4Checks(call) \in Seq(Verdict)
  <2> DEFINE fits == Reject(call.amountIn > MaxU128 \/ call.minOut > MaxU128, "Overflow")
             permit == IF call.nativeIn THEN "Ok" ELSE Needs(call, "permit2")
  <2>1. fits \in Verdict  BY DEF Reject
  <2>2. permit \in Verdict  BY <1>1
  <2> HIDE DEF Verdict, fits, permit
  <2>3. << ResolveSwapWith(call, IF IsWrapCase(call) THEN WETH ELSE NATIVE),
           NoPriceLimit(call), fits, permit, Needs(call, "universal") >>
          \in Seq(Verdict)
    BY <1>1, <1>2, <1>3, <2>1, <2>2
  <2> QED  BY <2>3 DEF UniswapV4Checks, fits, permit
<1>9. AerodromeChecks(call) \in Seq(Verdict)
  <2> HIDE DEF Verdict
  <2> QED  BY <1>1, <1>2, <1>4 DEF AerodromeChecks
<1>10. CurveChecks(call) \in Seq(Verdict)
  <2> DEFINE interface == InterfaceOf[FirstPool(call)]
             ether == Reject(Native(call) /\ interface # "CryptoU256UseEth",
                             "UnsupportedProtocol")
             known == Reject(interface = "None", "UnsupportedProtocol")
             delivers == IF interface = "CryptoU256Receiver" THEN "Ok"
                         ELSE DeliversToSender(call)
  <2>1. ether \in Verdict /\ known \in Verdict  BY DEF Reject
  <2>2. delivers \in Verdict  BY <1>5
  <2> HIDE DEF Verdict, ether, known, delivers
  <2>3. << NoPriceLimit(call), ether, ResolveSwap(call), known, delivers >>
          \in Seq(Verdict)
    BY <1>2, <1>4, <2>1, <2>2
  <2> QED  BY <2>3 DEF CurveChecks, ether, known, delivers
<1>11. checks \in Seq(Verdict)
  <2> HIDE DEF Verdict, kind
  <2>1. CASE kind = "UniswapV2"  BY <2>1, <1>6
  <2>2. CASE kind = "UniswapV3"  BY <2>2, <1>7
  <2>3. CASE kind = "UniswapV4"  BY <2>3, <1>8
  <2>4. CASE kind = "Slipstream"  BY <2>4, <1>7
  <2>5. CASE kind \in {"AerodromeVolatile", "AerodromeStable"}
    <3>1. CASE kind = "AerodromeVolatile"  BY <3>1, <1>9
    <3>2. CASE kind = "AerodromeStable"  BY <3>2, <1>9
    <3> QED  BY <2>5, <3>1, <3>2
  <2>6. CASE kind \notin {"UniswapV2", "UniswapV3", "UniswapV4", "Slipstream",
                         "AerodromeVolatile", "AerodromeStable"}
    BY <2>6, <1>10
  <2> QED  BY <2>1, <2>2, <2>3, <2>4, <2>5, <2>6
<1>12. head \in Seq(Verdict)
  <2>1. Reject(~executable, "UnsupportedProtocol") \in Verdict  BY DEF Reject
  <2> HIDE DEF Verdict, executable
  <2> QED  BY <2>1
<1> HIDE DEF Verdict, checks, head
<1>13. head \o checks \in Seq(Verdict)  BY <1>11, <1>12
<1>14. FirstError(head \o checks) \in Verdict  BY <1>13, FirstErrorIs
<1> QED  BY <1>14 DEF SinglePoolVerdict, checks, head, kind, executable

LEMMA BuildersAnswer ==
  ASSUME NEW call, SpanLen(call.span) \in Nat
  PROVE  ExactInVerdict(call) \in Verdict /\ ExactOutVerdict(call) \in Verdict
<1> DEFINE kind == call.span.kind
<1>1. \A key : Needs(call, key) \in Verdict
  BY DEF Needs, Reject, Verdict, BuildError
<1>2. \A i : UniswapHop(call, i) \in Verdict
  <2> SUFFICES ASSUME NEW i PROVE UniswapHop(call, i) \in Verdict
    OBVIOUS
  <2> DEFINE pool == call.pools[i]
             paidByUser == i = call.span.start + 1 /\ ~call.nativeIn
             one == Reject(pool \notin BuiltIn, "UnsupportedProtocol")
             two == Reject(/\ KindOf[pool] = "UniswapV4"
                           /\ \/ paidByUser /\ call.amountIn > MaxU128
                              \/ i = call.span.end /\ call.minOut > MaxU128,
                           "Overflow")
  <2>1. one \in Verdict /\ two \in Verdict  BY DEF Reject, Verdict, BuildError
  <2>2. FirstError(<< one, two >>) \in Verdict
    <3> HIDE DEF one, two
    <3>1. << one, two >> \in Seq(Verdict)  BY <2>1
    <3> QED  BY <3>1, FirstErrorIs
  <2> QED  BY <2>2 DEF UniswapHop
<1>3. AllBuiltIn(call) \in Verdict
  BY DEF AllBuiltIn, Reject, Verdict, BuildError
<1>4. UniswapSpanChecks(call) \in Seq(Verdict)
  <2> DEFINE hops == [ k \in 1..SpanLen(call.span) |->
                         UniswapHop(call, call.span.start + k) ]
             permit == IF call.nativeIn THEN "Ok" ELSE Needs(call, "permit2")
             tail == << Needs(call, "universal"), permit >>
  <2>1. hops \in Seq(Verdict)  BY <1>2
  <2>2. permit \in Verdict  BY <1>1 DEF Verdict
  <2>3. tail \in Seq(Verdict)
    <3> HIDE DEF permit
    <3> QED  BY <1>1, <2>2
  <2> HIDE DEF hops, tail
  <2>4. hops \o tail \in Seq(Verdict)  BY <2>1, <2>3
  <2> QED  BY <2>4 DEF UniswapSpanChecks, hops, tail, permit
<1>5. AerodromeSpanChecks(call) \in Seq(Verdict)
  BY <1>1 DEF AerodromeSpanChecks
<1>6. SlipstreamSpanChecks(call) \in Seq(Verdict)
  BY <1>1, <1>3 DEF SlipstreamSpanChecks
<1>7. CurveSpanChecks(call) \in Seq(Verdict)
  <2> DEFINE feature == Reject(~CurveEnabled, "UnsupportedProtocol")
             in == Reject(call.nativeIn /\ ~UseEth(FirstPool(call)),
                          "UnsupportedProtocol")
             out == Reject(call.nativeOut /\ ~UseEth(LastPool(call)),
                           "UnsupportedProtocol")
             known == Reject(\E i \in SpanPools(call) :
                               InterfaceOf[call.pools[i]] = "None",
                             "UnsupportedProtocol")
  <2>1. feature \in Verdict /\ in \in Verdict /\ out \in Verdict /\ known \in Verdict
    BY DEF Reject, Verdict, BuildError
  <2> HIDE DEF feature, in, out, known
  <2>2. << feature, Needs(call, "curve"), in, out, AllBuiltIn(call), known >>
          \in Seq(Verdict)
    BY <1>1, <1>3, <2>1
  <2> QED  BY <2>2 DEF CurveSpanChecks, feature, in, out, known
<1>8. UniswapExactOutChecks(call) \in Seq(Verdict)
  <2> DEFINE kinds == {KindOf[call.pools[i]] : i \in SpanPools(call)}
             v4 == kinds = {"UniswapV4"}
             ether == Reject(Native(call), "UnsupportedProtocol")
             mixed == Reject(Cardinality(kinds) > 1, "UnsupportedExactOut")
             chained == Reject(v4 /\ SpanLen(call.span) > 1, "UnsupportedExactOut")
             fits == Reject(v4 /\ (call.amountIn > MaxU128 \/ call.minOut > MaxU128),
                            "Overflow")
  <2>1. ether \in Verdict /\ mixed \in Verdict /\ chained \in Verdict /\ fits \in Verdict
    BY DEF Reject, Verdict, BuildError
  <2> HIDE DEF ether, mixed, chained, fits
  <2>2. << ether, mixed, chained, AllBuiltIn(call), fits,
           Needs(call, "universal"), Needs(call, "permit2") >> \in Seq(Verdict)
    BY <1>1, <1>3, <2>1
  <2> QED  BY <2>2 DEF UniswapExactOutChecks, ether, mixed, chained, fits, v4, kinds
<1>9. ExactInVerdict(call) \in Verdict
  <2> DEFINE checks ==
        CASE kind = "UniswapUniversal" -> UniswapSpanChecks(call)
          [] kind = "Aerodrome" -> AerodromeSpanChecks(call)
          [] kind = "Slipstream" -> SlipstreamSpanChecks(call)
          [] OTHER -> CurveSpanChecks(call)
  <2>1. checks \in Seq(Verdict)
    <3> HIDE DEF kind
    <3>1. CASE kind = "UniswapUniversal"  BY <3>1, <1>4
    <3>2. CASE kind = "Aerodrome"  BY <3>2, <1>5
    <3>3. CASE kind = "Slipstream"  BY <3>3, <1>6
    <3>4. CASE kind \notin {"UniswapUniversal", "Aerodrome", "Slipstream"}
      BY <3>4, <1>7
    <3> QED  BY <3>1, <3>2, <3>3, <3>4
  <2> HIDE DEF checks
  <2>2. FirstError(checks) \in Verdict  BY <2>1, FirstErrorIs
  <2> QED  BY <2>2, EncodersAnswer DEF ExactInVerdict, checks
<1>10. ExactOutVerdict(call) \in Verdict
  <2> DEFINE checks ==
        CASE kind = "UniswapUniversal" -> UniswapExactOutChecks(call)
          [] kind = "Slipstream" -> SlipstreamSpanChecks(call)
          [] OTHER -> << "UnsupportedProtocol" >>
  <2>1. checks \in Seq(Verdict)
    <3> HIDE DEF kind
    <3>1. CASE kind = "UniswapUniversal"  BY <3>1, <1>8
    <3>2. CASE kind = "Slipstream"  BY <3>2, <1>6
    <3>3. CASE kind \notin {"UniswapUniversal", "Slipstream"}
      <4>1. checks = << "UnsupportedProtocol" >>  BY <3>3
      <4>2. "UnsupportedProtocol" \in Verdict  BY DEF Verdict, BuildError
      <4> HIDE DEF checks
      <4> QED  BY <4>1, <4>2
    <3> QED  BY <3>1, <3>2, <3>3
  <2> HIDE DEF checks
  <2>2. FirstError(checks) \in Verdict  BY <2>1, FirstErrorIs
  <2> QED  BY <2>2 DEF ExactOutVerdict, checks
<1> QED  BY <1>9, <1>10

-----------------------------------------------------------------------------
(* What the plan's fields have to do with the request: the strengthening   *)
(* of TypeOK that next_tx needs to find its span and its boundary amounts. *)
PlanShape ==
  phase \in {"Planned", "Funded"} =>
    /\ Hops(request) /\ Len(request.pools) \in Nat \ {0}
    /\ Spans \in Seq(Span)
    /\ IsPartition(request.pools, Spans, Len(request.pools))
    /\ plan.strict => Len(Spans) = 1

TypeInv == TypeOK /\ PlanShape

(* The current span is a piece of the route.                               *)
LEMMA CurrentSpan ==
  ASSUME TypeInv, phase = "Funded", cursor < Len(Spans)
  PROVE  /\ cursor + 1 \in 1..Len(Spans)
         /\ Current \in Span
         /\ Current.start \in Nat /\ Current.end \in Nat
         /\ Current.start < Current.end /\ Current.end <= Len(request.pools)
         /\ SpanLen(Current) \in Nat
<1>1. Spans \in Seq(Span) /\ GapFree(Spans, Len(request.pools))
  BY DEF TypeInv, PlanShape, IsPartition
<1>2. cursor \in Nat /\ Len(Spans) \in Nat  BY <1>1 DEF TypeInv, TypeOK
<1>3. cursor + 1 \in 1..Len(Spans)  BY <1>2
<1>4. Current \in Span  BY <1>1, <1>3 DEF Current
<1>5. Current.start < Current.end /\ Current.end <= Len(request.pools)
  BY <1>1, <1>3 DEF GapFree, Current
<1> QED  BY <1>3, <1>4, <1>5 DEF Span, SpanLen

(* Every transaction next_tx prepares is well formed, and next_tx answers  *)
(* with one of the verdicts otherwise.                                     *)
LEMMA PreparedType ==
  ASSUME TypeInv, phase = "Funded", NEW observed \in Amount \cup {None},
         Buildable(observed)
  PROVE  /\ Prepared(SpanCall(observed), plan.strict, request.deadline) \in Tx
         /\ SpanVerdict(observed) \in Verdict
<1> DEFINE n == Len(request.pools)
           call == SpanCall(observed)
<1>1. cursor < Len(Spans) /\ (cursor > 0 => observed \in Amount)
  BY DEF Buildable
<1>2. /\ Current \in Span /\ Current.start \in Nat /\ Current.end \in Nat
      /\ Current.start < Current.end /\ Current.end <= n
      /\ SpanLen(Current) \in Nat
  BY <1>1, CurrentSpan
<1>3. /\ n \in Nat \ {0} /\ request.path \in Seq(Asset)
      /\ Len(request.path) = n + 1
  BY DEF TypeInv, PlanShape, Hops
<1>4. /\ plan.amounts \in [0..n -> Amount] /\ plan.strict \in BOOLEAN
      /\ plan.floor \in Amount \cup {None}
      /\ plan.maxIn \in Amount \cup {None} /\ (plan.strict => plan.maxIn # None)
      /\ cursor \in Nat
  BY <1>1 DEF TypeInv, TypeOK, PlanRecord
<1>5. /\ request.amount \in Amount /\ request.tol \in Nat
      /\ request.recipient \in Account /\ request.deadline \in Nat
  BY DEF TypeInv, TypeOK, Request
<1>6. Sender \in Account /\ NATIVE \in Asset
  BY PlanAssumption, BuildersAssumption
<1>7. SpanIn(call) \in Asset /\ SpanOut(call) \in Asset
  <2>1. Current.start + 1 \in 1..n + 1 /\ Current.end + 1 \in 1..n + 1
    BY <1>2, <1>3
  <2> QED  BY <1>3, <2>1 DEF SpanIn, SpanOut, SpanCall
<1>8. call.amountIn \in Amount
  <2>1. SpanAmount(observed) \in Amount  BY <1>1, <1>3, <1>4 DEF SpanAmount
  <2> QED  BY <1>4, <2>1 DEF SpanCall
<1>9. call.minOut \in Amount
  <2>1. plan.amounts[Current.end] \in Amount  BY <1>2, <1>3, <1>4
  <2>2. Compound(request.tol, SpanLen(Current)) \in Nat
    <3>1. Compound(request.tol, SpanLen(Current)) \in 0..BPS_ONE
      BY <1>2, <1>5, CompoundRange
    <3> QED  BY <3>1, BpsAssumption
  <2>3. MinAmountOut(plan.amounts[Current.end],
                     Compound(request.tol, SpanLen(Current))) \in Amount
    BY <2>1, <2>2, GuardsBracket
  <2>4. SpanFloor \in Amount  BY <1>4, <2>3 DEF SpanFloor
  <2> QED  BY <1>5, <2>4 DEF SpanCall
<1>10. call.payee \in Account /\ call.span = Current
  BY <1>5, <1>6 DEF SpanCall, SpanRecipient
<1>11. Prepared(call, plan.strict, request.deadline) \in Tx
  <2> HIDE DEF call
  <2> QED  BY <1>2, <1>4, <1>5, <1>6, <1>7, <1>8, <1>9, <1>10 DEF Prepared, Tx
<1>12. SpanVerdict(observed) \in Verdict
  BY <1>2, <1>10, BuildersAnswer DEF SpanVerdict
<1> QED  BY <1>11, <1>12

(* What every account may hold.                                            *)
Wallets == [Account -> [Asset -> Nat]]

LEMMA WalletCredited ==
  ASSUME NEW w \in Wallets, NEW who \in Account,
         NEW asset \in Asset, NEW raw \in Nat
  PROVE  Credit(w, who, asset, raw) \in Wallets
BY DEF Credit, Wallets

LEMMA WalletDebited ==
  ASSUME NEW w \in Wallets, NEW who \in Account,
         NEW asset \in Asset, NEW raw \in Nat, w[who][asset] >= raw
  PROVE  Debit(w, who, asset, raw) \in Wallets
<1>1. w[who][asset] - raw \in Nat  BY DEF Wallets
<1> QED  BY <1>1 DEF Debit, Wallets

(* What the first transaction takes is an amount, of an asset.             *)
LEMMA FirstInputType ==
  ASSUME TypeInv, phase \in {"Planned", "Funded"}
  PROVE  FirstInput \in Amount /\ FirstInput \in Nat /\ Edge(0) \in Asset
<1>1. /\ Hops(request) /\ Len(request.pools) \in Nat \ {0}
      /\ plan \in PlanRecord /\ (plan.strict <=> plan.maxIn # None)
  BY DEF TypeInv, PlanShape, TypeOK
<1>2. FirstInput \in Amount  BY <1>1 DEF FirstInput, PlanRecord
<1>3. request.path[0 + 1] \in Asset
  <2>1. 1 \in 1..Len(request.path) /\ request.path \in Seq(Asset)
    BY <1>1 DEF Hops
  <2> QED  BY <2>1
<1>4. Edge(0) \in Asset  BY <1>3, BuildersAssumption DEF Edge
<1>5. Amount \subseteq Nat  BY MaxRawAssumption DEF Amount
<1> QED  BY <1>2, <1>4, <1>5

LEMMA InitType == Init => TypeInv
<1> SUFFICES ASSUME Init PROVE TypeInv
  OBVIOUS
<1>1. request \in Request  BY PlanAssumption DEF Init
<1>2. wallet \in Wallets  BY PlanAssumption DEF Init, Wallets
<1>3. pending \in Seq(Tx) /\ receipts \in Seq(Receipt)  BY DEF Init
<1>4. clock \in 0..MaxClock  BY PlanAssumption DEF Init
<1>5. answer \in Verdict  BY DEF Init, Verdict
<1>6. phase = "Asked" /\ plan = None /\ cursor = 0  BY DEF Init
<1> QED  BY <1>1, <1>2, <1>3, <1>4, <1>5, <1>6 DEF TypeInv, TypeOK, PlanShape, Wallets

LEMMA MakePlanType ==
  ASSUME TypeInv, MakePlan PROVE TypeInv'
<1>1. request \in Request /\ phase = "Asked" /\ plan = None /\ cursor = 0
  BY DEF TypeInv, TypeOK, MakePlan
<1>2. UNCHANGED <<request, cursor, pending, receipts, wallet, clock>>
  BY DEF MakePlan
<1>3. CASE PlanVerdict(request) = "Ok"
  <2>1. phase' = "Planned" /\ plan' = PlanOf(request) /\ answer' = "Planned"
    BY <1>3 DEF MakePlan
  <2> DEFINE n == Len(request.pools)
  <2>2. Hops(request) /\ n \in Nat \ {0}
    BY <1>1, <1>3, AcceptedRequest, ValidRoute
  <2>3. /\ plan'.spans \in Seq(Span)
        /\ IsPartition(request.pools, plan'.spans, n)
        /\ plan'.amounts \in [0..n -> Amount]
        /\ plan'.strict = IsStrict(request)
        /\ plan'.floor \in Amount \cup {None}
        /\ IF IsStrict(request)
             THEN plan'.maxIn \in Amount /\ Len(plan'.spans) = 1
             ELSE plan'.maxIn = None
    BY <1>1, <1>3, <2>1, PlanOfType
  <2>4. plan' = [spans |-> plan'.spans, amounts |-> plan'.amounts,
                 strict |-> plan'.strict, floor |-> plan'.floor,
                 maxIn |-> plan'.maxIn]
    BY <2>1 DEF PlanOf
  <2>5. IsStrict(request) \in BOOLEAN  BY <1>1 DEF IsStrict, Request
  <2>6. plan' \in PlanRecord' /\ (plan'.strict <=> plan'.maxIn # None)
    <3>1. plan'.strict \in BOOLEAN /\ plan'.maxIn \in Amount \cup {None}
      BY <2>3, <2>5
    <3>2. plan'.strict <=> plan'.maxIn # None
      BY <2>3, <2>5, QuotingAssumption
    <3> QED  BY <1>2, <2>3, <2>4, <3>1, <3>2 DEF PlanRecord, Span
  <2>7. cursor' \in 0..Len(plan'.spans)  BY <1>1, <1>2, <2>3
  <2>8. TypeOK'
    BY <1>1, <1>2, <2>1, <2>6, <2>7 DEF TypeInv, TypeOK, Spans
  <2>9. PlanShape'
    BY <1>2, <2>1, <2>2, <2>3 DEF PlanShape, Spans, Hops
  <2> QED  BY <2>8, <2>9 DEF TypeInv
<1>4. CASE PlanVerdict(request) # "Ok"
  <2>1. phase' = "Refused" /\ answer' = PlanVerdict(request) /\ plan' = plan
    BY <1>4 DEF MakePlan
  <2>2. PlanVerdict(request) \in Verdict  BY <1>1, PlanVerdictType
  <2> QED  BY <1>1, <1>2, <2>1, <2>2 DEF TypeInv, TypeOK, PlanShape
<1> QED  BY <1>3, <1>4

LEMMA FundType ==
  ASSUME TypeInv, Fund PROVE TypeInv'
<1>1. phase = "Planned" /\ phase' = "Funded"
      /\ UNCHANGED <<request, plan, cursor, answer, pending, receipts, clock>>
      /\ wallet' = Credit(wallet, Sender, Edge(0), FirstInput)
  BY DEF Fund
<1>2. FirstInput \in Nat /\ Edge(0) \in Asset  BY <1>1, FirstInputType
<1>3. wallet' \in Wallets
  BY <1>1, <1>2, PlanAssumption, WalletCredited DEF TypeInv, TypeOK, Wallets
<1>4. TypeOK'
  BY <1>1, <1>3 DEF TypeInv, TypeOK, PlanRecord, Spans, Wallets
<1>5. PlanShape'
  BY <1>1 DEF TypeInv, PlanShape, Spans, Hops
<1> QED  BY <1>4, <1>5 DEF TypeInv

(* next_tx keeps the plan's shape whatever it is told was observed.        *)
LEMMA NextTxType ==
  ASSUME TypeInv, NEW observed \in Amount \cup {None}, NextTx(observed)
  PROVE  TypeInv'
<1>1. phase = "Funded" /\ UNCHANGED <<request, phase, plan, receipts, wallet, clock>>
  BY DEF NextTx
<1>2. PlanShape'  BY <1>1 DEF TypeInv, PlanShape, Spans, Hops
<1>3. ASSUME UNCHANGED <<cursor, pending>>,
             answer' \in Verdict \cup {"Planned", "Prepared", "Done"}
      PROVE TypeInv'
  BY <1>1, <1>2, <1>3 DEF TypeInv, TypeOK, PlanRecord, Spans
<1>4. CASE Exhausted  BY <1>3, <1>4 DEF Exhausted
<1>5. CASE MissingObserved(observed)
  BY <1>3, <1>5 DEF MissingObserved, Verdict, BuildError
<1>6. CASE BuildFails(observed)
  <2>1. SpanVerdict(observed) \in Verdict
    BY <1>1, <1>6, PreparedType DEF BuildFails
  <2> QED  BY <1>3, <1>6, <2>1 DEF BuildFails
<1>7. CASE Emit(observed)
  <2> DEFINE tx == Prepared(SpanCall(observed), plan.strict, request.deadline)
  <2>1. tx \in Tx  BY <1>1, <1>7, PreparedType DEF Emit
  <2>2. pending' = Append(pending, tx) /\ cursor' = cursor + 1 /\ answer' = "Prepared"
    BY <1>7 DEF Emit
  <2> HIDE DEF tx
  <2>3. pending' \in Seq(Tx)  BY <2>1, <2>2 DEF TypeInv, TypeOK
  <2>4. cursor' \in 0..Len(Spans)
    <3>1. cursor < Len(Spans)  BY <1>7 DEF Emit, Buildable
    <3>2. cursor + 1 \in 1..Len(Spans)  BY <1>1, <3>1, CurrentSpan
    <3> QED  BY <2>2, <3>2
  <2> QED  BY <1>1, <1>2, <2>2, <2>3, <2>4 DEF TypeInv, TypeOK, PlanRecord, Spans
<1> QED  BY <1>4, <1>5, <1>6, <1>7 DEF NextTx

LEMMA FillsType ==
  ASSUME NEW tx \in Tx, NEW fill \in Fills(tx)
  PROVE  /\ fill.got \in Amount /\ fill.spent \in Amount
         /\ fill.spent <= tx.amountIn
         /\ ~tx.exactOut /\ ~tx.mayStop => fill.spent = tx.amountIn
<1>1. /\ tx.amountIn \in Amount /\ tx.minOut \in Amount
      /\ tx.exactOut \in BOOLEAN /\ tx.mayStop \in BOOLEAN
  BY DEF Tx
<1>2. CASE tx.exactOut
  <2>1. fill \in [got : {tx.minOut}, spent : 0..tx.amountIn]  BY <1>2 DEF Fills
  <2> QED  BY <1>1, <1>2, <2>1, MaxRawAssumption DEF Amount
<1>3. CASE ~tx.exactOut
  <2>1. fill \in [got : Amount \cap (tx.minOut .. tx.minOut + MaxSurplus),
                  spent : IF tx.mayStop THEN 0..tx.amountIn ELSE {tx.amountIn}]
    BY <1>3 DEF Fills
  <2>2. CASE tx.mayStop
    <3>1. fill.got \in Amount /\ fill.spent \in 0..tx.amountIn  BY <2>1, <2>2
    <3> QED  BY <1>1, <2>2, <3>1, MaxRawAssumption DEF Amount
  <2>3. CASE ~tx.mayStop
    <3>1. fill.got \in Amount /\ fill.spent = tx.amountIn  BY <2>1, <2>3
    <3> QED  BY <1>1, <3>1, MaxRawAssumption DEF Amount
  <2> QED  BY <1>1, <2>2, <2>3
<1> QED  BY <1>2, <1>3

LEMMA SettleType ==
  ASSUME TypeInv, NEW k \in 1..Len(pending), Settle(k)
  PROVE  TypeInv'
<1> DEFINE tx == pending[k]
<1>1. tx \in Tx  BY DEF TypeInv, TypeOK
<1>2. UNCHANGED <<request, phase, plan, cursor, answer, clock>>
      /\ pending' = SubSeq(pending, 1, k - 1) \o SubSeq(pending, k + 1, Len(pending))
  BY DEF Settle
<1>3. PICK fill \in Fills(tx) :
        /\ wallet[Sender][tx.sells] >= fill.spent
        /\ wallet' = Credit(Debit(wallet, Sender, tx.sells, fill.spent),
                            tx.payee, tx.buys, fill.got)
        /\ receipts' = Append(receipts, [tx |-> tx, got |-> fill.got,
                                         spent |-> fill.spent])
  BY DEF Settle
<1>4. fill.got \in Amount /\ fill.spent \in Amount  BY <1>1, FillsType
<1> HIDE DEF tx
<1>5. Amount \subseteq Nat  BY MaxRawAssumption DEF Amount
<1>6. wallet' \in Wallets
  <2>1. tx.sells \in Asset /\ tx.buys \in Asset /\ tx.payee \in Account /\ Sender \in Account
    BY <1>1, PlanAssumption DEF Tx
  <2>2. wallet \in Wallets  BY DEF TypeInv, TypeOK, Wallets
  <2>3. Debit(wallet, Sender, tx.sells, fill.spent) \in Wallets
    BY <1>3, <1>4, <1>5, <2>1, <2>2, WalletDebited
  <2> QED  BY <1>3, <1>4, <1>5, <2>1, <2>3, WalletCredited
<1>7. receipts' \in Seq(Receipt)
  <2>1. [tx |-> tx, got |-> fill.got, spent |-> fill.spent] \in Receipt
    BY <1>1, <1>4 DEF Receipt
  <2> QED  BY <1>3, <2>1 DEF TypeInv, TypeOK
<1>8. pending' \in Seq(Tx)
  <2>1. pending \in Seq(Tx) /\ Len(pending) \in Nat  BY DEF TypeInv, TypeOK
  <2>2. SubSeq(pending, 1, k - 1) \in Seq(Tx)  BY <2>1
  <2>3. SubSeq(pending, k + 1, Len(pending)) \in Seq(Tx)  BY <2>1
  <2> QED  BY <1>2, <2>2, <2>3
<1>9. TypeOK'
  BY <1>2, <1>6, <1>7, <1>8 DEF TypeInv, TypeOK, PlanRecord, Spans, Wallets
<1>10. PlanShape'  BY <1>2 DEF TypeInv, PlanShape, Spans, Hops
<1> QED  BY <1>9, <1>10 DEF TypeInv

LEMMA MeasuredType == TypeInv => Measured \in Amount \cup {None}
<1> SUFFICES ASSUME TypeInv, receipts # <<>> PROVE Measured \in Amount
  BY DEF Measured
<1>1. receipts \in Seq(Receipt)  BY DEF TypeInv, TypeOK
<1>2. receipts[Len(receipts)] \in Receipt  BY <1>1
<1> QED  BY <1>2 DEF Measured, Receipt

LEMMA IdleType ==
  ASSUME TypeInv, Tick \/ UNCHANGED vars PROVE TypeInv'
<1>1. UNCHANGED <<request, phase, plan, cursor, answer, pending, receipts, wallet>>
  BY DEF Tick, vars
<1>2. clock' \in 0..MaxClock
  BY PlanAssumption DEF TypeInv, TypeOK, Tick, vars
<1>3. TypeOK'  BY <1>1, <1>2 DEF TypeInv, TypeOK, PlanRecord, Spans
<1>4. PlanShape'  BY <1>1 DEF TypeInv, PlanShape, Spans, Hops
<1> QED  BY <1>3, <1>4 DEF TypeInv

(* The type invariant of a plan driven with measured outputs.              *)
THEOREM DrivenTypeOK == Spec => []TypeOK
<1>1. TypeInv /\ [Next]_vars => TypeInv'
  <2> SUFFICES ASSUME TypeInv, [Next]_vars PROVE TypeInv'
    OBVIOUS
  <2>1. CASE MakePlan  BY <2>1, MakePlanType
  <2>2. CASE Fund  BY <2>2, FundType
  <2>3. CASE DrivenNextTx  BY <2>3, MeasuredType, NextTxType DEF DrivenNextTx
  <2>4. CASE SettleSome  BY <2>4, SettleType DEF SettleSome
  <2>5. CASE Tick \/ UNCHANGED vars  BY <2>5, IdleType
  <2> QED  BY <2>1, <2>2, <2>3, <2>4, <2>5 DEF Next
<1>2. TypeInv => TypeOK  BY DEF TypeInv
<1> QED  BY <1>1, <1>2, InitType, PTL DEF Spec

(* The same however carelessly next_tx is called.                          *)
THEOREM CarelessTypeOK == CarelessSpec => []TypeOK
<1>1. TypeInv /\ [CarelessNext]_vars => TypeInv'
  <2> SUFFICES ASSUME TypeInv, [CarelessNext]_vars PROVE TypeInv'
    OBVIOUS
  <2>1. CASE MakePlan  BY <2>1, MakePlanType
  <2>2. CASE Fund  BY <2>2, FundType
  <2>3. CASE CarelessNextTx  BY <2>3, NextTxType DEF CarelessNextTx
  <2>4. CASE SettleSome  BY <2>4, SettleType DEF SettleSome
  <2>5. CASE UNCHANGED vars  BY <2>5, IdleType
  <2> QED  BY <2>1, <2>2, <2>3, <2>4, <2>5 DEF CarelessNext
<1>2. TypeInv => TypeOK  BY DEF TypeInv
<1> QED  BY <1>1, <1>2, InitType, PTL DEF CarelessSpec

-----------------------------------------------------------------------------
(* Custody.  OneHolding is not inductive: next_tx must be known to have    *)
(* emitted at most one unsettled transaction, which sells what is held     *)
(* (InStep), and only a strict plan, which has a single span, may have     *)
(* left change behind, or a swap that may stop at a price limit.           *)
Settled ==
  /\ phase # "Funded" => pending = <<>> /\ receipts = <<>> /\ cursor = 0
  /\ phase = "Funded" /\ pending # <<>> =>
       /\ pending[1].exactOut = plan.strict
       /\ pending[1].mayStop => request.priceLimit # {}
  /\ phase = "Funded" /\ Legs >= 1 =>
       /\ receipts[1].spent \in Nat /\ receipts[1].spent <= FirstInput
       /\ ~plan.strict /\ request.priceLimit = {} => receipts[1].spent = FirstInput

CustodyInv == TypeInv /\ Settled /\ InStep /\ OneHolding

LEMMA OnlyType ==
  ASSUME NEW who \in Account, NEW asset \in Asset, NEW raw \in Nat
  PROVE  /\ Base \in Wallets
         /\ Only(who, asset, raw) \in Wallets
<1>1. Base \in Wallets  BY PlanAssumption DEF Base, Wallets
<1>2. Credit(Base, who, asset, raw) \in Wallets
  <2> HIDE DEF Base
  <2> QED  BY <1>1, WalletCredited
<1> QED  BY <1>1, <1>2 DEF Only

(* A credit, read off at one account and one asset.                        *)
LEMMA CreditAt ==
  ASSUME NEW w \in Wallets, NEW who \in Account,
         NEW asset \in Asset, NEW raw \in Nat, NEW x \in Account, NEW y \in Asset
  PROVE  Credit(w, who, asset, raw)[x][y] =
           IF x = who /\ y = asset THEN w[x][y] + raw ELSE w[x][y]
BY DEF Credit, Wallets

(* Two wallets with the same holdings are the same.                        *)
LEMMA SameWallet ==
  ASSUME NEW v \in Wallets, NEW w \in Wallets,
         \A x \in Account, y \in Asset : v[x][y] = w[x][y]
  PROVE  v = w
<1>1. ASSUME NEW x \in Account PROVE v[x] = w[x]
  <2>1. v[x] \in [Asset -> Nat] /\ w[x] \in [Asset -> Nat]  BY DEF Wallets
  <2> QED  BY <2>1
<1> QED  BY <1>1 DEF Wallets

LEMMA DebitOnly ==
  ASSUME NEW who \in Account, NEW asset \in Asset, NEW raw \in Nat,
         NEW spent \in Nat, spent <= raw
  PROVE  Debit(Only(who, asset, raw), who, asset, spent)
           = Only(who, asset, raw - spent)
<1> DEFINE w == Only(who, asset, raw)
           left == Debit(w, who, asset, spent)
           right == Only(who, asset, raw - spent)
<1>1. Base \in Wallets /\ w \in Wallets
  BY OnlyType
<1>2. raw - spent \in Nat  OBVIOUS
<1>3. right \in Wallets  BY <1>2, OnlyType
<1>4. ASSUME NEW x \in Account, NEW y \in Asset
      PROVE  /\ w[x][y] = IF x = who /\ y = asset THEN Base[x][y] + raw ELSE Base[x][y]
             /\ right[x][y] = IF x = who /\ y = asset THEN Base[x][y] + (raw - spent)
                              ELSE Base[x][y]
  <2>1. Credit(Base, who, asset, raw)[x][y] =
          IF x = who /\ y = asset THEN Base[x][y] + raw ELSE Base[x][y]
    <3> HIDE DEF Base
    <3> QED  BY <1>1, CreditAt
  <2>2. Credit(Base, who, asset, raw - spent)[x][y] =
          IF x = who /\ y = asset THEN Base[x][y] + (raw - spent) ELSE Base[x][y]
    <3> HIDE DEF Base
    <3> QED  BY <1>1, <1>2, CreditAt
  <2> QED  BY <2>1, <2>2 DEF Only
<1>5. w[who][asset] >= spent
  <2>1. Base[who][asset] \in Nat  BY <1>1 DEF Wallets
  <2>2. w[who][asset] = Base[who][asset] + raw  BY <1>4
  <2> QED  BY <2>1, <2>2
<1>6. left \in Wallets
  <2> HIDE DEF w
  <2> QED  BY <1>1, <1>5, WalletDebited
<1>7. ASSUME NEW x \in Account, NEW y \in Asset PROVE left[x][y] = right[x][y]
  <2>1. left[x][y] = IF x = who /\ y = asset THEN w[x][y] - spent ELSE w[x][y]
    <3> HIDE DEF w
    <3> QED  BY <1>1 DEF Debit, Wallets
  <2>2. Base[x][y] \in Nat  BY <1>1 DEF Wallets
  <2>3. /\ w[x][y] = IF x = who /\ y = asset THEN Base[x][y] + raw ELSE Base[x][y]
        /\ right[x][y] = IF x = who /\ y = asset THEN Base[x][y] + (raw - spent)
                         ELSE Base[x][y]
    BY <1>4
  <2> HIDE DEF left, right, w
  <2> QED  BY <2>1, <2>2, <2>3
<1>8. left = right
  <2> HIDE DEF left, right
  <2> QED  BY <1>3, <1>6, <1>7, SameWallet
<1> QED  BY <1>8

LEMMA CreditsCommute ==
  ASSUME NEW w \in Wallets,
         NEW p \in Account, NEW x \in Asset, NEW m \in Nat,
         NEW q \in Account, NEW y \in Asset, NEW n \in Nat
  PROVE  Credit(Credit(w, p, x, m), q, y, n) = Credit(Credit(w, q, y, n), p, x, m)
<1>1. Credit(w, p, x, m) \in Wallets
      /\ Credit(w, q, y, n) \in Wallets
  BY WalletCredited
<1> DEFINE left == Credit(Credit(w, p, x, m), q, y, n)
           right == Credit(Credit(w, q, y, n), p, x, m)
<1>2. left \in Wallets /\ right \in Wallets
  BY <1>1, WalletCredited
<1>3. ASSUME NEW a \in Account, NEW b \in Asset PROVE left[a][b] = right[a][b]
  <2>1. w[a][b] \in Nat  BY DEF Wallets
  <2>2. left[a][b] = IF a = q /\ b = y THEN Credit(w, p, x, m)[a][b] + n
                     ELSE Credit(w, p, x, m)[a][b]
    BY <1>1, CreditAt
  <2>3. right[a][b] = IF a = p /\ b = x THEN Credit(w, q, y, n)[a][b] + m
                      ELSE Credit(w, q, y, n)[a][b]
    BY <1>1, CreditAt
  <2>4. Credit(w, p, x, m)[a][b] = IF a = p /\ b = x THEN w[a][b] + m ELSE w[a][b]
    BY CreditAt
  <2>5. Credit(w, q, y, n)[a][b] = IF a = q /\ b = y THEN w[a][b] + n ELSE w[a][b]
    BY CreditAt
  <2> HIDE DEF left, right
  <2> QED  BY <2>1, <2>2, <2>3, <2>4, <2>5
<1>4. left = right
  <2> HIDE DEF left, right
  <2> QED  BY <1>2, <1>3, SameWallet
<1> QED  BY <1>4

LEMMA CreditNothing ==
  ASSUME NEW w \in Wallets, NEW who \in Account,
         NEW asset \in Asset
  PROVE  Credit(w, who, asset, 0) = w
<1> DEFINE left == Credit(w, who, asset, 0)
<1>1. left \in Wallets  BY WalletCredited
<1>2. ASSUME NEW x \in Account, NEW y \in Asset PROVE left[x][y] = w[x][y]
  <2>1. w[x][y] \in Nat  BY DEF Wallets
  <2>2. left[x][y] = IF x = who /\ y = asset THEN w[x][y] + 0 ELSE w[x][y]
    BY CreditAt
  <2> HIDE DEF left
  <2> QED  BY <2>1, <2>2
<1>3. left = w
  <2> HIDE DEF left
  <2> QED  BY <1>1, <1>2, SameWallet
<1> QED  BY <1>3

(* Only the first span starts where the route does, and only the last one  *)
(* ends where it does.                                                     *)
LEMMA SpanEnds ==
  ASSUME TypeInv, phase = "Funded", cursor < Len(Spans)
  PROVE  /\ Current.start = 0 <=> cursor = 0
         /\ Current.end = Len(request.pools) <=> IsFinal
<1> DEFINE n == Len(request.pools)
<1>1. /\ Spans \in Seq(Span) /\ GapFree(Spans, n) /\ Len(Spans) \in Nat
      /\ n \in Nat /\ cursor \in Nat
  BY DEF TypeInv, TypeOK, PlanShape, IsPartition
<1>2. ASSUME NEW k \in 1..Len(Spans)
      PROVE  /\ Spans[k].start \in Nat /\ Spans[k].end \in Nat
             /\ Spans[k].start < Spans[k].end /\ Spans[k].end <= n
  <2>1. Spans[k] \in Span  BY <1>1
  <2>2. Spans[k].start < Spans[k].end /\ Spans[k].end <= n
    BY <1>1 DEF GapFree
  <2> QED  BY <2>1, <2>2 DEF Span
<1>3. Spans # <<>>  BY <1>1
<1>4. Spans[1].start = 0 /\ Spans[Len(Spans)].end = n
  BY <1>1, <1>3 DEF GapFree
<1>5. cursor + 1 \in 1..Len(Spans)  BY <1>1
<1>6. ASSUME cursor # 0 PROVE Current.start # 0
  <2>1. cursor \in 1..Len(Spans) - 1 /\ cursor \in 1..Len(Spans)  BY <1>1, <1>6
  <2>2. Spans[cursor].end = Spans[cursor + 1].start
    BY <1>1, <2>1 DEF GapFree
  <2> QED  BY <1>2, <2>1, <2>2 DEF Current
<1>7. ASSUME cursor + 1 # Len(Spans) PROVE Current.end # n
  <2>1. cursor + 1 \in 1..Len(Spans) - 1 /\ cursor + 2 \in 1..Len(Spans)
    BY <1>1, <1>7
  <2>2. Spans[cursor + 1].end = Spans[(cursor + 1) + 1].start
    BY <1>1, <2>1 DEF GapFree
  <2>3. (cursor + 1) + 1 = cursor + 2  BY <1>1
  <2>4. Spans[cursor + 2].start < n  BY <1>1, <1>2, <2>1
  <2> QED  BY <1>1, <2>2, <2>3, <2>4 DEF Current
<1> QED  BY <1>4, <1>6, <1>7 DEF Current, IsFinal

(* What crosses a boundary of the route is an asset.                       *)
LEMMA EdgeType ==
  ASSUME TypeInv, phase \in {"Planned", "Funded"}, NEW i \in 0..Len(request.pools)
  PROVE  Edge(i) \in Asset
<1>1. /\ request.path \in Seq(Asset) /\ Len(request.path) = Len(request.pools) + 1
      /\ Len(request.pools) \in Nat
  BY DEF TypeInv, PlanShape, Hops
<1>2. i + 1 \in 1..Len(request.path)  BY <1>1
<1>3. request.path[i + 1] \in Asset  BY <1>1, <1>2
<1> QED  BY <1>3, BuildersAssumption DEF Edge

(* The transaction next_tx prepares for the current span.                  *)
LEMMA Emitted ==
  ASSUME TypeInv, phase = "Funded", cursor < Len(Spans), NEW observed
  PROVE  LET tx == Prepared(SpanCall(observed), plan.strict, request.deadline)
         IN  /\ tx.sells = Edge(Current.start)
             /\ tx.buys = Edge(Current.end)
             /\ tx.amountIn = IF plan.strict THEN plan.maxIn ELSE SpanAmount(observed)
             /\ tx.minOut = IF plan.strict THEN request.amount ELSE SpanFloor
             /\ tx.exactOut = plan.strict
             /\ tx.payee = SpanRecipient
<1> DEFINE call == SpanCall(observed)
           tx == Prepared(call, plan.strict, request.deadline)
<1>1. /\ tx.sells = IF call.nativeIn THEN NATIVE ELSE SpanIn(call)
      /\ tx.buys = IF call.nativeOut THEN NATIVE ELSE SpanOut(call)
      /\ tx.amountIn = call.amountIn /\ tx.minOut = call.minOut
      /\ tx.exactOut = plan.strict /\ tx.payee = call.payee
  BY DEF Prepared
<1>2. /\ call.nativeIn = (request.native = "Input" /\ cursor = 0)
      /\ call.nativeOut = (request.native = "Output" /\ IsFinal)
      /\ SpanIn(call) = request.path[Current.start + 1]
      /\ SpanOut(call) = request.path[Current.end + 1]
      /\ call.amountIn = IF plan.strict THEN plan.maxIn ELSE SpanAmount(observed)
      /\ call.minOut = IF plan.strict THEN request.amount ELSE SpanFloor
      /\ call.payee = SpanRecipient
  BY DEF SpanCall, SpanIn, SpanOut
<1> HIDE DEF call, tx
<1>3. /\ Current.start \in Nat /\ Current.end \in Nat
      /\ Current.start < Current.end /\ Current.end <= Len(request.pools)
      /\ Len(request.pools) \in Nat
  BY CurrentSpan DEF TypeInv, PlanShape
<1>4. (Current.start = 0 <=> cursor = 0)
      /\ (Current.end = Len(request.pools) <=> IsFinal)
  BY SpanEnds
<1>5. tx.sells = Edge(Current.start)
  <2>1. Current.start # Len(request.pools)  BY <1>3
  <2> QED  BY <1>1, <1>2, <1>4, <2>1 DEF Edge
<1>6. tx.buys = Edge(Current.end)
  <2>1. Current.end # 0  BY <1>3
  <2> QED  BY <1>1, <1>2, <1>4, <2>1 DEF Edge
<1>7. /\ tx.amountIn = IF plan.strict THEN plan.maxIn ELSE SpanAmount(observed)
      /\ tx.minOut = IF plan.strict THEN request.amount ELSE SpanFloor
      /\ tx.exactOut = plan.strict /\ tx.payee = SpanRecipient
  BY <1>1, <1>2
<1> QED  BY <1>5, <1>6, <1>7 DEF tx, call

LEMMA InitCustody == Init => CustodyInv
<1> SUFFICES ASSUME Init PROVE CustodyInv
  OBVIOUS
<1>1. TypeInv  BY InitType
<1>2. Settled /\ InStep  BY DEF Init, Settled, InStep
<1>3. OneHolding  BY DEF Init, OneHolding, Held, Base
<1> QED  BY <1>1, <1>2, <1>3 DEF CustodyInv

LEMMA MakePlanCustody ==
  ASSUME CustodyInv, MakePlan PROVE CustodyInv'
<1>1. TypeInv'  BY MakePlanType DEF CustodyInv
<1>2. phase = "Asked" /\ phase' # "Funded"
      /\ UNCHANGED <<request, cursor, pending, receipts, wallet, clock>>
  BY DEF MakePlan
<1>3. Settled' /\ InStep'  BY <1>2 DEF CustodyInv, Settled, InStep
<1>4. OneHolding'  BY <1>2 DEF CustodyInv, OneHolding, Held, Base
<1> QED  BY <1>1, <1>3, <1>4 DEF CustodyInv

LEMMA FundCustody ==
  ASSUME CustodyInv, Fund PROVE CustodyInv'
<1>1. TypeInv'  BY FundType DEF CustodyInv
<1>2. phase = "Planned" /\ phase' = "Funded"
      /\ UNCHANGED <<request, plan, cursor, answer, pending, receipts, clock>>
      /\ wallet' = Credit(wallet, Sender, Edge(0), FirstInput)
  BY DEF Fund
<1>3. pending = <<>> /\ receipts = <<>> /\ cursor = 0  BY <1>2 DEF CustodyInv, Settled
<1>4. Settled' /\ InStep'
  BY <1>2, <1>3 DEF Settled, InStep, Legs
<1>5. request.priceLimit = {} => wallet = Base
  BY <1>2 DEF CustodyInv, OneHolding, Held
<1>6. Legs' = 0  BY <1>2, <1>3 DEF Legs
<1>7. Edge(0)' = Edge(0) /\ FirstInput' = FirstInput
  BY <1>2 DEF Edge, FirstInput
<1>8. OneHolding'
  BY <1>2, <1>5, <1>6, <1>7 DEF OneHolding, Held, Only, Base, Credit
<1> QED  BY <1>1, <1>4, <1>8 DEF CustodyInv

LEMMA NextTxCustody ==
  ASSUME CustodyInv, DrivenNextTx PROVE CustodyInv'
<1>1. TypeInv /\ Measured \in Amount \cup {None}  BY MeasuredType DEF CustodyInv
<1>2. pending = <<>> /\ NextTx(Measured)  BY DEF DrivenNextTx
<1>3. TypeInv'  BY <1>1, <1>2, NextTxType
<1>4. phase = "Funded" /\ UNCHANGED <<request, phase, plan, receipts, wallet, clock>>
  BY <1>2 DEF NextTx
<1>5. OneHolding'
  <2> SUFFICES ASSUME request.priceLimit = {} PROVE Held'
    BY <1>4 DEF OneHolding
  <2>1. Held  BY DEF CustodyInv, OneHolding
  <2>2. /\ Legs' = Legs /\ Spans' = Spans /\ FirstInput' = FirstInput
        /\ Latest' = Latest
    BY <1>4 DEF Legs, Spans, FirstInput, Latest
  <2>3. Delivered' = Delivered /\ Change' = Change
    BY <1>4, <2>2 DEF Delivered, Change
  <2>4. Edge(0)' = Edge(0)
    BY <1>4 DEF Edge
  <2>5. Edge(Spans[Legs].end)' = Edge(Spans[Legs].end)
    BY <1>4, <2>2 DEF Edge
  <2>6. CASE Legs = 0
    BY <1>4, <2>1, <2>2, <2>4, <2>6 DEF Held, Only, Base, Credit
  <2>7. CASE Legs # 0
    <3>1. (IF Delivered THEN request.recipient ELSE Sender)'
            = IF Delivered THEN request.recipient ELSE Sender
      BY <1>4, <2>3
    <3>2. Latest.got' = Latest.got  BY <2>2
    <3>3. wallet = Credit(Only(IF Delivered THEN request.recipient ELSE Sender,
                               Edge(Spans[Legs].end), Latest.got),
                          Sender, Edge(0), Change)
      BY <1>4, <2>1, <2>7 DEF Held
    <3>4. wallet' = Credit(Only(IF Delivered THEN request.recipient ELSE Sender,
                                Edge(Spans[Legs].end), Latest.got),
                           Sender, Edge(0), Change)'
      BY <1>4, <2>3, <2>4, <2>5, <3>1, <3>2, <3>3 DEF Only, Base, Credit
    <3> QED  BY <1>4, <2>2, <2>7, <3>4 DEF Held
  <2> QED  BY <2>6, <2>7
<1>6. ASSUME UNCHANGED <<cursor, pending>> PROVE Settled' /\ InStep'
  BY <1>2, <1>4, <1>6
     DEF CustodyInv, Settled, InStep, Legs, FirstInput
<1>7. CASE ~Emit(Measured)
  <2>1. UNCHANGED <<cursor, pending>>
    BY <1>2, <1>7 DEF NextTx, Exhausted, MissingObserved, BuildFails
  <2> QED  BY <1>3, <1>5, <1>6, <2>1 DEF CustodyInv
<1>8. CASE Emit(Measured)
  <2> DEFINE tx == Prepared(SpanCall(Measured), plan.strict, request.deadline)
  <2>1. /\ cursor < Len(Spans) /\ pending' = Append(pending, tx)
        /\ cursor' = cursor + 1
    BY <1>8 DEF Emit, Buildable
  <2>2. pending' = <<tx>> /\ Len(pending') = 1 /\ pending'[1] = tx
    <3> HIDE DEF tx
    <3> QED  BY <1>2, <2>1
  <2>3. cursor = Legs /\ cursor \in Nat /\ Legs \in Nat
    BY <1>1, <1>2, <1>4 DEF CustodyInv, InStep, TypeInv, TypeOK, Legs
  <2>4. tx.mayStop => request.priceLimit # {}
    BY DEF Prepared, SpanCall
  <2>5. /\ tx.sells = Edge(Current.start) /\ tx.buys = Edge(Current.end)
        /\ tx.amountIn = IF plan.strict THEN plan.maxIn ELSE SpanAmount(Measured)
        /\ tx.exactOut = plan.strict /\ tx.payee = SpanRecipient
    BY <1>1, <1>4, <2>1, Emitted
  <2> HIDE DEF tx
  <2>6. tx.amountIn = IF Legs = 0 THEN FirstInput ELSE Latest.got
    <3>1. CASE plan.strict
      <4>1. Len(Spans) = 1  BY <1>1, <1>4, <3>1 DEF TypeInv, PlanShape
      <4>2. Legs = 0  BY <2>1, <2>3, <4>1
      <4> QED  BY <2>5, <3>1, <4>2 DEF FirstInput
    <3>2. CASE ~plan.strict /\ Legs = 0
      BY <2>3, <2>5, <3>2 DEF FirstInput, SpanAmount
    <3>3. CASE ~plan.strict /\ Legs # 0
      <4>1. Measured = Latest.got  BY <3>3 DEF Measured, Latest, Legs
      <4> QED  BY <2>3, <2>5, <3>3, <4>1 DEF SpanAmount
    <3> QED  BY <3>1, <3>2, <3>3
  <2>7. tx.payee = IF cursor + 1 = Len(Spans) THEN request.recipient ELSE Sender
    BY <2>5 DEF SpanRecipient, IsFinal
  <2>8. /\ Legs' = Legs /\ Spans' = Spans /\ FirstInput' = FirstInput
         /\ Latest' = Latest
    BY <1>4 DEF Legs, Spans, FirstInput, Latest
  <2>9. Spans'[cursor'] = Current  BY <2>1, <2>8 DEF Current
  <2>10. InStep'
    <3>1. cursor' = Legs' + Len(pending')  BY <2>1, <2>2, <2>3, <2>8
    <3>2. tx.sells = Edge(Spans[cursor].start)'
      BY <1>4, <2>5, <2>9 DEF Edge
    <3>3. tx.buys = Edge(Spans[cursor].end)'
      BY <1>4, <2>5, <2>9 DEF Edge
    <3>4. tx.amountIn = (IF Legs = 0 THEN FirstInput ELSE Latest.got)'
      BY <2>6, <2>8
    <3>5. tx.payee = (IF cursor = Len(Spans) THEN request.recipient ELSE Sender)'
      BY <1>4, <2>1, <2>7, <2>8
    <3> QED  BY <2>2, <3>1, <3>2, <3>3, <3>4, <3>5 DEF InStep
  <2>11. Settled'
    <3>1. tx.exactOut = plan.strict /\ (tx.mayStop => request.priceLimit # {})
      BY <2>4, <2>5
    <3> QED  BY <1>4, <2>2, <2>8, <3>1 DEF CustodyInv, Settled
  <2> QED  BY <1>3, <1>5, <2>10, <2>11 DEF CustodyInv
<1> QED  BY <1>7, <1>8

(* The spans meet: what the last settled one delivered is what the current *)
(* one takes in.                                                           *)
LEMMA SpansMeet ==
  ASSUME TypeInv, phase = "Funded", NEW k \in 1..Len(Spans) - 1
  PROVE  Spans[k].end = Spans[k + 1].start
<1>1. Spans \in Seq(Span) /\ GapFree(Spans, Len(request.pools))
  BY DEF TypeInv, PlanShape, IsPartition
<1> QED  BY <1>1 DEF GapFree

(* The trade's first transaction leaves only the change behind.            *)
LEMMA FirstLeg ==
  ASSUME NEW sold \in Asset, NEW bought \in Asset, NEW payee \in Account,
         NEW input \in Nat, NEW spent \in Nat, spent <= input, NEW got \in Nat
  PROVE  Credit(Debit(Only(Sender, sold, input), Sender, sold, spent),
                payee, bought, got)
           = Credit(Only(payee, bought, got), Sender, sold, input - spent)
<1>1. Sender \in Account /\ Base \in Wallets /\ input - spent \in Nat
  BY PlanAssumption, OnlyType
<1>2. Debit(Only(Sender, sold, input), Sender, sold, spent)
        = Credit(Base, Sender, sold, input - spent)
  BY <1>1, DebitOnly DEF Only
<1>3. Credit(Credit(Base, Sender, sold, input - spent), payee, bought, got)
        = Credit(Credit(Base, payee, bought, got), Sender, sold, input - spent)
  <2> HIDE DEF Base
  <2> QED  BY <1>1, CreditsCommute
<1> QED  BY <1>2, <1>3 DEF Only

(* Every later transaction leaves nothing behind.                          *)
LEMMA LaterLeg ==
  ASSUME NEW first \in Asset, NEW sold \in Asset, NEW bought \in Asset,
         NEW payee \in Account, NEW held \in Nat, NEW got \in Nat
  PROVE  Credit(Debit(Credit(Only(Sender, sold, held), Sender, first, 0),
                      Sender, sold, held),
                payee, bought, got)
           = Credit(Only(payee, bought, got), Sender, first, 0)
<1>1. /\ Sender \in Account /\ Base \in Wallets /\ held - held = 0 /\ 0 \in Nat
      /\ Only(Sender, sold, held) \in Wallets /\ Only(payee, bought, got) \in Wallets
  BY PlanAssumption, OnlyType
<1>2. Credit(Only(Sender, sold, held), Sender, first, 0) = Only(Sender, sold, held)
  BY <1>1, CreditNothing
<1>3. Debit(Only(Sender, sold, held), Sender, sold, held) = Only(Sender, sold, 0)
  <2>1. held <= held  OBVIOUS
  <2>2. Debit(Only(Sender, sold, held), Sender, sold, held)
          = Only(Sender, sold, held - held)
    BY <1>1, <2>1, DebitOnly
  <2> QED  BY <1>1, <2>2
<1>4. Only(Sender, sold, 0) = Base
  <2>1. Credit(Base, Sender, sold, 0) = Base
    <3> HIDE DEF Base
    <3> QED  BY <1>1, CreditNothing
  <2> QED  BY <2>1 DEF Only
<1>5. Credit(Only(payee, bought, got), Sender, first, 0) = Only(payee, bought, got)
  BY <1>1, CreditNothing
<1> QED  BY <1>2, <1>3, <1>4, <1>5 DEF Only

LEMMA SettleCustody ==
  ASSUME CustodyInv, NEW k \in 1..Len(pending), Settle(k)
  PROVE  CustodyInv'
<1>1. TypeInv /\ Settled /\ InStep /\ OneHolding  BY DEF CustodyInv
<1>2. TypeInv'  BY <1>1, SettleType
<1>3. /\ pending \in Seq(Tx) /\ Len(pending) \in Nat /\ pending # <<>>
      /\ receipts \in Seq(Receipt) /\ cursor \in Nat /\ Legs \in Nat
  BY <1>1 DEF TypeInv, TypeOK, Legs, PlanRecord
<1>4. phase = "Funded" /\ Len(pending) = 1 /\ k = 1 /\ cursor = Legs + 1
  <2>1. phase = "Funded"  BY <1>1, <1>3 DEF Settled
  <2>2. cursor = Legs + Len(pending) /\ Len(pending) <= 1
    BY <1>1, <2>1 DEF InStep
  <2>3. \A n \in Nat : n <= 1 /\ 1 <= n => n = 1  OBVIOUS
  <2>4. Len(pending) \in Nat /\ 1 <= Len(pending) /\ Len(pending) <= 1
    BY <1>3, <2>2
  <2>5. Len(pending) = 1  BY <2>3, <2>4
  <2>6. k = 1  BY <2>5
  <2>7. cursor = Legs + 1  BY <2>2, <2>5
  <2> QED  BY <2>1, <2>5, <2>6, <2>7
<1> DEFINE tx == pending[1]
<1>5. /\ UNCHANGED <<request, phase, plan, cursor, answer, clock>>
      /\ pending' = SubSeq(pending, 1, k - 1) \o SubSeq(pending, k + 1, Len(pending))
  BY DEF Settle
<1>6. pending' = <<>>
  <2>1. SubSeq(pending, 1, 0) = <<>> /\ SubSeq(pending, 2, 1) = <<>>  BY <1>3
  <2> QED  BY <1>4, <1>5, <2>1
<1>7. /\ tx \in Tx /\ tx.exactOut = plan.strict
      /\ tx.mayStop => request.priceLimit # {}
  BY <1>1, <1>3, <1>4 DEF Settled
<1>8. PICK fill \in Fills(tx) :
        /\ wallet' = Credit(Debit(wallet, Sender, tx.sells, fill.spent),
                            tx.payee, tx.buys, fill.got)
        /\ receipts' = Append(receipts, [tx |-> tx, got |-> fill.got,
                                         spent |-> fill.spent])
  BY <1>4 DEF Settle
<1>9. /\ fill.got \in Nat /\ fill.spent \in Nat /\ fill.spent <= tx.amountIn
      /\ ~plan.strict /\ request.priceLimit = {} => fill.spent = tx.amountIn
  BY <1>7, FillsType, MaxRawAssumption DEF Amount
<1>10. /\ tx.sells \in Asset /\ tx.buys \in Asset /\ tx.payee \in Account
       /\ Sender \in Account
  BY <1>7, PlanAssumption DEF Tx
<1>11. /\ tx.sells = Edge(Spans[cursor].start)
       /\ tx.buys = Edge(Spans[cursor].end)
       /\ tx.amountIn = IF Legs = 0 THEN FirstInput ELSE Latest.got
       /\ tx.payee = IF cursor = Len(Spans) THEN request.recipient ELSE Sender
  BY <1>1, <1>3, <1>4 DEF InStep
<1> HIDE DEF tx
<1>12. /\ Legs' = Legs + 1 /\ Latest'.got = fill.got
       /\ receipts'[1] = IF Legs = 0 THEN [tx |-> tx, got |-> fill.got,
                                           spent |-> fill.spent]
                         ELSE receipts[1]
  BY <1>3, <1>8 DEF Legs, Latest
<1>13. Spans' = Spans /\ FirstInput' = FirstInput /\ Edge(0)' = Edge(0)
  BY <1>5 DEF Spans, FirstInput, Edge
<1>14. Edge(Spans[Legs].end)' = tx.buys
  BY <1>4, <1>5, <1>11, <1>12, <1>13 DEF Edge
<1>15. (IF Delivered THEN request.recipient ELSE Sender)' = tx.payee
  BY <1>4, <1>5, <1>11, <1>12, <1>13 DEF Delivered
<1>16. cursor \in 1..Len(Spans) /\ Len(Spans) \in Nat
  BY <1>1, <1>3, <1>4 DEF TypeInv, TypeOK, PlanShape
<1>17. FirstInput \in Nat
  BY <1>1, <1>4, FirstInputType, MaxRawAssumption DEF Amount
<1>18. ASSUME request.priceLimit = {}
       PROVE  wallet' = Credit(Only(tx.payee, tx.buys, fill.got), Sender, Edge(0), Change')
  <2>1. CASE Legs = 0
    <3>1. Spans[cursor].start = 0
      <4>1. GapFree(Spans, Len(request.pools))
        BY <1>1, <1>4 DEF TypeInv, PlanShape, IsPartition
      <4>2. Spans # <<>>  BY <1>16
      <4> QED  BY <1>4, <2>1, <4>1, <4>2 DEF GapFree
    <3>2. wallet = Only(Sender, Edge(0), FirstInput)
      BY <1>1, <1>4, <1>18, <2>1 DEF OneHolding, Held
    <3>3. tx.sells = Edge(0) /\ tx.amountIn = FirstInput
      BY <1>11, <2>1, <3>1
    <3>4. Change' = FirstInput - fill.spent
      BY <1>12, <1>13, <2>1 DEF Change
    <3>5. fill.spent <= FirstInput /\ Edge(0) \in Asset  BY <1>9, <1>10, <3>3
    <3>6. Credit(Debit(Only(Sender, Edge(0), FirstInput), Sender, Edge(0), fill.spent),
                 tx.payee, tx.buys, fill.got)
            = Credit(Only(tx.payee, tx.buys, fill.got), Sender, Edge(0),
                     FirstInput - fill.spent)
      BY <1>9, <1>10, <1>17, <3>5, FirstLeg
    <3> QED  BY <1>8, <3>2, <3>3, <3>4, <3>6
  <2>2. CASE Legs # 0
    <3>1. Legs \in 1..Len(Spans) - 1 /\ Legs + 1 = cursor
      BY <1>3, <1>4, <1>16, <2>2
    <3>2. ~plan.strict /\ ~Delivered
      <4>1. plan.strict => Len(Spans) = 1
        BY <1>1, <1>4 DEF TypeInv, PlanShape
      <4>2. Len(Spans) \in Nat /\ Legs \in Nat  BY <1>3, <1>16
      <4>3. \A m, n \in Nat : m \in 1..n - 1 => m # n /\ n # 1  OBVIOUS
      <4>4. Legs # Len(Spans) /\ Len(Spans) # 1  BY <3>1, <4>2, <4>3
      <4> QED  BY <4>1, <4>4 DEF Delivered
    <3>3. receipts[1].spent = FirstInput
      BY <1>1, <1>3, <1>4, <1>18, <2>2, <3>2 DEF Settled
    <3>4. Change = 0 /\ Change' = 0
      BY <1>12, <1>13, <1>17, <2>2, <3>3 DEF Change
    <3>5. Edge(Spans[Legs].end) = tx.sells
      BY <1>1, <1>4, <1>11, <3>1, SpansMeet
    <3>6. wallet = Credit(Only(Sender, tx.sells, Latest.got), Sender, Edge(0), 0)
      BY <1>1, <1>4, <1>18, <2>2, <3>2, <3>4, <3>5 DEF OneHolding, Held
    <3>7. fill.spent = Latest.got /\ tx.amountIn \in Nat
      BY <1>7, <1>9, <1>11, <1>18, <2>2, <3>2, MaxRawAssumption DEF Tx, Amount
    <3>8. Edge(0) \in Asset /\ Latest.got \in Nat
      BY <1>1, <1>4, <1>9, <3>7, EdgeType DEF TypeInv, PlanShape
    <3>9. wallet' = Credit(Only(tx.payee, tx.buys, fill.got), Sender, Edge(0), 0)
      BY <1>8, <1>9, <1>10, <3>6, <3>7, <3>8, LaterLeg
    <3> QED  BY <3>4, <3>9
  <2> QED  BY <2>1, <2>2
<1>19. OneHolding'
  BY <1>3, <1>4, <1>5, <1>12, <1>13, <1>14, <1>15, <1>18 DEF OneHolding, Held
<1>20. InStep'
  <2>1. Len(pending') = 0  BY <1>6
  <2> QED  BY <1>3, <1>4, <1>5, <1>6, <1>12, <2>1 DEF InStep
<1>21. Settled'
  <2>1. CASE Legs = 0
    <3>1. receipts'[1].spent = fill.spent /\ tx.amountIn = FirstInput
      BY <1>11, <1>12, <2>1
    <3> QED  BY <1>4, <1>5, <1>6, <1>9, <1>13, <3>1 DEF Settled
  <2>2. CASE Legs # 0
    <3>1. receipts'[1] = receipts[1] /\ Legs >= 1  BY <1>3, <1>12, <2>2
    <3> QED  BY <1>1, <1>4, <1>5, <1>6, <1>13, <3>1 DEF Settled
  <2> QED  BY <2>1, <2>2
<1> QED  BY <1>2, <1>19, <1>20, <1>21 DEF CustodyInv

LEMMA IdleCustody ==
  ASSUME CustodyInv, Tick \/ UNCHANGED vars PROVE CustodyInv'
<1>1. TypeInv'  BY IdleType DEF CustodyInv
<1>2. UNCHANGED <<request, phase, plan, cursor, answer, pending, receipts, wallet>>
  BY DEF Tick, vars
<1>3. Settled' = Settled /\ InStep' = InStep /\ OneHolding' = OneHolding
  BY <1>2 DEF Settled, InStep, OneHolding, Held, Legs, Spans, Latest, FirstInput,
              Edge, Delivered, Change, Only, Base, Credit
<1> QED  BY <1>1, <1>3 DEF CustodyInv

(* The custody invariant is inductive. *)
THEOREM CustodyAlways == Spec => []CustodyInv
<1>1. CustodyInv /\ [Next]_vars => CustodyInv'
  <2> SUFFICES ASSUME CustodyInv, [Next]_vars PROVE CustodyInv'
    OBVIOUS
  <2>1. CASE MakePlan  BY <2>1, MakePlanCustody
  <2>2. CASE Fund  BY <2>2, FundCustody
  <2>3. CASE DrivenNextTx  BY <2>3, NextTxCustody
  <2>4. CASE SettleSome  BY <2>4, SettleCustody DEF SettleSome
  <2>5. CASE Tick \/ UNCHANGED vars  BY <2>5, IdleCustody
  <2> QED  BY <2>1, <2>2, <2>3, <2>4, <2>5 DEF Next
<1> QED  BY <1>1, InitCustody, PTL DEF Spec

(* Driven with measured outputs, plan and chain stay in step, whatever the *)
(* route, the prices and the fills.                                        *)
THEOREM InStepAlways == Spec => []InStep
<1>1. CustodyInv => InStep  BY DEF CustodyInv
<1> QED  BY <1>1, CustodyAlways, PTL

(* Driven with measured outputs, a trade never splits, whatever the route, *)
(* the prices and the fills (docs of next_tx and of Recipients, plan.rs).  *)
THEOREM OneHoldingAlways == Spec => []OneHolding
<1>1. CustodyInv => OneHolding  BY DEF CustodyInv
<1> QED  BY <1>1, CustodyAlways, PTL

-----------------------------------------------------------------------------
(* What a careless caller cannot break.                                    *)

(* The plan's shape and bounds are those of the request it was made for.   *)
PlanTrue ==
  phase \in {"Planned", "Funded"} =>
    /\ plan.strict = IsStrict(request)
    /\ plan.floor = IF request.exactOut /\ ~request.strict THEN request.amount ELSE None
    /\ plan.strict => plan.maxIn = MaxAmountIn(plan.amounts[0], request.tol)

LEMMA MakePlanTrue == ASSUME MakePlan PROVE PlanTrue'
<1>1. CASE PlanVerdict(request) = "Ok"
  <2>1. plan' = PlanOf(request) /\ request' = request
    BY <1>1 DEF MakePlan
  <2>2. IsStrict(request)' = IsStrict(request)  BY <2>1 DEF IsStrict
  <2>3. plan'.strict = IsStrict(request)
        /\ plan'.floor = IF request.exactOut /\ ~request.strict
                         THEN request.amount ELSE None
    BY <2>1 DEF PlanOf
  <2>4. IsStrict(request) =>
          plan'.maxIn = MaxAmountIn(plan'.amounts[0], request.tol)
    BY <2>1 DEF PlanOf, IsStrict
  <2> QED  BY <2>1, <2>2, <2>3, <2>4 DEF PlanTrue
<1>2. CASE PlanVerdict(request) # "Ok"
  BY <1>2 DEF MakePlan, PlanTrue
<1> QED  BY <1>1, <1>2

LEMMA KeepPlanTrue ==
  ASSUME PlanTrue, UNCHANGED <<request, plan>>,
         phase' \in {"Planned", "Funded"} => phase \in {"Planned", "Funded"}
  PROVE  PlanTrue'
BY DEF PlanTrue, IsStrict

(* The guarantee is an amount.                                             *)
LEMMA GuaranteeType ==
  ASSUME TypeInv, phase = "Funded" PROVE Guarantee \in Nat
<1> DEFINE n == Len(request.pools)
<1>1. /\ n \in Nat /\ plan.amounts \in [0..n -> Amount]
      /\ request.amount \in Amount /\ request.tol \in Nat
  BY DEF TypeInv, PlanShape, TypeOK, PlanRecord, Request
<1>2. plan.amounts[n] \in Amount  BY <1>1
<1>3. Compound(request.tol, n) \in Nat
  <2>1. Compound(request.tol, n) \in 0..BPS_ONE  BY <1>1, CompoundRange
  <2> QED  BY <2>1, BpsAssumption
<1>4. MinAmountOut(plan.amounts[n], Compound(request.tol, n)) \in Amount
  BY <1>2, <1>3, GuardsBracket
<1>5. Amount \subseteq Nat  BY MaxRawAssumption DEF Amount
<1> QED  BY <1>1, <1>4, <1>5 DEF Guarantee

(* The floor of the final span is no lower than the guarantee: the span is *)
(* no longer than the route, and the tolerance grows with the hops.        *)
LEMMA FinalFloor ==
  ASSUME TypeInv, PlanTrue, phase = "Funded", cursor < Len(Spans), IsFinal
  PROVE  (IF plan.strict THEN request.amount ELSE SpanFloor) >= Guarantee
<1> DEFINE n == Len(request.pools)
<1>1. /\ n \in Nat /\ plan.amounts \in [0..n -> Amount]
      /\ request.amount \in Amount /\ request.tol \in Nat
      /\ request.exactOut \in BOOLEAN /\ request.strict \in BOOLEAN
  BY DEF TypeInv, PlanShape, TypeOK, PlanRecord, Request
<1>2. Amount \subseteq Nat  BY MaxRawAssumption DEF Amount
<1>3. /\ plan.strict = IsStrict(request)
      /\ plan.floor = IF request.exactOut /\ ~request.strict THEN request.amount ELSE None
  BY DEF PlanTrue
<1>4. CASE request.exactOut
  <2>1. Guarantee = request.amount /\ request.amount \in Nat
    BY <1>1, <1>2, <1>4 DEF Guarantee
  <2>2. CASE request.strict
    <3>1. IsStrict(request)  BY <1>4, <2>2 DEF IsStrict
    <3>2. plan.strict  BY <1>3, <3>1, Zenon
    <3> QED  BY <2>1, <3>2
  <2>3. CASE ~request.strict
    <3>1. plan.floor # None
      BY <1>1, <1>3, <1>4, <2>3, QuotingAssumption
    <3>2. ~plan.strict /\ SpanFloor = request.amount
      BY <1>3, <1>4, <2>3, <3>1 DEF SpanFloor, IsStrict
    <3> QED  BY <2>1, <3>2
  <2> QED  BY <1>1, <2>2, <2>3
<1>5. CASE ~request.exactOut
  <2>1. ~plan.strict /\ plan.floor = None  BY <1>3, <1>5 DEF IsStrict
  <2>2. Current.end = n  BY SpanEnds
  <2>3. SpanLen(Current) \in 0..n
    <3>1. /\ Current.start \in Nat /\ Current.end \in Nat
          /\ Current.start < Current.end /\ Current.end <= n
      BY CurrentSpan
    <3> QED  BY <1>1, <3>1 DEF SpanLen
  <2> DEFINE short == Compound(request.tol, SpanLen(Current))
             long == Compound(request.tol, n)
  <2>4. short <= long  BY <1>1, <2>3, CompoundGrows
  <2>5. short \in Nat /\ long \in Nat
    <3>1. SpanLen(Current) \in Nat /\ request.tol \in Nat  BY <1>1, <2>3
    <3>2. short \in 0..BPS_ONE  BY <3>1, CompoundRange
    <3>3. long \in 0..BPS_ONE  BY <1>1, CompoundRange
    <3> QED  BY <3>2, <3>3, BpsAssumption
  <2>6. SpanFloor = MinAmountOut(plan.amounts[n], short)
        /\ Guarantee = MinAmountOut(plan.amounts[n], long)
    BY <1>5, <2>1, <2>2 DEF SpanFloor, Guarantee
  <2>7. plan.amounts[n] \in Amount /\ plan.amounts[n] \in Nat
    <3>1. plan.amounts[n] \in Amount  BY <1>1
    <3> QED  BY <1>2, <3>1
  <2> HIDE DEF short, long
  <2>8. MinAmountOut(plan.amounts[n], long) <= MinAmountOut(plan.amounts[n], short)
    BY <2>4, <2>5, <2>7, FloorFalls
  <2>9. MinAmountOut(plan.amounts[n], long) \in Nat
        /\ MinAmountOut(plan.amounts[n], short) \in Nat
    BY <1>2, <2>5, <2>7, GuardsBracket
  <2> QED  BY <2>1, <2>6, <2>8, <2>9
<1> QED  BY <1>1, <1>4, <1>5

(* A fill pays at least the floor, and exactly the target of an exact-out. *)
LEMMA FillsPay ==
  ASSUME NEW tx \in Tx, NEW fill \in Fills(tx)
  PROVE  fill.got >= tx.minOut /\ (tx.exactOut => fill.got = tx.minOut)
<1>1. tx.minOut \in Nat  BY MaxRawAssumption DEF Tx, Amount
<1>2. CASE tx.exactOut
  <2>1. fill \in [got : {tx.minOut}, spent : 0..tx.amountIn]  BY <1>2 DEF Fills
  <2> QED  BY <1>1, <2>1
<1>3. CASE ~tx.exactOut
  <2>1. fill \in [got : Amount \cap (tx.minOut .. tx.minOut + MaxSurplus),
                  spent : IF tx.mayStop THEN 0..tx.amountIn ELSE {tx.amountIn}]
    BY <1>3 DEF Fills
  <2> QED  BY <1>1, <1>3, <2>1, PlanAssumption
<1> QED  BY <1>2, <1>3

(* Settling a transaction takes it out of the queue and moves up the ones  *)
(* behind it.                                                              *)
LEMMA Removed ==
  ASSUME NEW S, NEW q \in Seq(S), NEW k \in 1..Len(q)
  PROVE  LET rest == SubSeq(q, 1, k - 1) \o SubSeq(q, k + 1, Len(q))
         IN  /\ rest \in Seq(S)
             /\ Len(rest) = Len(q) - 1
             /\ \A i \in 1..Len(rest) : rest[i] = q[IF i < k THEN i ELSE i + 1]
<1> DEFINE front == SubSeq(q, 1, k - 1)
           back == SubSeq(q, k + 1, Len(q))
<1>1. Len(q) \in Nat /\ k \in Nat /\ 1 <= k /\ k <= Len(q)  OBVIOUS
<1>2. /\ front \in Seq(S) /\ Len(front) = k - 1
      /\ \A i \in 1..k - 1 : front[i] = q[i]
  BY <1>1
<1>3. /\ back \in Seq(S) /\ Len(back) = Len(q) - k
      /\ \A i \in 1..Len(q) - k : back[i] = q[k + i]
  BY <1>1
<1> HIDE DEF front, back
<1>4. /\ front \o back \in Seq(S) /\ Len(front \o back) = Len(q) - 1
      /\ \A i \in 1..Len(q) - 1 :
           (front \o back)[i] = IF i <= k - 1 THEN front[i] ELSE back[i - (k - 1)]
  <2>1. Len(front) + Len(back) = Len(q) - 1  BY <1>1, <1>2, <1>3
  <2>2. front \in Seq(S) /\ back \in Seq(S)  BY <1>2, <1>3
  <2>3. /\ front \o back \in Seq(S) /\ Len(front \o back) = Len(front) + Len(back)
        /\ \A i \in 1..Len(front) + Len(back) :
             (front \o back)[i] = IF i <= Len(front) THEN front[i]
                                 ELSE back[i - Len(front)]
    BY <2>2, ConcatProperties, Zenon
  <2> QED  BY <1>2, <2>1, <2>3
<1> DEFINE rest == front \o back
<1> HIDE DEF rest
<1>5. ASSUME NEW i \in 1..Len(q) - 1
      PROVE  rest[i] = q[IF i < k THEN i ELSE i + 1]
  <2>1. CASE i < k
    <3>1. i <= k - 1 /\ i \in 1..k - 1  BY <1>1, <2>1
    <3>2. rest[i] = front[i]  BY <1>4, <3>1 DEF rest
    <3> QED  BY <1>2, <2>1, <3>1, <3>2
  <2>2. CASE i >= k
    <3>1. rest[i] = back[i - (k - 1)]  BY <1>1, <1>4, <2>2 DEF rest
    <3>2. i - (k - 1) \in 1..Len(q) - k /\ k + (i - (k - 1)) = i + 1
      BY <1>1, <2>2
    <3>3. back[i - (k - 1)] = q[i + 1]  BY <1>3, <3>2
    <3>4. ~(i < k)  BY <1>1, <2>2
    <3> QED  BY <3>1, <3>3, <3>4
  <2> QED  BY <1>1, <2>1, <2>2
<1> QED  BY <1>4, <1>5 DEF front, back, rest

(* Protection.  RecipientProtected is not inductive: at most one           *)
(* transaction that pays somebody else may be under way, only once every   *)
(* span has been emitted and with nothing paid before it, and its floor    *)
(* must be the guarantee.                                                  *)
Untouched ==
  \A who \in Account \ {Sender}, asset \in Asset : wallet[who][asset] = Savings
Outward == {k \in 1..Len(pending) : pending[k].payee # Sender}
ProtectedInv ==
  /\ TypeInv /\ PlanTrue
  /\ phase # "Funded" => Untouched /\ pending = <<>>
  /\ phase = "Funded" =>
       /\ cursor < Len(Spans) => Untouched /\ Outward = {}
       /\ Outward # {} => Untouched
       /\ \A j, k \in Outward : j = k
       /\ \A k \in Outward :
            /\ pending[k].payee = request.recipient
            /\ pending[k].buys = Edge(Len(request.pools))
            /\ pending[k].minOut >= Guarantee
  /\ RecipientProtected

LEMMA UntouchedProtects == Untouched => RecipientProtected
BY DEF Untouched, RecipientProtected

LEMMA InitProtected == Init => ProtectedInv
<1> SUFFICES ASSUME Init PROVE ProtectedInv
  OBVIOUS
<1>1. TypeInv  BY InitType
<1>2. PlanTrue /\ phase # "Funded" /\ pending = <<>>  BY DEF Init, PlanTrue
<1>3. Untouched  BY DEF Init, Untouched
<1> QED  BY <1>1, <1>2, <1>3, UntouchedProtects DEF ProtectedInv

LEMMA MakePlanProtected ==
  ASSUME ProtectedInv, MakePlan PROVE ProtectedInv'
<1>1. TypeInv' /\ PlanTrue'  BY MakePlanType, MakePlanTrue DEF ProtectedInv
<1>2. phase = "Asked" /\ phase' # "Funded" /\ UNCHANGED <<pending, wallet>>
  BY DEF MakePlan
<1>3. Untouched' /\ pending' = <<>>  BY <1>2 DEF ProtectedInv, Untouched
<1>4. RecipientProtected'  BY <1>3 DEF Untouched, RecipientProtected
<1> QED  BY <1>1, <1>2, <1>3, <1>4 DEF ProtectedInv

LEMMA FundProtected ==
  ASSUME ProtectedInv, Fund PROVE ProtectedInv'
<1>1. /\ phase = "Planned" /\ phase' = "Funded"
      /\ UNCHANGED <<request, plan, cursor, answer, pending, receipts, clock>>
      /\ wallet' = Credit(wallet, Sender, Edge(0), FirstInput)
  BY DEF Fund
<1>2. TypeInv' /\ PlanTrue'
  BY <1>1, FundType, KeepPlanTrue DEF ProtectedInv
<1>3. Untouched /\ pending = <<>>  BY <1>1 DEF ProtectedInv
<1>4. Untouched'
  <2>1. wallet \in Wallets  BY DEF ProtectedInv, TypeInv, TypeOK, Wallets
  <2>2. FirstInput \in Nat /\ Edge(0) \in Asset /\ Sender \in Account
    BY <1>1, FirstInputType, PlanAssumption DEF ProtectedInv
  <2>3. ASSUME NEW who \in Account \ {Sender}, NEW asset \in Asset
        PROVE  wallet'[who][asset] = wallet[who][asset]
    BY <1>1, <2>1, <2>2, CreditAt
  <2> QED  BY <1>3, <2>3 DEF Untouched
<1>5. Outward' = {}
  <2>1. Len(pending') = 0  BY <1>1, <1>3
  <2> QED  BY <2>1 DEF Outward
<1>6. RecipientProtected'  BY <1>4 DEF Untouched, RecipientProtected
<1> QED  BY <1>1, <1>2, <1>4, <1>5, <1>6 DEF ProtectedInv

LEMMA NextTxProtected ==
  ASSUME ProtectedInv, NEW observed \in Amount \cup {None}, NextTx(observed)
  PROVE  ProtectedInv'
<1> DEFINE n == Len(request.pools)
<1>1. phase = "Funded" /\ UNCHANGED <<request, phase, plan, receipts, wallet, clock>>
  BY DEF NextTx
<1>2. TypeInv /\ PlanTrue /\ RecipientProtected  BY DEF ProtectedInv
<1>3. TypeInv' /\ PlanTrue'
  BY <1>1, <1>2, NextTxType, KeepPlanTrue
<1>4. /\ Untouched' = Untouched /\ Spans' = Spans /\ Guarantee' = Guarantee
      /\ Edge(Len(request.pools))' = Edge(Len(request.pools))
  BY <1>1 DEF Untouched, Spans, Guarantee, Edge
<1>5. CASE ~Emit(observed)
  <2>1. UNCHANGED <<cursor, pending>>
    BY <1>5 DEF NextTx, Exhausted, MissingObserved, BuildFails
  <2>2. Outward' = Outward  BY <2>1 DEF Outward
  <2>3. RecipientProtected'
    BY <1>1, <1>2, <1>4, <2>1 DEF RecipientProtected
  <2> QED  BY <1>1, <1>3, <1>4, <2>1, <2>2, <2>3 DEF ProtectedInv
<1>6. CASE Emit(observed)
  <2> DEFINE tx == Prepared(SpanCall(observed), plan.strict, request.deadline)
             last == Len(pending) + 1
  <2>1. /\ cursor < Len(Spans) /\ pending' = Append(pending, tx)
        /\ cursor' = cursor + 1
    BY <1>6 DEF Emit, Buildable
  <2>2. /\ pending \in Seq(Tx) /\ Len(pending) \in Nat /\ cursor \in Nat
        /\ Len(Spans) \in Nat
    BY <1>1, <1>2 DEF TypeInv, TypeOK, PlanShape
  <2>3. Untouched /\ Outward = {}  BY <1>1, <2>1 DEF ProtectedInv
  <2>4. /\ tx.payee = SpanRecipient /\ tx.buys = Edge(Current.end)
        /\ tx.minOut = IF plan.strict THEN request.amount ELSE SpanFloor
    BY <1>1, <1>2, <2>1, Emitted
  <2>5. IsFinal => Current.end = n /\ tx.minOut >= Guarantee
    BY <1>1, <1>2, <2>1, <2>4, SpanEnds, FinalFloor
  <2> HIDE DEF tx
  <2>6. Outward' = {k \in {last} : tx.payee # Sender}
    <3>1. Len(pending') = last  BY <2>1, <2>2
    <3>2. \A k \in 1..Len(pending) : pending'[k] = pending[k]  BY <2>1, <2>2
    <3>3. pending'[last] = tx  BY <2>1, <2>2
    <3>4. 1..last = 1..Len(pending) \cup {last}  BY <2>2
    <3>5. \A k \in 1..Len(pending) : pending[k].payee = Sender
      BY <2>3 DEF Outward
    <3> QED  BY <3>1, <3>2, <3>3, <3>4, <3>5 DEF Outward
  <2>7. Outward' # {} => IsFinal /\ tx.payee = request.recipient
    BY <2>4, <2>6 DEF SpanRecipient
  <2>8. Untouched' /\ RecipientProtected'
    BY <1>4, <2>3 DEF Untouched, RecipientProtected
  <2>9. cursor' < Len(Spans') => Outward' = {}
    BY <1>4, <2>1, <2>2, <2>7 DEF IsFinal
  <2>10. \A j, k \in Outward' : j = k  BY <2>6
  <2>11. pending'[last] = tx  BY <2>1, <2>2
  <2>12. ASSUME NEW k \in Outward'
         PROVE  /\ pending'[k].payee = request'.recipient
                /\ pending'[k].buys = Edge(Len(request.pools))'
                /\ pending'[k].minOut >= Guarantee'
    <3>1. k = last  BY <2>6
    <3> QED  BY <1>1, <1>4, <2>4, <2>5, <2>7, <2>11, <3>1
  <2> QED  BY <1>1, <1>3, <2>8, <2>9, <2>10, <2>12 DEF ProtectedInv
<1> QED  BY <1>5, <1>6

LEMMA SettleProtected ==
  ASSUME ProtectedInv, NEW k \in 1..Len(pending), Settle(k)
  PROVE  ProtectedInv'
<1> DEFINE tx == pending[k]
           was(i) == IF i < k THEN i ELSE i + 1
<1>1. TypeInv /\ PlanTrue /\ RecipientProtected  BY DEF ProtectedInv
<1>2. /\ pending \in Seq(Tx) /\ Len(pending) \in Nat /\ pending # <<>>
      /\ wallet \in Wallets
  BY <1>1 DEF TypeInv, TypeOK, Wallets
<1>3. phase = "Funded"  BY <1>2 DEF ProtectedInv
<1>4. /\ UNCHANGED <<request, phase, plan, cursor, answer, clock>>
      /\ pending' = SubSeq(pending, 1, k - 1) \o SubSeq(pending, k + 1, Len(pending))
  BY DEF Settle
<1>5. TypeInv' /\ PlanTrue'  BY <1>1, <1>4, SettleType, KeepPlanTrue
<1>6. /\ Spans' = Spans /\ Guarantee' = Guarantee
      /\ Edge(Len(request.pools))' = Edge(Len(request.pools))
  BY <1>4 DEF Spans, Guarantee, Edge
<1>7. /\ Len(pending') = Len(pending) - 1
      /\ \A i \in 1..Len(pending') : pending'[i] = pending[was(i)]
  BY <1>2, <1>4, Removed
<1>8. ASSUME NEW i \in Outward'
      PROVE  was(i) \in Outward /\ was(i) # k /\ pending'[i] = pending[was(i)]
  <2>1. i \in 1..Len(pending') /\ pending'[i].payee # Sender  BY DEF Outward
  <2>2. was(i) \in 1..Len(pending) /\ was(i) # k  BY <1>2, <1>7, <2>1
  <2>3. pending'[i] = pending[was(i)]  BY <1>7, <2>1
  <2> HIDE DEF was
  <2> QED  BY <2>1, <2>2, <2>3 DEF Outward
<1>9. \A i, j \in Nat : was(i) = was(j) => i = j  OBVIOUS
<1>10. \A i \in Outward' : i \in Nat  BY DEF Outward
<1> HIDE DEF was
<1>11. /\ \A i, j \in Outward : i = j
       /\ \A i \in Outward : /\ pending[i].payee = request.recipient
                             /\ pending[i].buys = Edge(Len(request.pools))
                             /\ pending[i].minOut >= Guarantee
       /\ cursor < Len(Spans) => Untouched /\ Outward = {}
       /\ Outward # {} => Untouched
  BY <1>3 DEF ProtectedInv
<1>12. /\ \A i, j \in Outward' : i = j
       /\ \A i \in Outward' : /\ pending'[i].payee = request.recipient
                              /\ pending'[i].buys = Edge(Len(request.pools))
                              /\ pending'[i].minOut >= Guarantee
       /\ Outward = {} => Outward' = {}
  BY <1>8, <1>9, <1>10, <1>11
<1>13. PICK fill \in Fills(tx) :
         /\ wallet[Sender][tx.sells] >= fill.spent
         /\ wallet' = Credit(Debit(wallet, Sender, tx.sells, fill.spent),
                             tx.payee, tx.buys, fill.got)
  BY DEF Settle
<1>14. tx \in Tx  BY <1>2
<1>15. /\ tx.sells \in Asset /\ tx.buys \in Asset /\ tx.payee \in Account
       /\ Sender \in Account /\ tx.minOut \in Nat
  BY <1>14, PlanAssumption, MaxRawAssumption DEF Tx, Amount
<1>16. fill.got \in Nat /\ fill.spent \in Nat /\ fill.got >= tx.minOut
  BY <1>14, FillsType, FillsPay, MaxRawAssumption DEF Amount
<1> HIDE DEF tx
<1>17. ASSUME NEW who \in Account \ {Sender}, NEW asset \in Asset
       PROVE  wallet'[who][asset] = IF who = tx.payee /\ asset = tx.buys
                                    THEN wallet[who][asset] + fill.got
                                    ELSE wallet[who][asset]
  <2> DEFINE paid == Debit(wallet, Sender, tx.sells, fill.spent)
  <2>1. paid \in Wallets  BY <1>2, <1>13, <1>15, <1>16, WalletDebited
  <2>2. paid[who][asset] = wallet[who][asset]
    BY <1>2, <1>15 DEF Debit, Wallets
  <2> HIDE DEF paid
  <2>3. Credit(paid, tx.payee, tx.buys, fill.got)[who][asset] =
          IF who = tx.payee /\ asset = tx.buys THEN paid[who][asset] + fill.got
          ELSE paid[who][asset]
    BY <1>15, <1>16, <2>1, CreditAt
  <2> QED  BY <1>13, <2>2, <2>3 DEF paid
<1>18. CASE tx.payee = Sender
  <2>1. \A who \in Account \ {Sender}, asset \in Asset :
          wallet'[who][asset] = wallet[who][asset]
    BY <1>17, <1>18
  <2>2. Untouched => Untouched'  BY <2>1 DEF Untouched
  <2>3. RecipientProtected'
    BY <1>1, <1>4, <1>6, <2>1 DEF RecipientProtected
  <2>4. Outward' # {} => Untouched'  BY <1>11, <1>12, <2>2
  <2>5. cursor' < Len(Spans') => Untouched' /\ Outward' = {}
    BY <1>4, <1>6, <1>11, <1>12, <2>2
  <2> QED  BY <1>3, <1>4, <1>5, <1>6, <1>12, <2>3, <2>4, <2>5 DEF ProtectedInv
<1>19. CASE tx.payee # Sender
  <2>1. k \in Outward  BY <1>19 DEF Outward, tx
  <2>2. /\ Untouched /\ ~(cursor < Len(Spans)) /\ Outward' = {}
        /\ tx.payee = request.recipient /\ tx.buys = Edge(Len(request.pools))
        /\ tx.minOut >= Guarantee
    <3>1. Outward' = {}  BY <1>8, <1>11, <2>1
    <3> QED  BY <1>11, <2>1, <3>1 DEF tx
  <2>3. cursor = Len(Spans)
    BY <1>1, <1>3, <2>2 DEF TypeInv, TypeOK, PlanShape
  <2>4. RecipientProtected'
    <3> SUFFICES ASSUME NEW who \in Account \ {Sender}, NEW asset \in Asset,
                        wallet'[who][asset] # Savings
                 PROVE  /\ who = request'.recipient
                        /\ asset = Edge(Len(request.pools))'
                        /\ cursor' = Len(Spans')
                        /\ wallet'[who][asset] >= Savings + Guarantee'
      BY DEF RecipientProtected
    <3>1. wallet[who][asset] = Savings  BY <2>2 DEF Untouched
    <3>2. who = tx.payee /\ asset = tx.buys  BY <1>17, <3>1
    <3>3. wallet'[who][asset] = Savings + fill.got  BY <1>17, <3>1, <3>2
    <3>4. Guarantee \in Nat /\ Savings \in Nat
      BY <1>1, <1>3, GuaranteeType, PlanAssumption
    <3>5. wallet'[who][asset] >= Savings + Guarantee
      BY <1>15, <1>16, <2>2, <3>3, <3>4
    <3> QED  BY <1>4, <1>6, <2>2, <2>3, <3>2, <3>5
  <2> QED  BY <1>3, <1>4, <1>5, <1>6, <2>2, <2>4 DEF ProtectedInv
<1> QED  BY <1>18, <1>19

(* Whatever amounts a caller passes as observed, and whenever it calls, an *)
(* account other than the sender is only ever paid by the final span: the  *)
(* recipient, in the route's output asset, no less than the guarantee      *)
(* (resolve_span_recipient and the min_out of next_tx, plan.rs).           *)
THEOREM RecipientProtectedAlways == CarelessSpec => []RecipientProtected
<1>1. ProtectedInv /\ [CarelessNext]_vars => ProtectedInv'
  <2> SUFFICES ASSUME ProtectedInv, [CarelessNext]_vars PROVE ProtectedInv'
    OBVIOUS
  <2>1. CASE MakePlan  BY <2>1, MakePlanProtected
  <2>2. CASE Fund  BY <2>2, FundProtected
  <2>3. CASE CarelessNextTx  BY <2>3, NextTxProtected DEF CarelessNextTx
  <2>4. CASE SettleSome  BY <2>4, SettleProtected DEF SettleSome
  <2>5. CASE UNCHANGED vars
    <3>1. TypeInv' /\ PlanTrue'
      BY <2>5, IdleType, KeepPlanTrue DEF ProtectedInv, vars
    <3>2. /\ Untouched' = Untouched /\ Outward' = Outward /\ Spans' = Spans
          /\ Guarantee' = Guarantee
          /\ Edge(Len(request.pools))' = Edge(Len(request.pools))
          /\ RecipientProtected' = RecipientProtected
      BY <2>5 DEF vars, Untouched, Outward, Spans, Guarantee, Edge, RecipientProtected
    <3> QED  BY <2>5, <3>1, <3>2 DEF ProtectedInv, vars
  <2> QED  BY <2>1, <2>2, <2>3, <2>4, <2>5 DEF CarelessNext
<1>2. ProtectedInv => RecipientProtected  BY DEF ProtectedInv
<1> QED  BY <1>1, <1>2, InitProtected, PTL DEF CarelessSpec

(* Spending.  SpendsInputOnce is not inductive: next to what has been      *)
(* taken, what may still take the input counts, and before the first       *)
(* transaction is emitted there is neither.                                *)
Leaves == \A i \in 1..Len(request.pools) : Edge(i) # Edge(0)
Taking == {k \in 1..Len(pending) : pending[k].sells = Edge(0)}
Took == {k \in 1..Legs : receipts[k].tx.sells = Edge(0)}
OnceInv ==
  /\ TypeInv
  /\ phase # "Funded" => pending = <<>> /\ receipts = <<>>
  /\ phase = "Funded" /\ Leaves =>
       /\ cursor = 0 => Taking = {} /\ Took = {}
       /\ Taking = {} \/ Took = {}
       /\ \A j, k \in Taking : j = k
       /\ \A k \in Taking : pending[k].amountIn = FirstInput
       /\ \A j, k \in Took : j = k
       /\ \A k \in Took : receipts[k].spent <= FirstInput

LEMMA OnceIsOnce == OnceInv => SpendsInputOnce
<1> SUFFICES ASSUME OnceInv, phase = "Funded", Leaves,
                    NEW j \in 1..Legs, NEW k \in 1..Legs,
                    receipts[j].tx.sells = Edge(0), receipts[k].tx.sells = Edge(0)
             PROVE  j = k /\ receipts[j].spent <= FirstInput
  BY DEF SpendsInputOnce, Leaves
<1>1. j \in Took /\ k \in Took  BY DEF Took
<1> QED  BY <1>1 DEF OnceInv

LEMMA InitOnce == Init => OnceInv
BY InitType DEF Init, OnceInv

LEMMA MakePlanOnce == ASSUME OnceInv, MakePlan PROVE OnceInv'
<1>1. TypeInv'  BY MakePlanType DEF OnceInv
<1>2. phase = "Asked" /\ phase' # "Funded" /\ UNCHANGED <<pending, receipts>>
  BY DEF MakePlan
<1> QED  BY <1>1, <1>2 DEF OnceInv

LEMMA FundOnce == ASSUME OnceInv, Fund PROVE OnceInv'
<1>1. TypeInv'  BY FundType DEF OnceInv
<1>2. phase = "Planned" /\ phase' = "Funded" /\ UNCHANGED <<pending, receipts>>
  BY DEF Fund
<1>3. pending' = <<>> /\ receipts' = <<>>  BY <1>2 DEF OnceInv
<1>4. Taking' = {} /\ Took' = {}
  <2>1. Len(pending') = 0 /\ Len(receipts') = 0  BY <1>3
  <2> QED  BY <2>1 DEF Taking, Took, Legs
<1> QED  BY <1>1, <1>2, <1>4 DEF OnceInv

LEMMA NextTxOnce ==
  ASSUME OnceInv, NEW observed \in Amount \cup {None}, NextTx(observed)
  PROVE  OnceInv'
<1>1. phase = "Funded" /\ UNCHANGED <<request, phase, plan, receipts, wallet, clock>>
  BY DEF NextTx
<1>2. TypeInv  BY DEF OnceInv
<1>3. TypeInv'  BY <1>2, NextTxType
<1>4. /\ Leaves' = Leaves /\ Took' = Took /\ FirstInput' = FirstInput
      /\ Edge(0)' = Edge(0)
  BY <1>1 DEF Leaves, Took, Legs, FirstInput, Edge
<1>5. CASE ~Emit(observed)
  <2>1. UNCHANGED <<cursor, pending>>
    BY <1>5 DEF NextTx, Exhausted, MissingObserved, BuildFails
  <2>2. Taking' = Taking  BY <1>4, <2>1 DEF Taking
  <2> QED  BY <1>1, <1>3, <1>4, <2>1, <2>2 DEF OnceInv
<1>6. CASE Emit(observed)
  <2> DEFINE tx == Prepared(SpanCall(observed), plan.strict, request.deadline)
             last == Len(pending) + 1
  <2>1. /\ cursor < Len(Spans) /\ pending' = Append(pending, tx)
        /\ cursor' = cursor + 1
    BY <1>6 DEF Emit, Buildable
  <2>2. /\ pending \in Seq(Tx) /\ Len(pending) \in Nat /\ cursor \in Nat
    BY <1>1, <1>2 DEF TypeInv, TypeOK
  <2>3. /\ tx.sells = Edge(Current.start)
        /\ tx.amountIn = IF plan.strict THEN plan.maxIn ELSE SpanAmount(observed)
    BY <1>1, <1>2, <2>1, Emitted
  <2>4. cursor = 0 => tx.amountIn = FirstInput
    BY <2>3 DEF FirstInput, SpanAmount
  <2>5. Leaves /\ cursor # 0 => tx.sells # Edge(0)
    <3>1. cursor # 0 => Current.start \in 1..Len(request.pools)
      <4>1. /\ Current.start \in Nat /\ Current.end \in Nat
            /\ Current.start < Current.end /\ Current.end <= Len(request.pools)
            /\ Len(request.pools) \in Nat
        BY <1>1, <1>2, <2>1, CurrentSpan DEF TypeInv, PlanShape
      <4>2. Current.start = 0 <=> cursor = 0  BY <1>1, <1>2, <2>1, SpanEnds
      <4> QED  BY <4>1, <4>2
    <3> QED  BY <2>3, <3>1 DEF Leaves
  <2> HIDE DEF tx
  <2>6. /\ Len(pending') = last /\ pending'[last] = tx
        /\ \A k \in 1..Len(pending) : pending'[k] = pending[k]
        /\ 1..last = 1..Len(pending) \cup {last} /\ last \notin 1..Len(pending)
    BY <2>1, <2>2
  <2>7. Taking' = Taking \cup {k \in {last} : tx.sells = Edge(0)}
    <3> HIDE DEF last
    <3> QED  BY <1>4, <2>6 DEF Taking
  <2>8. cursor' # 0  BY <2>1, <2>2
  <2>9. ASSUME Leaves, cursor = 0 PROVE OnceInv'
    <3>1. Taking = {} /\ Took = {}  BY <1>1, <2>9 DEF OnceInv
    <3>2. \A k \in Taking' : k = last  BY <2>7, <3>1
    <3>3. \A k \in Taking' : pending'[k].amountIn = FirstInput
      BY <2>4, <2>6, <2>9, <3>2
    <3> QED  BY <1>1, <1>3, <1>4, <2>8, <3>1, <3>2, <3>3 DEF OnceInv
  <2>10. ASSUME Leaves, cursor # 0 PROVE OnceInv'
    <3>1. Taking' = Taking  BY <2>5, <2>7, <2>10
    <3>2. \A k \in Taking : pending'[k] = pending[k]  BY <2>6 DEF Taking
    <3> QED  BY <1>1, <1>3, <1>4, <2>8, <2>10, <3>1, <3>2 DEF OnceInv
  <2>11. ASSUME ~Leaves PROVE OnceInv'
    BY <1>1, <1>3, <1>4, <2>11 DEF OnceInv
  <2> QED  BY <2>9, <2>10, <2>11
<1> QED  BY <1>5, <1>6

LEMMA SettleOnce ==
  ASSUME OnceInv, NEW k \in 1..Len(pending), Settle(k)
  PROVE  OnceInv'
<1> DEFINE tx == pending[k]
           was(i) == IF i < k THEN i ELSE i + 1
           next == Legs + 1
<1>1. TypeInv  BY DEF OnceInv
<1>2. /\ pending \in Seq(Tx) /\ Len(pending) \in Nat /\ pending # <<>>
      /\ receipts \in Seq(Receipt) /\ Legs \in Nat
  BY <1>1 DEF TypeInv, TypeOK, Legs
<1>3. phase = "Funded"  BY <1>2 DEF OnceInv
<1>4. /\ UNCHANGED <<request, phase, plan, cursor, answer, clock>>
      /\ pending' = SubSeq(pending, 1, k - 1) \o SubSeq(pending, k + 1, Len(pending))
  BY DEF Settle
<1>5. TypeInv'  BY <1>1, SettleType
<1>6. Leaves' = Leaves /\ FirstInput' = FirstInput /\ Edge(0)' = Edge(0)
  BY <1>4 DEF Leaves, FirstInput, Edge
<1>7. CASE ~Leaves  BY <1>3, <1>4, <1>5, <1>6, <1>7 DEF OnceInv
<1>8. CASE Leaves
  <2>1. /\ cursor = 0 => Taking = {} /\ Took = {}
        /\ Taking = {} \/ Took = {}
        /\ \A i, j \in Taking : i = j
        /\ \A i \in Taking : pending[i].amountIn = FirstInput
        /\ \A i, j \in Took : i = j
        /\ \A i \in Took : receipts[i].spent <= FirstInput
    BY <1>3, <1>8 DEF OnceInv
  <2>2. /\ Len(pending') = Len(pending) - 1
        /\ \A i \in 1..Len(pending') : pending'[i] = pending[was(i)]
    BY <1>2, <1>4, Removed
  <2>3. ASSUME NEW i \in Taking'
        PROVE  was(i) \in Taking /\ was(i) # k /\ pending'[i] = pending[was(i)]
    <3>1. i \in 1..Len(pending') /\ pending'[i].sells = Edge(0)
      BY <1>6 DEF Taking
    <3>2. was(i) \in 1..Len(pending) /\ was(i) # k  BY <1>2, <2>2, <3>1
    <3>3. pending'[i] = pending[was(i)]  BY <2>2, <3>1
    <3> HIDE DEF was
    <3> QED  BY <3>1, <3>2, <3>3 DEF Taking
  <2>4. \A i, j \in Nat : was(i) = was(j) => i = j  OBVIOUS
  <2>5. \A i \in Taking' : i \in Nat  BY DEF Taking
  <2> HIDE DEF was
  <2>6. /\ \A i, j \in Taking' : i = j
        /\ \A i \in Taking' : pending'[i].amountIn = FirstInput
        /\ Taking = {} => Taking' = {}
    BY <2>1, <2>3, <2>4, <2>5
  <2>7. PICK fill \in Fills(tx) :
          receipts' = Append(receipts, [tx |-> tx, got |-> fill.got,
                                        spent |-> fill.spent])
    BY DEF Settle
  <2>8. tx \in Tx  BY <1>2
  <2>9. fill.spent <= tx.amountIn  BY <2>8, FillsType
  <2>10. tx.sells = Edge(0) <=> k \in Taking  BY DEF Taking
  <2>11. k \in Taking => tx.amountIn = FirstInput  BY <2>1
  <2> HIDE DEF tx
  <2>12. /\ Legs' = next /\ receipts'[next].tx = tx /\ receipts'[next].spent = fill.spent
         /\ \A i \in 1..Legs : receipts'[i] = receipts[i]
         /\ 1..next = 1..Legs \cup {next}
    BY <1>2, <2>7 DEF Legs
  <2>13. Took' = Took \cup {i \in {next} : tx.sells = Edge(0)}
    <3> HIDE DEF next
    <3> QED  BY <1>6, <2>12 DEF Took
  <2>14. CASE k \in Taking
    <3>1. Took = {} /\ Taking' = {} /\ cursor # 0
      BY <2>1, <2>3, <2>14
    <3>2. \A i \in Took' : i = next  BY <2>13, <3>1
    <3>3. \A i \in Took' : receipts'[i].spent <= FirstInput
      BY <2>9, <2>11, <2>12, <2>14, <3>2
    <3> QED  BY <1>3, <1>4, <1>5, <1>6, <3>1, <3>2, <3>3 DEF OnceInv
  <2>15. CASE k \notin Taking
    <3>1. Took' = Took  BY <2>10, <2>13, <2>15
    <3>2. \A i \in Took : receipts'[i] = receipts[i]  BY <2>12 DEF Took
    <3> QED  BY <1>3, <1>4, <1>5, <1>6, <2>1, <2>6, <3>1, <3>2 DEF OnceInv
  <2> QED  BY <2>14, <2>15
<1> QED  BY <1>7, <1>8

(* The route's input is spent once, however next_tx was called: on a route *)
(* that does not come back to its first asset, one settled transaction     *)
(* takes it, and no more than the plan's input or ceiling (the cursor of   *)
(* next_tx and resolve_span_amount, plan.rs).                              *)
THEOREM SpendsInputOnceAlways == CarelessSpec => []SpendsInputOnce
<1>1. OnceInv /\ [CarelessNext]_vars => OnceInv'
  <2> SUFFICES ASSUME OnceInv, [CarelessNext]_vars PROVE OnceInv'
    OBVIOUS
  <2>1. CASE MakePlan  BY <2>1, MakePlanOnce
  <2>2. CASE Fund  BY <2>2, FundOnce
  <2>3. CASE CarelessNextTx  BY <2>3, NextTxOnce DEF CarelessNextTx
  <2>4. CASE SettleSome  BY <2>4, SettleOnce DEF SettleSome
  <2>5. CASE UNCHANGED vars
    <3>1. TypeInv'  BY <2>5, IdleType DEF OnceInv
    <3>2. /\ Leaves' = Leaves /\ Taking' = Taking /\ Took' = Took
          /\ FirstInput' = FirstInput
      BY <2>5 DEF vars, Leaves, Taking, Took, Legs, FirstInput, Edge
    <3> QED  BY <2>5, <3>1, <3>2 DEF OnceInv, vars
  <2> QED  BY <2>1, <2>2, <2>3, <2>4, <2>5 DEF CarelessNext
<1> QED  BY <1>1, InitOnce, OnceIsOnce, PTL DEF CarelessSpec

-----------------------------------------------------------------------------
(* What a driven plan delivers.                                            *)

(* Delivery.  DeliversAsAgreed is not inductive: the floor of the last     *)
(* transaction under way must be what the plan owes.                       *)
Owing ==
  phase = "Funded" /\ pending # <<>> /\ cursor = Len(Spans) =>
    /\ pending[1].minOut >= Guarantee
    /\ plan.strict => pending[1].minOut = request.amount
DeliverInv == CustodyInv /\ PlanTrue /\ Owing /\ DeliversAsAgreed

(* Before the funds are there, and after the first of several spans,       *)
(* nothing has been delivered.                                             *)
LEMMA NotDelivered ==
  ASSUME CustodyInv
  PROVE  /\ phase # "Funded" => ~Delivered
         /\ phase = "Funded" =>
              /\ Len(Spans) \in Nat \ {0} /\ Legs \in Nat /\ Len(pending) \in Nat
              /\ cursor = Legs + Len(pending) /\ cursor <= Len(Spans)
         /\ pending # <<>> => phase = "Funded" /\ Len(pending) = 1 /\ ~Delivered
         /\ Delivered => pending = <<>>
<1>1. /\ phase # "Funded" => pending = <<>>
      /\ pending \in Seq(Tx) /\ receipts \in Seq(Receipt)
  BY DEF CustodyInv, Settled, TypeInv, TypeOK
<1>2. Len(pending) \in Nat /\ Legs \in Nat /\ (pending # <<>> => Len(pending) # 0)
      /\ (Len(pending) = 0 => pending = <<>>)
  BY <1>1 DEF Legs
<1>3. ASSUME phase = "Funded"
      PROVE  /\ Len(Spans) \in Nat \ {0} /\ cursor = Legs + Len(pending)
             /\ Len(pending) <= 1 /\ cursor <= Len(Spans)
  <2>1. /\ cursor = Legs + Len(pending) /\ Len(pending) <= 1
        /\ cursor \in 0..Len(Spans)
    BY <1>3 DEF CustodyInv, InStep, TypeInv, TypeOK
  <2>2. Spans \in Seq(Span) /\ IsPartition(request.pools, Spans, Len(request.pools))
        /\ Len(request.pools) \in Nat \ {0}
    BY <1>3 DEF CustodyInv, TypeInv, PlanShape
  <2>3. Spans # <<>>  BY <2>2 DEF IsPartition, GapFree
  <2> QED  BY <2>1, <2>2, <2>3
<1>4. ASSUME pending # <<>>
      PROVE  phase = "Funded" /\ Len(pending) = 1 /\ ~Delivered
  <2>1. phase = "Funded"  BY <1>1, <1>4
  <2>2. \A m, n, c, l \in Nat :
          m # 0 /\ m <= 1 /\ c = l + m /\ c <= n => m = 1 /\ l # n
    OBVIOUS
  <2>3. /\ Len(pending) \in Nat /\ Len(pending) # 0 /\ Len(pending) <= 1
        /\ Len(Spans) \in Nat /\ Legs \in Nat /\ cursor \in Nat
        /\ cursor = Legs + Len(pending) /\ cursor <= Len(Spans)
    <3>1. cursor \in Nat  BY <2>1 DEF CustodyInv, TypeInv, TypeOK
    <3> QED  BY <1>2, <1>3, <1>4, <2>1, <3>1
  <2>4. Len(pending) = 1 /\ Legs # Len(Spans)  BY <2>2, <2>3
  <2> QED  BY <2>1, <2>4 DEF Delivered
<1>5. phase # "Funded" => ~Delivered  BY DEF Delivered
<1> QED  BY <1>2, <1>3, <1>4, <1>5

LEMMA InitDeliver == Init => DeliverInv
<1> SUFFICES ASSUME Init PROVE DeliverInv
  OBVIOUS
<1>1. phase # "Funded"  BY DEF Init
<1>2. PlanTrue /\ Owing /\ DeliversAsAgreed
  BY <1>1 DEF Init, PlanTrue, Owing, DeliversAsAgreed, Delivered
<1> QED  BY <1>2, InitCustody DEF DeliverInv

LEMMA QuietDeliver ==
  ASSUME DeliverInv, MakePlan \/ Fund PROVE DeliverInv'
<1>1. CustodyInv' /\ PlanTrue'
  BY MakePlanCustody, FundCustody, MakePlanTrue, KeepPlanTrue DEF DeliverInv, Fund
<1>2. phase # "Funded" /\ UNCHANGED <<pending, receipts>>  BY DEF MakePlan, Fund
<1>3. pending' = <<>> /\ receipts' = <<>>
  BY <1>2 DEF DeliverInv, CustodyInv, Settled
<1>4. Owing'  BY <1>3 DEF Owing
<1>5. ~Delivered'
  <2>1. Legs' = 0  BY <1>3 DEF Legs
  <2>2. ASSUME phase' = "Funded" PROVE Len(Spans') # 0
    <3>1. Fund /\ phase = "Planned" /\ plan' = plan /\ request' = request
      BY <2>2 DEF MakePlan, Fund
    <3>2. Spans \in Seq(Span) /\ IsPartition(request.pools, Spans, Len(request.pools))
          /\ Len(request.pools) \in Nat \ {0}
      BY <3>1 DEF DeliverInv, CustodyInv, TypeInv, PlanShape
    <3>3. Spans # <<>>  BY <3>2 DEF IsPartition, GapFree
    <3>4. Spans' = Spans  BY <3>1 DEF Spans
    <3> QED  BY <3>2, <3>3, <3>4
  <2> QED  BY <2>1, <2>2 DEF Delivered
<1>6. DeliversAsAgreed'  BY <1>5 DEF DeliversAsAgreed
<1> QED  BY <1>1, <1>4, <1>6 DEF DeliverInv

LEMMA NextTxDeliver ==
  ASSUME DeliverInv, DrivenNextTx PROVE DeliverInv'
<1>1. CustodyInv /\ TypeInv /\ PlanTrue /\ DeliversAsAgreed
  BY DEF DeliverInv, CustodyInv
<1>2. CustodyInv'  BY <1>1, NextTxCustody
<1>3. pending = <<>> /\ NextTx(Measured)  BY DEF DrivenNextTx
<1>4. phase = "Funded" /\ UNCHANGED <<request, phase, plan, receipts, wallet, clock>>
  BY <1>3 DEF NextTx
<1>5. PlanTrue'  BY <1>1, <1>4, KeepPlanTrue
<1>6. Spans' = Spans /\ Guarantee' = Guarantee /\ Latest' = Latest /\ Legs' = Legs
  BY <1>4 DEF Spans, Guarantee, Latest, Legs
<1>7. DeliversAsAgreed'
  BY <1>1, <1>4, <1>6 DEF DeliversAsAgreed, Delivered
<1>8. CASE ~Emit(Measured)
  <2>1. UNCHANGED <<cursor, pending>>
    BY <1>3, <1>8 DEF NextTx, Exhausted, MissingObserved, BuildFails
  <2>2. Owing'  BY <1>3, <2>1 DEF Owing
  <2> QED  BY <1>2, <1>5, <1>7, <2>2 DEF DeliverInv
<1>9. CASE Emit(Measured)
  <2> DEFINE tx == Prepared(SpanCall(Measured), plan.strict, request.deadline)
  <2>1. /\ cursor < Len(Spans) /\ pending' = Append(pending, tx)
        /\ cursor' = cursor + 1
    BY <1>9 DEF Emit, Buildable
  <2>2. tx.minOut = IF plan.strict THEN request.amount ELSE SpanFloor
    BY <1>1, <1>4, <2>1, Emitted
  <2>3. IsFinal => tx.minOut >= Guarantee
    BY <1>1, <1>4, <2>1, <2>2, FinalFloor
  <2> HIDE DEF tx
  <2>4. pending'[1] = tx  BY <1>3, <2>1
  <2>5. cursor' = Len(Spans') => IsFinal  BY <1>6, <2>1 DEF IsFinal
  <2>6. Owing'  BY <1>4, <1>6, <2>2, <2>3, <2>4, <2>5 DEF Owing
  <2> QED  BY <1>2, <1>5, <1>7, <2>6 DEF DeliverInv
<1> QED  BY <1>8, <1>9

(* What settling the transaction under way does to the trade.              *)
LEMMA SettledLeg ==
  ASSUME DeliverInv, NEW k \in 1..Len(pending), Settle(k)
  PROVE  /\ phase = "Funded" /\ pending' = <<>> /\ cursor = Legs + 1 /\ Legs' = Legs + 1
         /\ UNCHANGED <<request, phase, plan, cursor>>
         /\ Latest'.tx = pending[1] /\ Latest'.got \in Amount
         /\ Latest'.got >= pending[1].minOut
         /\ plan.strict => Latest'.got = pending[1].minOut
         /\ Latest'.spent \in Nat /\ Latest'.spent <= pending[1].amountIn
<1>1. CustodyInv  BY DEF DeliverInv
<1>2. /\ pending \in Seq(Tx) /\ Len(pending) \in Nat /\ pending # <<>>
      /\ receipts \in Seq(Receipt) /\ Legs \in Nat
  BY <1>1 DEF CustodyInv, TypeInv, TypeOK, Legs
<1>3. phase = "Funded" /\ Len(pending) = 1 /\ cursor = Legs + 1
  BY <1>1, <1>2, NotDelivered
<1>4. k = 1  BY <1>3
<1>5. /\ UNCHANGED <<request, phase, plan, cursor>>
      /\ pending' = SubSeq(pending, 1, k - 1) \o SubSeq(pending, k + 1, Len(pending))
  BY DEF Settle
<1>6. pending' = <<>>
  <2>1. pending' \in Seq(Tx) /\ Len(pending') = Len(pending) - 1
    BY <1>2, <1>5, Removed
  <2> QED  BY <1>3, <2>1
<1> DEFINE tx == pending[1]
<1>7. tx \in Tx /\ tx.exactOut = plan.strict
  BY <1>1, <1>2, <1>3 DEF CustodyInv, Settled
<1>8. PICK fill \in Fills(tx) :
        receipts' = Append(receipts, [tx |-> tx, got |-> fill.got,
                                      spent |-> fill.spent])
  BY <1>4 DEF Settle
<1>9. /\ fill.got \in Amount /\ fill.spent \in Nat /\ fill.spent <= tx.amountIn
      /\ fill.got >= tx.minOut /\ (plan.strict => fill.got = tx.minOut)
  BY <1>7, FillsType, FillsPay, MaxRawAssumption DEF Amount
<1> HIDE DEF tx
<1>10. /\ Legs' = Legs + 1 /\ Latest'.tx = tx /\ Latest'.got = fill.got
       /\ Latest'.spent = fill.spent
  BY <1>2, <1>8 DEF Legs, Latest
<1> QED  BY <1>3, <1>5, <1>6, <1>9, <1>10 DEF tx

LEMMA SettleDeliver ==
  ASSUME DeliverInv, NEW k \in 1..Len(pending), Settle(k)
  PROVE  DeliverInv'
<1>1. CustodyInv /\ TypeInv /\ PlanTrue /\ Owing /\ pending # <<>>
  BY DEF DeliverInv, CustodyInv, TypeInv, TypeOK
<1>2. CustodyInv'  BY <1>1, SettleCustody
<1>3. /\ phase = "Funded" /\ pending' = <<>> /\ cursor = Legs + 1 /\ Legs' = Legs + 1
      /\ UNCHANGED <<request, phase, plan, cursor>>
      /\ Latest'.got \in Amount /\ Latest'.got >= pending[1].minOut
      /\ plan.strict => Latest'.got = pending[1].minOut
      /\ Latest'.spent \in Nat /\ Latest'.spent <= pending[1].amountIn
  BY SettledLeg
<1>4. PlanTrue' /\ Owing'  BY <1>1, <1>3, KeepPlanTrue DEF Owing
<1>5. Spans' = Spans /\ Guarantee' = Guarantee  BY <1>3 DEF Spans, Guarantee
<1>6. ASSUME Delivered'
      PROVE  /\ Latest'.got >= Guarantee
             /\ plan.strict =>
                  /\ Latest'.got = request.amount
                  /\ Latest'.spent <= MaxAmountIn(plan.amounts[0], request.tol)
  <2>1. cursor = Len(Spans)  BY <1>3, <1>5, <1>6 DEF Delivered
  <2>2. /\ pending[1].minOut >= Guarantee
        /\ plan.strict => pending[1].minOut = request.amount
    BY <1>1, <1>3, <2>1 DEF Owing
  <2>3. Guarantee \in Nat  BY <1>1, <1>3, GuaranteeType
  <2>4. pending[1].minOut \in Nat /\ Latest'.got \in Nat
    <3>1. pending[1] \in Tx  BY <1>1, <1>3, NotDelivered DEF TypeInv, TypeOK
    <3> QED  BY <1>3, <3>1, MaxRawAssumption DEF Tx, Amount
  <2>5. Latest'.got >= Guarantee  BY <1>3, <2>2, <2>3, <2>4
  <2>6. ASSUME plan.strict
        PROVE  Latest'.spent <= MaxAmountIn(plan.amounts[0], request.tol)
    <3>1. Legs = 0
      <4>1. Len(Spans) = 1  BY <1>1, <1>3, <2>6 DEF TypeInv, PlanShape
      <4>2. Legs \in Nat  BY <1>1, <1>3, NotDelivered
      <4> QED  BY <1>3, <2>1, <4>1, <4>2
    <3>2. pending[1].amountIn = FirstInput
      BY <1>1, <1>3, <3>1 DEF CustodyInv, InStep
    <3>3. FirstInput = MaxAmountIn(plan.amounts[0], request.tol)
      BY <1>1, <1>3, <2>6 DEF FirstInput, PlanTrue
    <3> QED  BY <1>3, <3>2, <3>3
  <2> QED  BY <1>3, <2>2, <2>5, <2>6
<1>7. DeliversAsAgreed'
  BY <1>3, <1>5, <1>6 DEF DeliversAsAgreed
<1> QED  BY <1>2, <1>4, <1>7 DEF DeliverInv

LEMMA IdleDeliver ==
  ASSUME DeliverInv, Tick \/ UNCHANGED vars PROVE DeliverInv'
<1>1. CustodyInv'  BY IdleCustody DEF DeliverInv
<1>2. UNCHANGED <<request, phase, plan, cursor, answer, pending, receipts, wallet>>
  BY DEF Tick, vars
<1>3. PlanTrue' /\ Owing' = Owing /\ DeliversAsAgreed' = DeliversAsAgreed
  BY <1>2, KeepPlanTrue
     DEF DeliverInv, Owing, DeliversAsAgreed, Delivered, Legs, Latest, Spans, Guarantee
<1> QED  BY <1>1, <1>3 DEF DeliverInv

(* The delivery invariant is inductive.                                    *)
THEOREM DeliverAlways == Spec => []DeliverInv
<1>1. DeliverInv /\ [Next]_vars => DeliverInv'
  <2> SUFFICES ASSUME DeliverInv, [Next]_vars PROVE DeliverInv'
    OBVIOUS
  <2>1. CASE MakePlan \/ Fund  BY <2>1, QuietDeliver
  <2>2. CASE DrivenNextTx  BY <2>2, NextTxDeliver
  <2>3. CASE SettleSome  BY <2>3, SettleDeliver DEF SettleSome
  <2>4. CASE Tick \/ UNCHANGED vars  BY <2>4, IdleDeliver
  <2> QED  BY <2>1, <2>2, <2>3, <2>4 DEF Next
<1> QED  BY <1>1, InitDeliver, PTL DEF Spec

(* A completed trade delivered what was agreed, whatever the route, the    *)
(* quotes, the tolerance and the fills: guarding every span with its own   *)
(* share of the tolerance guards the whole route, and a strict plan pays   *)
(* its target for no more than its ceiling (min_out and amount_in_max of   *)
(* next_tx, plan.rs).                                                      *)
THEOREM DeliversAsAgreedAlways == Spec => []DeliversAsAgreed
<1>1. DeliverInv => DeliversAsAgreed  BY DEF DeliverInv
<1> QED  BY <1>1, DeliverAlways, PTL

-----------------------------------------------------------------------------
(* A driven plan implements SwapPromise: funding it puts the input in,     *)
(* settling a span relays what is held, settling the last one delivers it, *)
(* and every other step stutters.                                          *)

LEMMA PromisedType ==
  ASSUME TypeInv, phase \in {"Planned", "Funded"}
  PROVE  Promised \in Promise!Promised /\ Promised # None
<1> DEFINE n == Len(request.pools)
<1>1. /\ n \in Nat /\ plan.amounts \in [0..n -> Amount] /\ plan.strict \in BOOLEAN
      /\ request.amount \in Amount /\ request.tol \in Nat
      /\ request.recipient \in Account
  BY DEF TypeInv, PlanShape, TypeOK, PlanRecord, Request
<1>2. Guarantee \in Amount
  <2>1. plan.amounts[n] \in Amount  BY <1>1
  <2>2. Compound(request.tol, n) \in Nat
    <3>1. Compound(request.tol, n) \in 0..BPS_ONE  BY <1>1, CompoundRange
    <3> QED  BY <3>1, BpsAssumption
  <2>3. MinAmountOut(plan.amounts[n], Compound(request.tol, n)) \in Amount
    BY <2>1, <2>2, GuardsBracket
  <2> QED  BY <1>1, <2>3 DEF Guarantee
<1>3. Edge(n) \in Asset
  <2>1. n \in 0..n  BY <1>1
  <2> QED  BY <2>1, EdgeType
<1>4. (~plan.strict /\ request.priceLimit = {}) \in BOOLEAN  OBVIOUS
<1>5. Promised \in Promise!Promised
  BY <1>1, <1>2, <1>3, <1>4 DEF Promised, Promise!Promised
<1> QED  BY <1>5, PromiseAssumption

LEMMA FundPromise ==
  ASSUME DeliverInv, Fund PROVE Promise!PutIn
<1>1. /\ phase = "Planned" /\ phase' = "Funded"
      /\ UNCHANGED <<request, plan, cursor, answer, pending, receipts, clock>>
  BY DEF Fund
<1>2. TypeInv /\ TypeInv' /\ receipts = <<>> /\ receipts' = <<>>
  <2>1. DeliverInv'  BY QuietDeliver
  <2> QED  BY <1>1, <2>1 DEF DeliverInv, CustodyInv, Settled
<1>3. Legs' = 0  BY <1>2 DEF Legs
<1>4. Promised' = Promised
  BY <1>1 DEF Promised, Guarantee, Edge
<1>5. PromiseOf = None /\ PromiseOf' = Promised' /\ Promised' \in Promise!Promised
  BY <1>1, <1>2, <1>4, PromisedType DEF PromiseOf
<1>6. /\ FirstInput \in Amount /\ Edge(0) \in Asset /\ FirstInput' = FirstInput
      /\ Edge(0)' = Edge(0)
  BY <1>1, <1>2, FirstInputType DEF FirstInput, Edge
<1>7. PurseOf' = [who |-> Sender, asset |-> Edge(0), raw |-> FirstInput, change |-> 0]
  BY <1>1, <1>3, <1>6 DEF PurseOf
<1>8. PurseOf' \in Promise!InHand(TRUE)
  BY <1>6, <1>7 DEF Promise!InHand
<1>9. Delivered = FALSE /\ Delivered' = FALSE
  <2>1. DeliverInv'  BY QuietDeliver
  <2>2. CustodyInv /\ CustodyInv'  BY <2>1 DEF DeliverInv
  <2>3. ~Delivered  BY <1>1, <2>2, NotDelivered
  <2>4. Len(Spans') # 0
    <3>1. Len(Spans) # 0
      <4>1. Spans \in Seq(Span) /\ Len(request.pools) \in Nat \ {0}
            /\ IsPartition(request.pools, Spans, Len(request.pools))
        BY <1>1, <1>2 DEF TypeInv, PlanShape
      <4>2. Spans # <<>>  BY <4>1 DEF IsPartition, GapFree
      <4> QED  BY <4>1, <4>2
    <3>2. Spans' = Spans  BY <1>1 DEF Spans
    <3> QED  BY <3>1, <3>2
  <2>5. ~Delivered'  BY <1>3, <2>4 DEF Delivered
  <2> QED  BY <2>3, <2>5 DEF Delivered
<1> QED  BY <1>4, <1>5, <1>8, <1>9 DEF Promise!PutIn

LEMMA SettlePromise ==
  ASSUME DeliverInv, NEW k \in 1..Len(pending), Settle(k)
  PROVE  Promise!Relay \/ Promise!Deliver
<1> DEFINE tx == pending[1]
           whole == ~plan.strict /\ request.priceLimit = {}
<1>1. CustodyInv /\ TypeInv /\ Settled /\ InStep  BY DEF DeliverInv, CustodyInv
<1>2. DeliverInv' /\ CustodyInv' /\ Settled' /\ DeliversAsAgreed'
  <2>1. DeliverInv'  BY SettleDeliver
  <2> QED  BY <2>1 DEF DeliverInv, CustodyInv
<1>3. /\ phase = "Funded" /\ pending' = <<>> /\ cursor = Legs + 1 /\ Legs' = Legs + 1
      /\ UNCHANGED <<request, phase, plan, cursor>>
      /\ Latest'.tx = tx /\ Latest'.got \in Amount
  BY SettledLeg
<1>4. pending # <<>> /\ pending \in Seq(Tx) /\ Legs \in Nat /\ ~Delivered
      /\ cursor <= Len(Spans) /\ Len(Spans) \in Nat
  <2>1. pending \in Seq(Tx) /\ pending # <<>>  BY <1>1 DEF TypeInv, TypeOK
  <2> QED  BY <1>1, <1>3, <2>1, NotDelivered
<1>5. /\ tx \in Tx
      /\ tx.buys = Edge(Spans[cursor].end)
      /\ tx.payee = IF cursor = Len(Spans) THEN request.recipient ELSE Sender
  <2>1. tx \in Tx  BY <1>4
  <2> QED  BY <1>1, <1>3, <1>4, <2>1 DEF InStep
<1>6. tx.buys \in Asset /\ tx.payee \in Account  BY <1>5 DEF Tx
<1> HIDE DEF tx
<1>7. /\ Spans' = Spans /\ FirstInput' = FirstInput /\ Guarantee' = Guarantee
      /\ Promised' = Promised
  BY <1>3 DEF Spans, FirstInput, Guarantee, Promised, Edge
<1>8. /\ PromiseOf = Promised /\ PromiseOf' = Promised /\ Promised # None
      /\ Promised.whole = whole /\ Promised.exact = plan.strict
      /\ Promised.payee = request.recipient /\ Promised.atLeast = Guarantee
      /\ Promised.asset = Edge(Len(request.pools))
  BY <1>1, <1>3, <1>7, PromisedType DEF PromiseOf, Promised
<1>9. PurseOf' = [who |-> tx.payee, asset |-> tx.buys, raw |-> Latest'.got,
                  change |-> Change']
  BY <1>3, <1>4 DEF PurseOf
<1>10. /\ Change' \in Amount /\ Change' <= FirstInput
       /\ whole => Change' = 0
  <2>1. receipts'[1].spent \in Nat /\ receipts'[1].spent <= FirstInput
        /\ (whole => receipts'[1].spent = FirstInput)
    BY <1>2, <1>3, <1>4, <1>7 DEF Settled
  <2>2. FirstInput \in 0..MaxRaw /\ MaxRaw \in Nat
    BY <1>1, <1>3, FirstInputType, MaxRawAssumption DEF Amount
  <2>3. Change' = FirstInput - receipts'[1].spent  BY <1>7 DEF Change
  <2> HIDE DEF whole
  <2> QED  BY <2>1, <2>2, <2>3 DEF Amount
<1>11. Change' \in IF whole THEN {0} ELSE Amount
  <2> HIDE DEF whole
  <2> QED  BY <1>10
<1>12. CASE cursor # Len(Spans)
  <2>1. tx.payee = Sender  BY <1>5, <1>12
  <2>2. PurseOf' \in Promise!InHand(Promised.whole)
    <3> HIDE DEF whole
    <3> QED  BY <1>3, <1>6, <1>8, <1>9, <1>11, <2>1 DEF Promise!InHand
  <2>3. Delivered = FALSE /\ Delivered' = FALSE
    <3>1. ~Delivered'  BY <1>3, <1>7, <1>12 DEF Delivered
    <3> QED  BY <1>4, <3>1 DEF Delivered
  <2>4. Promise!Relay
    BY <1>8, <2>2, <2>3 DEF Promise!Relay
  <2> QED  BY <2>4
<1>13. CASE cursor = Len(Spans)
  <2>1. tx.payee = request.recipient /\ tx.buys = Edge(Len(request.pools))
    <3>1. GapFree(Spans, Len(request.pools)) /\ Spans # <<>>
      <4>1. IsPartition(request.pools, Spans, Len(request.pools))
        BY <1>1, <1>3 DEF TypeInv, PlanShape
      <4> QED  BY <1>3, <1>4, <1>13, <4>1 DEF IsPartition
    <3>2. Spans[Len(Spans)].end = Len(request.pools)  BY <3>1 DEF GapFree
    <3> QED  BY <1>5, <1>13, <3>2
  <2>2. PurseOf' \in [who : {Promised.payee}, asset : {Promised.asset}, raw : Amount,
                      change : IF Promised.whole THEN {0} ELSE Amount]
    <3> HIDE DEF whole
    <3> QED  BY <1>3, <1>8, <1>9, <1>11, <2>1
  <2>3. Delivered' = TRUE  BY <1>3, <1>7, <1>13 DEF Delivered
  <2>4. Latest'.got >= Guarantee
        /\ (plan.strict => Latest'.got = request.amount /\ Guarantee = request.amount)
    <3>1. Latest'.got >= Guarantee /\ (plan.strict => Latest'.got = request.amount)
      BY <1>2, <1>3, <1>7, <2>3 DEF DeliversAsAgreed
    <3>2. plan.strict => request.exactOut
      BY <1>3, Zenon DEF DeliverInv, PlanTrue, IsStrict
    <3> QED  BY <3>1, <3>2 DEF Guarantee
  <2>5. plan.strict => PurseOf.raw = FirstInput
    <3> SUFFICES ASSUME plan.strict PROVE PurseOf.raw = FirstInput
      OBVIOUS
    <3>1. Len(Spans) = 1  BY <1>1, <1>3 DEF TypeInv, PlanShape
    <3>2. Legs = 0  BY <1>3, <1>4, <1>13, <3>1
    <3> QED  BY <1>3, <3>2 DEF PurseOf
  <2>6. PurseOf'.raw = Latest'.got /\ PurseOf'.change = Change'  BY <1>9
  <2>7. PurseOf'.raw >= Promised.atLeast
        /\ (Promised.exact => /\ PurseOf'.raw = Promised.atLeast
                              /\ PurseOf'.change <= PurseOf.raw)
    BY <1>8, <1>10, <2>4, <2>5, <2>6
  <2>8. Promise!Deliver
    BY <1>4, <1>8, <2>2, <2>3, <2>7 DEF Promise!Deliver
  <2> QED  BY <2>8
<1> QED  BY <1>12, <1>13

LEMMA QuietPromise ==
  ASSUME DeliverInv, MakePlan \/ DrivenNextTx \/ Tick \/ UNCHANGED vars
  PROVE  UNCHANGED <<PromiseOf, PurseOf, Delivered>>
<1>1. CASE MakePlan
  <2>1. phase # "Funded" /\ phase' # "Funded"  BY <1>1 DEF MakePlan
  <2> QED  BY <2>1 DEF PromiseOf, PurseOf, Delivered
<1>2. CASE DrivenNextTx \/ Tick \/ UNCHANGED vars
  <2>1. UNCHANGED <<request, phase, plan, receipts>>
    BY <1>2 DEF DrivenNextTx, NextTx, Tick, vars
  <2> QED  BY <2>1 DEF PromiseOf, PurseOf, Delivered, Promised, Guarantee, Legs,
                       Latest, Change, FirstInput, Spans, Edge
<1> QED  BY <1>1, <1>2

(* A driven plan implements SwapPromise: what the caller put in stays in   *)
(* one piece in its own account until one step turns it into what was      *)
(* promised, in the account of the promised payee (next_tx, plan.rs).      *)
THEOREM PlanKeepsPromise == Spec => KeepsPromise
<1>1. Init => Promise!Init
  BY DEF Init, Promise!Init, PromiseOf, PurseOf, Delivered
<1>2. DeliverInv /\ [Next]_vars => [Promise!Next]_(Promise!vars)
  <2> SUFFICES ASSUME DeliverInv, [Next]_vars
               PROVE  Promise!Next \/ UNCHANGED <<PromiseOf, PurseOf, Delivered>>
    BY DEF Promise!vars
  <2>1. CASE Fund  BY <2>1, FundPromise DEF Promise!Next
  <2>2. CASE SettleSome  BY <2>2, SettlePromise DEF SettleSome, Promise!Next
  <2>3. CASE MakePlan \/ DrivenNextTx \/ Tick \/ UNCHANGED vars
    BY <2>3, QuietPromise
  <2> QED  BY <2>1, <2>2, <2>3 DEF Next
<1> QED  BY <1>1, <1>2, DeliverAlways, PTL DEF Spec, KeepsPromise, Promise!Spec

-----------------------------------------------------------------------------
(* What a plan asks of its pools.  Keeps says of the amounts at the        *)
(* boundaries of a route that a pool which is given the amount before it,  *)
(* or more, quotes the amount after it, or more, if it quotes at all.      *)
Keeps(req, amounts) ==
  \A i \in 1..Len(req.pools), x \in Amount :
    LET out == Quote(req.pools[i], req.path[i], req.path[i + 1], x)
    IN  x >= amounts[i - 1] /\ out # None => out >= amounts[i]

(* The pools, assets and amounts of one hop.                               *)
LEMMA HopIs ==
  ASSUME NEW req, Hops(req), NEW i \in 1..Len(req.pools)
  PROVE  /\ Len(req.pools) \in Nat /\ i \in Nat
         /\ req.pools[i] \in Pool /\ req.path[i] \in Asset /\ req.path[i + 1] \in Asset
         /\ i \in 0..Len(req.pools) /\ i - 1 \in 0..Len(req.pools)
<1>1. Len(req.pools) \in Nat /\ i \in 1..Len(req.path) /\ i + 1 \in 1..Len(req.path)
  BY DEF Hops
<1> QED  BY <1>1 DEF Hops

(* The boundary amounts of a plan keep to each other, whether they were    *)
(* quoted forward or solved backward; and the last one is the target of an *)
(* exact output, or more.                                                  *)
LEMMA PlannedKeeps ==
  ASSUME QuotesGrow, InputsReach, NEW req \in Request, PlanVerdict(req) = "Ok"
  PROVE  /\ Keeps(req, PlanOf(req).amounts)
         /\ req.exactOut => PlanOf(req).amounts[Len(req.pools)] >= req.amount
<1> DEFINE n == Len(req.pools)
           a == PlanOf(req).amounts
           required == QuotePathExactOut(req, req.amount)
<1>1. /\ Hops(req) /\ n \in Nat \ {0} /\ QuoteVerdict(req) = "Ok"
      /\ req.amount \in Amount /\ req.amount \in MaybeAmount /\ req.exactOut \in BOOLEAN
  BY AcceptedRequest, ValidRoute DEF Request, MaybeAmount
<1>2. a \in [0..n -> Amount]  BY PlanOfType
<1>3. None \notin Amount /\ Amount \subseteq Nat
  BY QuotingAssumption, MaxRawAssumption DEF Amount
<1>4. ASSUME req.exactOut
      PROVE  required \in [0..n -> Amount] /\ required[n] = req.amount
             /\ Keeps(req, required)
  <2>1. Quoted(required)
    BY <1>1, <1>4 DEF QuoteVerdict, ExactOutError, Reject
  <2>2. /\ required \in [0..n -> MaybeAmount] /\ required[n] = req.amount
        /\ \A i \in 1..n : required[i - 1] # None =>
             /\ req.pools[i] \in HasExactOut /\ required[i] # None
             /\ required[i - 1] = QuoteExactOut(req.pools[i], req.path[i],
                                                req.path[i + 1], required[i])
    BY <1>1, QuotePathExactOutType
  <2> HIDE DEF required, n
  <2>3. required \in [0..n -> Amount]
    BY <2>1, <2>2 DEF Quoted, MaybeAmount
  <2>4. ASSUME NEW i \in 1..n, NEW x \in Amount,
               x >= required[i - 1],
               Quote(req.pools[i], req.path[i], req.path[i + 1], x) # None
        PROVE  Quote(req.pools[i], req.path[i], req.path[i + 1], x) >= required[i]
    <3>1. /\ req.path[i] \in Asset /\ req.path[i + 1] \in Asset
          /\ i \in 0..n /\ i - 1 \in 0..n
      BY <1>1, HopIs DEF n
    <3>2. required[i] \in Amount /\ required[i - 1] \in Amount /\ required[i - 1] # None
      BY <1>3, <2>3, <3>1
    <3>3. /\ req.pools[i] \in HasExactOut
          /\ required[i - 1] = QuoteExactOut(req.pools[i], req.path[i],
                                             req.path[i + 1], required[i])
      BY <2>2, <3>2
    <3> QED  BY <2>4, <3>1, <3>2, <3>3 DEF InputsReach
  <2> QED  BY <2>2, <2>3, <2>4 DEF Keeps, n
<1>5. CASE req.exactOut /\ req.strict
  <2>1. a = required  BY <1>5 DEF PlanOf, IsStrict
  <2>2. Keeps(req, required) /\ required[n] = req.amount  BY <1>4, <1>5
  <2> HIDE DEF required
  <2>3. req.amount >= req.amount
    <3>1. req.amount \in Nat  BY <1>1, <1>3
    <3> QED  BY <3>1
  <2> QED  BY <2>1, <2>2, <2>3
<1>6. ASSUME ~(req.exactOut /\ req.strict)
      PROVE  Keeps(req, a) /\ a[0] = IF req.exactOut THEN required[0] ELSE req.amount
  <2> DEFINE start == IF req.exactOut THEN required[0] ELSE req.amount
  <2>1. a = QuotePathAmounts(req, start)  BY <1>6 DEF PlanOf
  <2>2. start \in MaybeAmount
    <3>1. req.exactOut => required[0] \in Amount  BY <1>1, <1>4
    <3> QED  BY <1>1, <3>1 DEF MaybeAmount
  <2> HIDE DEF a, start, n
  <2>3. /\ a[0] = start
        /\ \A i \in 1..n : a[i - 1] # None =>
             a[i] = Quote(req.pools[i], req.path[i], req.path[i + 1], a[i - 1])
    BY <1>1, <2>1, <2>2, QuotePathAmountsType DEF n
  <2>4. ASSUME NEW i \in 1..n, NEW x \in Amount, x >= a[i - 1],
               Quote(req.pools[i], req.path[i], req.path[i + 1], x) # None
        PROVE  Quote(req.pools[i], req.path[i], req.path[i + 1], x) >= a[i]
    <3>1. /\ req.pools[i] \in Pool /\ req.path[i] \in Asset /\ req.path[i + 1] \in Asset
          /\ i \in 0..n /\ i - 1 \in 0..n
      BY <1>1, HopIs DEF n
    <3>2. a[i] \in Amount /\ a[i - 1] \in Amount /\ a[i] # None /\ a[i - 1] # None
      BY <1>2, <1>3, <3>1
    <3>3. a[i] = Quote(req.pools[i], req.path[i], req.path[i + 1], a[i - 1])
      BY <2>3, <3>2
    <3>4. Quote(req.pools[i], req.path[i], req.path[i + 1], x) \in Amount
      BY <2>4, <3>1, QuotingAssumption
    <3>5. a[i - 1] <= x  BY <1>3, <2>4, <3>2
    <3>6. a[i] <= Quote(req.pools[i], req.path[i], req.path[i + 1], x)
      BY <2>4, <3>1, <3>2, <3>3, <3>5 DEF QuotesGrow
    <3> QED  BY <1>3, <3>2, <3>4, <3>6
  <2>5. Keeps(req, a)  BY <2>4 DEF Keeps, n
  <2> QED  BY <2>3, <2>5 DEF start
<1>7. CASE req.exactOut /\ ~req.strict
  <2>1. /\ required \in [0..n -> Amount] /\ required[n] = req.amount
        /\ Keeps(req, required)
    BY <1>4, <1>7
  <2>2. a = QuotePathAmounts(req, required[0])  BY <1>7 DEF PlanOf, IsStrict
  <2>3. required[0] \in MaybeAmount  BY <1>1, <2>1 DEF MaybeAmount
  <2> HIDE DEF a, required, n
  <2>4. /\ a[0] = required[0]
        /\ \A i \in 1..n : a[i - 1] # None =>
             a[i] = Quote(req.pools[i], req.path[i], req.path[i + 1], a[i - 1])
    BY <1>1, <2>2, <2>3, QuotePathAmountsType DEF n
  <2> DEFINE S == {i \in 0..n : a[i] >= required[i]}
  <2>5. 0 \in S
    <3>1. 0 \in 0..n  BY <1>1 DEF n
    <3>2. required[0] \in Nat  BY <1>3, <2>1, <3>1
    <3> QED  BY <2>4, <3>1, <3>2
  <2>6. ASSUME NEW i \in 0..n - 1, i \in S PROVE i + 1 \in S
    <3>1. /\ i + 1 \in 1..n /\ (i + 1) - 1 = i /\ i \in 0..n /\ i + 1 \in 0..n
      BY <1>1 DEF n
    <3>2. a[i] \in Amount /\ a[i + 1] \in Amount /\ a[i] # None /\ a[i + 1] # None
      BY <1>2, <1>3, <3>1 DEF n
    <3>3. a[i + 1] = Quote(req.pools[i + 1], req.path[i + 1], req.path[(i + 1) + 1], a[i])
      BY <2>4, <3>1, <3>2
    <3>4. a[i] >= required[(i + 1) - 1]  BY <2>6, <3>1
    <3>5. a[i + 1] >= required[i + 1]
      BY <2>1, <3>1, <3>2, <3>3, <3>4 DEF Keeps, n
    <3> QED  BY <3>1, <3>5
  <2>7. n \in Nat  BY <1>1 DEF n
  <2>8. 0..n \subseteq S
    <3> HIDE DEF S
    <3> QED  BY <2>5, <2>6, <2>7, BoundedInduction
  <2>9. a[n] >= required[n]  BY <2>7, <2>8
  <2>10. Keeps(req, a)  BY <1>6, <1>7 DEF a
  <2> QED  BY <2>1, <2>9, <2>10 DEF a, n
<1>8. CASE ~req.exactOut
  BY <1>6, <1>8
<1> QED  BY <1>1, <1>5, <1>7, <1>8

(* What a span is quoted, for as much as the plan foresees or for more.    *)
LEMMA SpanKeeps ==
  ASSUME Hops(request), NEW amounts \in [0..Len(request.pools) -> Amount],
         Keeps(request, amounts),
         NEW start \in Nat, NEW end \in Nat, start <= end, end <= Len(request.pools),
         NEW x \in Amount, x >= amounts[start]
  PROVE  LET out == QuoteSpan(start, end, x)
         IN  /\ out \in MaybeAmount
             /\ out # None => out >= amounts[end]
<1> DEFINE N == end - start
           Through(y, i) == IF y = None THEN None
                            ELSE Quote(request.pools[i], request.path[i],
                                       request.path[i + 1], y)
           Is(f) == f = [i \in start..end |->
                          IF i = start THEN x
                          ELSE IF f[i - 1] = None THEN None
                          ELSE Quote(request.pools[i], request.path[i],
                                     request.path[i + 1], f[i - 1])]
           step == [i \in 1..N |-> [y \in MaybeAmount |-> Through(y, start + i)]]
<1>0. N \in Nat /\ Len(request.pools) \in Nat /\ x \in MaybeAmount /\ None \notin Amount
  BY QuotingAssumption DEF Hops, MaybeAmount
<1>1. ASSUME NEW i \in 1..N, NEW y \in MaybeAmount
      PROVE  /\ Through(y, start + i) \in MaybeAmount
             /\ y # None /\ y >= amounts[start + i - 1] /\ Through(y, start + i) # None
                  => Through(y, start + i) >= amounts[start + i]
  <2>1. start + i \in 1..Len(request.pools)  BY <1>0
  <2>2. /\ request.pools[start + i] \in Pool /\ request.path[start + i] \in Asset
        /\ request.path[(start + i) + 1] \in Asset
    BY <2>1, HopIs
  <2>3. CASE y = None  BY <2>3 DEF MaybeAmount
  <2>4. CASE y \in Amount
    <3>1. y # None  BY <1>0, <2>4
    <3>2. Through(y, start + i) \in MaybeAmount
      BY <2>2, <2>4, <3>1, QuotingAssumption DEF MaybeAmount
    <3>3. Through(y, start + i) = Quote(request.pools[start + i], request.path[start + i],
                                        request.path[(start + i) + 1], y)
      BY <3>1
    <3> HIDE DEF Through
    <3>4. y >= amounts[(start + i) - 1] /\ Through(y, start + i) # None
            => Through(y, start + i) >= amounts[start + i]
      BY <2>1, <2>4, <3>3 DEF Keeps
    <3> QED  BY <3>2, <3>4
  <2> QED  BY <2>3, <2>4 DEF MaybeAmount
<1>2. step \in [1..N -> [MaybeAmount -> MaybeAmount]]  BY <1>1
<1>3. PICK g : Climbs(g, N, MaybeAmount, x, step)
  <2> HIDE DEF step, N
  <2> QED  BY <1>0, <1>2, RecursionUp
<1>4. /\ g[0] = x /\ g \in [0..N -> MaybeAmount]
      /\ \A i \in 1..N : i - 1 \in 0..N /\ g[i] = Through(g[i - 1], start + i)
  <2>1. ASSUME NEW i \in 1..N
        PROVE  i - 1 \in 0..N /\ g[i] = Through(g[i - 1], start + i)
    <3>1. i - 1 \in 0..N  BY <1>0
    <3>2. g[i - 1] \in MaybeAmount /\ g[i] = step[i][g[i - 1]]
      BY <1>3, <3>1 DEF Climbs
    <3>3. \A y \in MaybeAmount : step[i][y] = Through(y, start + i)  OBVIOUS
    <3> HIDE DEF step, Through
    <3> QED  BY <3>1, <3>2, <3>3
  <2> QED  BY <1>3, <2>1 DEF Climbs
<1> HIDE DEF step
<1> DEFINE S == {j \in 0..N : g[j] # None => g[j] >= amounts[start + j]}
<1>5. 0..N \subseteq S
  <2>1. 0 \in S  BY <1>0, <1>4
  <2>2. ASSUME NEW j \in 0..N - 1, j \in S PROVE j + 1 \in S
    <3>1. /\ j + 1 \in 1..N /\ j \in 0..N /\ j + 1 \in 0..N /\ (j + 1) - 1 = j
          /\ start + (j + 1) - 1 = start + j
      BY <1>0
    <3>2. g[j] \in MaybeAmount /\ g[j + 1] = Through(g[j], start + (j + 1))
      BY <1>4, <3>1
    <3>3. CASE g[j] = None  BY <3>1, <3>2, <3>3
    <3>4. CASE g[j] # None
      <4>1. g[j] >= amounts[start + (j + 1) - 1]  BY <2>2, <3>1, <3>4
      <4> HIDE DEF Through
      <4>2. g[j + 1] # None => g[j + 1] >= amounts[start + (j + 1)]
        BY <1>1, <3>1, <3>2, <3>4, <4>1
      <4> QED  BY <3>1, <4>2
    <3> QED  BY <3>3, <3>4
  <2> HIDE DEF S, N
  <2> QED  BY <1>0, <2>1, <2>2, BoundedInduction
<1> DEFINE f == [i \in start..end |-> g[i - start]]
<1>6. Is(f)
  <2>1. \A i \in start..end : i # start => i - start \in 1..N /\ i - 1 \in start..end
                                /\ (i - 1) - start = (i - start) - 1 /\ start + (i - start) = i
    BY <1>0
  <2>2. ASSUME NEW i \in start..end, i # start PROVE f[i] = Through(f[i - 1], i)
    <3>1. /\ i - start \in 1..N /\ i - 1 \in start..end
          /\ (i - 1) - start = (i - start) - 1 /\ start + (i - start) = i
      BY <2>1, <2>2
    <3>2. f[i] = g[i - start] /\ f[i - 1] = g[(i - start) - 1]  BY <3>1
    <3>3. g[i - start] = Through(g[(i - start) - 1], start + (i - start))
      BY <1>4, <3>1
    <3> HIDE DEF Through, f
    <3> QED  BY <3>1, <3>2, <3>3
  <2>3. start \in start..end /\ f[start] = x
    <3>1. start \in start..end /\ start - start = 0  OBVIOUS
    <3> QED  BY <1>4, <3>1
  <2>4. \A i \in start..end : f[i] = IF i = start THEN x ELSE Through(f[i - 1], i)
    <3> HIDE DEF f, Through
    <3> QED  BY <2>2, <2>3
  <2>5. f = [i \in start..end |-> f[i]]  OBVIOUS
  <2> HIDE DEF f
  <2> QED  BY <2>4, <2>5
<1> DEFINE h == CHOOSE h : Is(h)
<1>7. Is(h)
  <2> HIDE DEF f, Is
  <2> QED  BY <1>6
<1>8. QuoteSpan(start, end, x) = h[end]  BY DEF QuoteSpan
<1> HIDE DEF h, f
<1> DEFINE T == {j \in 0..N : h[start + j] = g[j]}
<1>9. 0..N \subseteq T
  <2>1. h[start] = x  BY <1>7
  <2>2. 0 \in T
    <3>1. start + 0 = start /\ 0 \in 0..N  BY <1>0
    <3> QED  BY <1>4, <2>1, <3>1
  <2>3. ASSUME NEW j \in 0..N - 1, j \in T PROVE j + 1 \in T
    <3>1. /\ j + 1 \in 1..N /\ j + 1 \in 0..N /\ (j + 1) - 1 = j
          /\ start + (j + 1) \in start..end /\ start + (j + 1) # start
          /\ (start + (j + 1)) - 1 = start + j
      BY <1>0
    <3>2. h[start + (j + 1)] = Through(h[start + j], start + (j + 1))
      BY <1>7, <3>1
    <3>3. g[j + 1] = Through(g[j], start + (j + 1))  BY <1>4, <3>1
    <3>4. h[start + j] = g[j]  BY <2>3
    <3> HIDE DEF Through
    <3> QED  BY <3>1, <3>2, <3>3, <3>4
  <2> HIDE DEF T, N
  <2> QED  BY <1>0, <2>2, <2>3, BoundedInduction
<1>10. N \in 0..N /\ start + N = end  BY <1>0
<1>11. h[end] = g[N]  BY <1>9, <1>10
<1> QED  BY <1>4, <1>5, <1>8, <1>10, <1>11

(* FeasibleUnlessSlipped is not inductive: the plan must be the one of its *)
(* request, the transaction under way that of its span, and the last       *)
(* receipt that of the span before.                                        *)
PlanIs ==
  phase \in {"Planned", "Funded"} =>
    plan = PlanOf(request) /\ PlanVerdict(request) = "Ok"
CallIs ==
  phase = "Funded" /\ pending # <<>> =>
    LET tx == pending[1]
        span == Spans[cursor]
    IN  /\ tx.start = span.start /\ tx.end = span.end
        /\ tx.minOut =
             IF plan.strict THEN request.amount
             ELSE IF cursor = Len(Spans) /\ plan.floor # None THEN plan.floor
             ELSE MinAmountOut(plan.amounts[span.end],
                               Compound(request.tol, SpanLen(span)))
LegIs == phase = "Funded" /\ Legs >= 1 => Latest.tx.end = Spans[Legs].end
AskInv == DeliverInv /\ PlanIs /\ CallIs /\ LegIs

(* Where pools quote as they should, no transaction asks for more than its *)
(* pools quote for what it sells.                                          *)
LEMMA AskedIsQuoted ==
  ASSUME QuotesGrow, InputsReach, AskInv
  PROVE  FeasibleUnlessSlipped
<1> SUFFICES ASSUME \A k \in 1..Legs : receipts[k].got >= plan.amounts[receipts[k].tx.end],
                    NEW k \in 1..Len(pending),
                    QuoteSpan(pending[k].start, pending[k].end, pending[k].amountIn) # None
             PROVE  QuoteSpan(pending[k].start, pending[k].end, pending[k].amountIn)
                      >= pending[k].minOut
  BY DEF FeasibleUnlessSlipped
<1> DEFINE n == Len(request.pools)
           span == Spans[cursor]
           a == plan.amounts
           tx == pending[1]
<1>1. /\ DeliverInv /\ CustodyInv /\ TypeInv /\ PlanTrue
      /\ pending \in Seq(Tx) /\ receipts \in Seq(Receipt) /\ Legs \in Nat
  BY DEF AskInv, DeliverInv, CustodyInv, TypeInv, TypeOK, Legs
<1>2. pending # <<>>  BY <1>1
<1>3. /\ phase = "Funded" /\ Len(pending) = 1 /\ cursor = Legs + 1 /\ cursor <= Len(Spans)
      /\ k = 1 /\ Len(Spans) \in Nat
  <2>1. phase = "Funded" /\ Len(pending) = 1  BY <1>1, <1>2, NotDelivered
  <2>2. /\ cursor = Legs + Len(pending) /\ cursor <= Len(Spans)
        /\ Len(Spans) \in Nat \ {0}
    BY <1>1, <2>1, NotDelivered
  <2>3. k = 1  BY <2>1
  <2> QED  BY <2>1, <2>2, <2>3
<1>4. /\ Hops(request) /\ n \in Nat \ {0} /\ Spans \in Seq(Span) /\ GapFree(Spans, n)
      /\ request \in Request
      /\ plan.strict => Len(Spans) = 1
  BY <1>1, <1>3 DEF TypeInv, TypeOK, PlanShape, IsPartition
<1>5. /\ a = PlanOf(request).amounts /\ PlanVerdict(request) = "Ok"
      /\ a \in [0..n -> Amount] /\ request.amount \in Amount /\ request.tol \in Nat
      /\ request.exactOut \in BOOLEAN /\ request.strict \in BOOLEAN
  <2>1. plan = PlanOf(request) /\ PlanVerdict(request) = "Ok"
    BY <1>3 DEF AskInv, PlanIs
  <2>2. request.amount \in Amount /\ request.tol \in Nat
        /\ request.exactOut \in BOOLEAN /\ request.strict \in BOOLEAN
    BY <1>4 DEF Request
  <2>3. PlanOf(request).amounts \in [0..n -> Amount]  BY <1>4, <2>1, PlanOfType
  <2> QED  BY <2>1, <2>2, <2>3
<1>6. Amount \subseteq Nat  BY MaxRawAssumption DEF Amount
<1>7. /\ Keeps(request, a)
      /\ request.exactOut => a[n] >= request.amount
  <2>1. /\ Keeps(request, PlanOf(request).amounts)
        /\ request.exactOut => PlanOf(request).amounts[n] >= request.amount
    BY <1>4, <1>5, PlannedKeeps
  <2>2. a = PlanOf(request).amounts  BY <1>5
  <2> HIDE DEF a
  <2> QED  BY <2>1, <2>2
<1>8. cursor \in 1..Len(Spans)  BY <1>1, <1>3
<1>9. /\ span.start \in Nat /\ span.end \in Nat /\ span.start <= span.end /\ span.end <= n
      /\ SpanLen(span) \in Nat
  <2>1. span \in Span  BY <1>4, <1>8
  <2>2. span.start < span.end /\ span.end <= n  BY <1>4, <1>8 DEF GapFree
  <2> QED  BY <2>1, <2>2 DEF Span, SpanLen
<1>10. /\ tx.start = span.start /\ tx.end = span.end
       /\ tx.minOut =
            IF plan.strict THEN request.amount
            ELSE IF cursor = Len(Spans) /\ plan.floor # None THEN plan.floor
            ELSE MinAmountOut(a[span.end], Compound(request.tol, SpanLen(span)))
  BY <1>2, <1>3 DEF AskInv, CallIs
<1>11. /\ tx.amountIn = IF Legs = 0 THEN FirstInput ELSE Latest.got
       /\ tx \in Tx /\ tx.amountIn \in Amount
  <2>1. tx \in Tx
    <3>1. 1 \in 1..Len(pending)  BY <1>3
    <3> QED  BY <1>1, <3>1
  <2> QED  BY <1>1, <1>2, <1>3, <2>1 DEF CustodyInv, InStep, Tx
<1>12. a[span.start] \in Nat /\ a[span.end] \in Amount /\ a[span.end] \in Nat /\ a[n] \in Amount
       /\ a[0] \in Amount /\ a[0] \in Nat
  <2>1. span.start \in 0..n /\ span.end \in 0..n /\ n \in 0..n /\ 0 \in 0..n  BY <1>4, <1>9
  <2>2. /\ a[span.start] \in Amount /\ a[span.end] \in Amount
        /\ a[n] \in Amount /\ a[0] \in Amount
    BY <1>5, <2>1
  <2> QED  BY <1>6, <2>2
<1>13. tx.amountIn >= a[span.start]
  <2>1. CASE Legs = 0
    <3>1. span.start = 0  BY <1>3, <1>4, <2>1 DEF GapFree
    <3>2. tx.amountIn = FirstInput  BY <1>11, <2>1
    <3>3. CASE ~plan.strict
      <4>1. FirstInput = a[0]  BY <3>3 DEF FirstInput
      <4> QED  BY <1>12, <3>1, <3>2, <4>1
    <3>4. CASE plan.strict
      <4>1. FirstInput = MaxAmountIn(a[0], request.tol)
        BY <1>1, <1>3, <3>4 DEF FirstInput, PlanTrue
      <4>2. MaxAmountIn(a[0], request.tol) \in a[0]..MaxRaw
        BY <1>5, <1>12, GuardsBracket
      <4> HIDE DEF a
      <4>3. MaxAmountIn(a[0], request.tol) >= a[0]  BY <4>2
      <4> QED  BY <3>1, <3>2, <4>1, <4>3
    <3> QED  BY <3>3, <3>4
  <2>2. CASE Legs # 0
    <3>1. Legs \in 1..Legs /\ Legs >= 1 /\ Legs \in 1..Len(Spans) - 1
      BY <1>1, <1>3, <2>2
    <3>2. Latest.got >= a[Latest.tx.end]  BY <3>1 DEF Latest
    <3>3. Latest.tx.end = Spans[Legs].end  BY <1>3, <3>1 DEF AskInv, LegIs
    <3>4. Spans[Legs].end = Spans[Legs + 1].start  BY <1>4, <3>1 DEF GapFree
    <3> QED  BY <1>3, <1>11, <2>2, <3>2, <3>3, <3>4
  <2> QED  BY <2>1, <2>2
<1> DEFINE out == QuoteSpan(span.start, span.end, tx.amountIn)
<1>14. out \in MaybeAmount /\ (out # None => out >= a[span.end])
  <2> HIDE DEF tx, span, a, n
  <2> QED  BY <1>4, <1>5, <1>7, <1>9, <1>11, <1>13, SpanKeeps DEF n
<1>15. out # None /\ out = QuoteSpan(pending[k].start, pending[k].end, pending[k].amountIn)
  BY <1>3, <1>10
<1>16. a[span.end] >= tx.minOut
  <2>1. CASE plan.strict \/ (cursor = Len(Spans) /\ plan.floor # None)
    <3>1. cursor = Len(Spans)
      <4>1. CASE plan.strict
        <5>1. Len(Spans) = 1  BY <1>4, <4>1
        <5> QED  BY <1>8, <5>1
      <4> QED  BY <2>1, <4>1
    <3>2. span.end = n
      <4>1. Spans # <<>>  BY <1>8
      <4> QED  BY <1>4, <3>1, <4>1 DEF GapFree
    <3>3. /\ plan.strict = IsStrict(request)
          /\ plan.floor = IF request.exactOut /\ ~request.strict THEN request.amount ELSE None
      BY <1>1, <1>3 DEF PlanTrue
    <3>4. request.exactOut
      <4>1. plan.strict => request.exactOut
        <5>1. IsStrict(request) => request.exactOut  BY DEF IsStrict
        <5> QED  BY <3>3, <5>1, Zenon
      <4>2. plan.floor # None => request.exactOut  BY <3>3
      <4> QED  BY <2>1, <4>1, <4>2
    <3>5. tx.minOut = request.amount
      <4>1. CASE plan.strict  BY <1>10, <4>1
      <4>2. CASE ~plan.strict
        <5>1. tx.minOut = plan.floor /\ plan.floor # None  BY <1>10, <2>1, <4>2
        <5> QED  BY <3>3, <5>1
      <4> QED  BY <4>1, <4>2
    <3> QED  BY <1>7, <3>2, <3>4, <3>5
  <2>2. CASE ~(plan.strict \/ (cursor = Len(Spans) /\ plan.floor # None))
    <3> DEFINE tol == Compound(request.tol, SpanLen(span))
    <3>1. tx.minOut = MinAmountOut(a[span.end], tol)  BY <1>10, <2>2
    <3>2. tol \in Nat
      <4>1. tol \in 0..BPS_ONE  BY <1>5, <1>9, CompoundRange
      <4> QED  BY <4>1, BpsAssumption
    <3> HIDE DEF tol
    <3>3. MinAmountOut(a[span.end], tol) \in 0..a[span.end]
      BY <1>12, <3>2, GuardsBracket
    <3> HIDE DEF a, span, tx
    <3> QED  BY <1>12, <3>1, <3>3
  <2> QED  BY <2>1, <2>2
<1>17. tx.minOut \in Nat  BY <1>6, <1>11 DEF Tx
<1>18. out \in Nat /\ out >= a[span.end]
  BY <1>6, <1>14, <1>15 DEF MaybeAmount
<1>19. out >= tx.minOut
  <2> HIDE DEF out, a, span, tx
  <2> QED  BY <1>12, <1>16, <1>17, <1>18
<1> QED  BY <1>3, <1>15, <1>19

LEMMA InitAsk == Init => AskInv
<1> SUFFICES ASSUME Init PROVE AskInv
  OBVIOUS
<1>1. phase = "Asked"  BY DEF Init
<1> QED  BY <1>1, InitDeliver DEF AskInv, PlanIs, CallIs, LegIs

LEMMA QuietAsk ==
  ASSUME AskInv, MakePlan \/ Fund PROVE AskInv'
<1>1. DeliverInv'  BY QuietDeliver DEF AskInv
<1>2. phase # "Funded" /\ UNCHANGED <<request, pending, receipts>>  BY DEF MakePlan, Fund
<1>3. pending' = <<>> /\ Legs' = 0
  BY <1>2 DEF AskInv, DeliverInv, CustodyInv, Settled, Legs
<1>4. CallIs' /\ LegIs'  BY <1>3 DEF CallIs, LegIs
<1>5. PlanIs'
  <2>1. CASE Fund
    BY <2>1 DEF AskInv, PlanIs, Fund
  <2>2. CASE MakePlan
    <3>1. phase' \in {"Planned", "Funded"} =>
            plan' = PlanOf(request) /\ PlanVerdict(request) = "Ok"
      BY <2>2 DEF MakePlan
    <3>2. request' = request  BY <2>2 DEF MakePlan
    <3> QED  BY <3>1, <3>2 DEF PlanIs
  <2> QED  BY <2>1, <2>2
<1> QED  BY <1>1, <1>4, <1>5 DEF AskInv

LEMMA NextTxAsk ==
  ASSUME AskInv, DrivenNextTx PROVE AskInv'
<1>1. DeliverInv /\ DeliverInv'  BY NextTxDeliver DEF AskInv
<1>2. pending = <<>> /\ NextTx(Measured)  BY DEF DrivenNextTx
<1>3. phase = "Funded" /\ UNCHANGED <<request, phase, plan, receipts>>
  BY <1>2 DEF NextTx
<1>4. Spans' = Spans /\ Latest' = Latest /\ Legs' = Legs
  BY <1>3 DEF Spans, Latest, Legs
<1>5. PlanIs'  BY <1>3 DEF AskInv, PlanIs
<1>6. LegIs'  BY <1>3, <1>4 DEF AskInv, LegIs
<1>7. CASE ~Emit(Measured)
  <2>1. pending' = <<>>
    BY <1>2, <1>7 DEF NextTx, Exhausted, MissingObserved, BuildFails
  <2> QED  BY <1>1, <1>5, <1>6, <2>1 DEF AskInv, CallIs
<1>8. CASE Emit(Measured)
  <2> DEFINE tx == Prepared(SpanCall(Measured), plan.strict, request.deadline)
  <2>1. /\ cursor < Len(Spans) /\ pending' = Append(pending, tx)
        /\ cursor' = cursor + 1
    BY <1>8 DEF Emit, Buildable
  <2>2. tx.minOut = IF plan.strict THEN request.amount ELSE SpanFloor
    BY <1>1, <1>3, <2>1, Emitted DEF DeliverInv, CustodyInv
  <2>3. tx.start = Current.start /\ tx.end = Current.end
    BY DEF Prepared, SpanCall
  <2> HIDE DEF tx
  <2>4. pending'[1] = tx  BY <1>2, <2>1
  <2>5. Spans[cursor'] = Current  BY <2>1 DEF Current
  <2>6. IsFinal <=> cursor' = Len(Spans)  BY <2>1 DEF IsFinal
  <2>7. tx.minOut =
          IF plan.strict THEN request.amount
          ELSE IF cursor' = Len(Spans) /\ plan.floor # None THEN plan.floor
          ELSE MinAmountOut(plan.amounts[Current.end],
                            Compound(request.tol, SpanLen(Current)))
    BY <2>2, <2>6 DEF SpanFloor
  <2>8. CallIs'
    BY <1>3, <1>4, <2>3, <2>4, <2>5, <2>7 DEF CallIs
  <2> QED  BY <1>1, <1>5, <1>6, <2>8 DEF AskInv
<1> QED  BY <1>7, <1>8

LEMMA SettleAsk ==
  ASSUME AskInv, NEW k \in 1..Len(pending), Settle(k)
  PROVE  AskInv'
<1>1. DeliverInv /\ DeliverInv' /\ pending # <<>>
  BY SettleDeliver DEF AskInv, DeliverInv, CustodyInv, TypeInv, TypeOK
<1>2. /\ phase = "Funded" /\ pending' = <<>> /\ cursor = Legs + 1 /\ Legs' = Legs + 1
      /\ UNCHANGED <<request, phase, plan, cursor>> /\ Latest'.tx = pending[1]
  BY <1>1, SettledLeg
<1>3. pending[1].end = Spans[cursor].end  BY <1>1, <1>2 DEF AskInv, CallIs
<1>4. Spans' = Spans  BY <1>2 DEF Spans
<1>5. LegIs'  BY <1>2, <1>3, <1>4 DEF LegIs
<1>6. PlanIs' /\ CallIs'  BY <1>2 DEF AskInv, PlanIs, CallIs
<1> QED  BY <1>1, <1>5, <1>6 DEF AskInv

LEMMA IdleAsk ==
  ASSUME AskInv, Tick \/ UNCHANGED vars PROVE AskInv'
<1>1. DeliverInv'  BY IdleDeliver DEF AskInv
<1>2. UNCHANGED <<request, phase, plan, cursor, pending, receipts>>
  BY DEF Tick, vars
<1>3. PlanIs' /\ CallIs' /\ LegIs'
  BY <1>2 DEF AskInv, PlanIs, CallIs, LegIs, Legs, Latest, Spans
<1> QED  BY <1>1, <1>3 DEF AskInv

(* A driven plan never asks for more than its own pools quote, unless a    *)
(* settled span delivered less than it was quoted: for every route of      *)
(* pools that quote no less for more and whose solved inputs reach their   *)
(* outputs (min_out of next_tx and the OrBetter floor, plan.rs), which is  *)
(* what tests/properties.rs asserts of the pools of amm-core.              *)
THEOREM FeasibleUnlessSlippedAlways ==
  Spec => [](QuotesGrow /\ InputsReach => FeasibleUnlessSlipped)
<1>1. AskInv /\ [Next]_vars => AskInv'
  <2> SUFFICES ASSUME AskInv, [Next]_vars PROVE AskInv'
    OBVIOUS
  <2>1. CASE MakePlan \/ Fund  BY <2>1, QuietAsk
  <2>2. CASE DrivenNextTx  BY <2>2, NextTxAsk
  <2>3. CASE SettleSome  BY <2>3, SettleAsk DEF SettleSome
  <2>4. CASE Tick \/ UNCHANGED vars  BY <2>4, IdleAsk
  <2> QED  BY <2>1, <2>2, <2>3, <2>4 DEF Next
<1>2. AskInv => (QuotesGrow /\ InputsReach => FeasibleUnlessSlipped)
  BY AskedIsQuoted
<1> QED  BY <1>1, <1>2, InitAsk, PTL DEF Spec
=============================================================================
