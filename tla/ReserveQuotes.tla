---------------------------- MODULE ReserveQuotes ----------------------------
(***************************************************************************)
(* Quotes of a pool with two reserves and the trades made at them.  The    *)
(* input of an exact output is a formula for Uniswap V2; for Aerodrome and *)
(* Curve it is found by minimal_exact_out_input (protocols/mod.rs), a      *)
(* binary search below a candidate, here one halving at a time.            *)
(***************************************************************************)
EXTENDS ReservePools

CONSTANTS
  Pools,       \* the pools at first
  Amounts,     \* the amounts asked for
  MaxReserve,  \* bound on the reserves that trades lead to
  None

Ask == [exactIn : BOOLEAN, from : Side, amount : Nat]

ASSUME ReserveQuotesAssumption ==
  /\ Pools \subseteq ReservePool /\ Amounts \subseteq Nat /\ MaxReserve \in Nat
  /\ None \notin Int /\ None \notin Ask /\ None # Refused

VARIABLES
  pool,
  ask,     \* the question, None before there is one
  search,  \* the locals of minimal_exact_out_input while it runs, else None
  answer   \* the amount asked for or Refused, None until there is one

vars == <<pool, ask, search, answer>>

QuoteExactIn(from, x) ==
  /\ ask = None
  /\ ask' = [exactIn |-> TRUE, from |-> from, amount |-> x]
  /\ answer' = AmountOut(pool, from, x)
  /\ UNCHANGED <<pool, search>>

QuoteExactOut(from, y) ==
  /\ ask = None
  /\ ask' = [exactIn |-> FALSE, from |-> from, amount |-> y]
  /\ IF pool.kind = "V2"
     THEN answer' = V2AmountIn(pool, from, y) /\ UNCHANGED search
     ELSE IF Candidate(pool, from, y) = Refused
     THEN answer' = Refused /\ UNCHANGED search
     ELSE /\ search' = [lo |-> 0, hi |-> Candidate(pool, from, y)]
          /\ UNCHANGED answer
  /\ UNCHANGED pool

Brings(p, from, y, x) ==
  AmountOut(p, from, x) # Refused /\ AmountOut(p, from, x) >= y

(* What the search asks of an input: that it is enough. *)
Reaches(x) == Brings(pool, ask.from, ask.amount, x)

\* Mutant of Bisect: an input that is exactly enough is passed over.
BisectPast ==
  /\ search # None /\ search.hi - search.lo > 1
  /\ LET mid == search.lo + (search.hi - search.lo) \div 2
     IN  search' = IF Reaches(mid) /\ AmountOut(pool, ask.from, mid) > ask.amount
                   THEN [lo |-> search.lo, hi |-> mid]
                   ELSE [lo |-> mid, hi |-> search.hi]
  /\ UNCHANGED <<pool, ask, answer>>

Bisect ==
  /\ search # None /\ search.hi - search.lo > 1
  /\ LET mid == search.lo + (search.hi - search.lo) \div 2
     IN  search' = IF Reaches(mid) THEN [lo |-> search.lo, hi |-> mid]
                   ELSE [lo |-> mid, hi |-> search.hi]
  /\ UNCHANGED <<pool, ask, answer>>

Found ==
  /\ search # None /\ search.hi - search.lo <= 1
  /\ answer' = search.hi /\ search' = None
  /\ UNCHANGED <<pool, ask>>

-----------------------------------------------------------------------------
(* The two amounts of the trade that an answer stands for. *)
Paid == IF ask.exactIn THEN ask.amount ELSE answer
Received == IF ask.exactIn THEN answer ELSE ask.amount

(* The pool after x went in on a side and y came out on the other: the     *)
(* fees stay in Uniswap V2 and Curve pools and leave those of Aerodrome.   *)
After(p, from, x, y) ==
  [p EXCEPT !.reserves =
     [ side \in Side |->
         IF side # from THEN @[side] - y
         ELSE @[side] + (IF p.kind \in {"V2", "Curve"} THEN x ELSE AfterFee(p, x)) ]]

(* What the pool contract insists on: the output leaves something, and the *)
(* invariant has not become less, for Uniswap V2 with the fee set aside;   *)
(* of Curve's, that it is what the contract would give.                    *)
Accepts(p, from, x, y) ==
  LET after == After(p, from, x, y)
      net == p.reserves[from] * BPS_ONE + x * (BPS_ONE - p.fee)
  IN  /\ y < p.reserves[1 - from]
      /\ IF p.kind = "V2"
         THEN net * after.reserves[1 - from]
                >= p.reserves[0] * p.reserves[1] * BPS_ONE
         ELSE IF p.kind = "Volatile"
         THEN after.reserves[0] * after.reserves[1] >= p.reserves[0] * p.reserves[1]
         ELSE IF p.kind = "Stable"
         THEN StableK(p, after.reserves[0], after.reserves[1])
                >= StableK(p, p.reserves[0], p.reserves[1])
         ELSE AmountOut(p, from, x) # Refused /\ y <= AmountOut(p, from, x)

Trade ==
  /\ answer \in Nat
  /\ Accepts(pool, ask.from, Paid, Received)
  /\ pool' = After(pool, ask.from, Paid, Received)
  /\ \A side \in Side : pool'.reserves[side] <= MaxReserve
  /\ ask' = None /\ answer' = None
  /\ UNCHANGED search

Init ==
  /\ pool \in Pools
  /\ ask = None /\ search = None /\ answer = None

Quote == \E from \in Side, amount \in Amounts :
           QuoteExactIn(from, amount) \/ QuoteExactOut(from, amount)

Next == Quote \/ Bisect \/ Found \/ Trade

Spec == Init /\ [][Next]_vars

-----------------------------------------------------------------------------
Answered(exactIn) ==
  answer \notin {None, Refused} /\ ask.exactIn = exactIn /\ ask.amount > 0

(* A quoted output is the most that the pool contract lets go for the      *)
(* input: it accepts the trade and would not accept one unit more.         *)
QuoteIsBest ==
  Answered(TRUE) /\ pool.kind \in {"V2", "Volatile"} =>
    /\ Accepts(pool, ask.from, ask.amount, answer)
    /\ ~Accepts(pool, ask.from, ask.amount, answer + 1)

(* The input of an exact output brings it: "rounded up by +1 so the pool   *)
(* always receives enough" (v2.rs), "never under-delivers" (volatile.rs,   *)
(* curve/pool.rs), as long as the candidate that curve-math or Newton's    *)
(* iteration starts the search from does: no search loses what it had.     *)
ExactOutReaches ==
  Answered(FALSE) =>
    \/ Reaches(answer)
    \/ /\ pool.kind \in {"Curve", "Stable"}
       /\ ~Reaches(Candidate(pool, ask.from, ask.amount))

(* What minimal_exact_out_input expects of the quote it is handed, "a      *)
(* monotonic non-decreasing forward quote", where it looks: below the      *)
(* candidate, more brings an amount that less does.                        *)
ForwardGrows(p, from, y) ==
  Candidate(p, from, y) # Refused =>
    \A x \in 0..Candidate(p, from, y) : \A z \in 0..x :
      Brings(p, from, y, z) => Brings(p, from, y, x)

(* No less input would do, of Aerodrome's and Curve's pools ("Minimal,     *)
(* ..."), nor less than one unit less, of Uniswap V2's.                    *)
NoLessWillDo ==
  Answered(FALSE) =>
    \A x \in 0..answer - (IF pool.kind = "V2" THEN 2 ELSE 1) : ~Reaches(x)

(* Sold back at once, what a quote gave never brings in more than it cost. *)
NoRoundTripGain ==
  answer \notin {None, Refused} /\ pool.kind # "Curve" =>
    LET after == After(pool, ask.from, Paid, Received)
        back == AmountOut(after, 1 - ask.from, Received)
    IN  back # Refused => back <= Paid

(* minimal_exact_out_input: "Invariant: forward(lo) < target <=            *)
(* forward(hi)", as far as the candidate was enough.                       *)
SearchBrackets ==
  search # None /\ ask.amount > 0 =>
    /\ ~Reaches(search.lo)
    /\ Reaches(search.hi) \/ search.hi = Candidate(pool, ask.from, ask.amount)

(* The price impact of a quote is its loss: taken off what the spot price  *)
(* promises it leaves no less than the quote, and a basis point more would *)
(* leave less.  No quote of reserves beats their spot price, and the       *)
(* impact holds the fee, up to a unit of the promise: nobody is told of a  *)
(* cheaper trade than the pool makes ("how far the realized output falls   *)
(* below the spot-implied output", traits/pricing.rs).                     *)
ImpactIsTheLoss ==
  Answered(TRUE) =>
    LET impact == PriceImpact(pool, ask.from, ask.amount)
        Left(share) == Ideal(pool, ask.from, ask.amount) * (BPS_ONE - share)
    IN  impact # Refused =>
          /\ impact \in 0..BPS_ONE
          /\ answer * BPS_ONE > Left(impact + 1) \/ Left(0) = 0
          /\ answer * BPS_ONE <= Left(impact) \/ (pool.kind = "Curve" /\ impact = 0)
          /\ pool.kind = "V2" =>
               (impact + 1) * Left(0) + BPS_ONE * BPS_ONE > pool.fee * Left(0)
=============================================================================
