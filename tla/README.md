# A verification project for amm-rs

amm-rs quotes automated-market-maker pools from on-chain state and prepares the
transactions that swap over them. `amm-core` is pure arithmetic over fetched pool
state; `amm-rpc` fetches that state, and turns a route of several pools into a
*plan*: a sequence of transactions, each atomic, which the caller signs, sends and
measures one after the other. This directory holds TLA+ models of the code, the TLC
runs that check them, and TLAPS proofs of the main results.

Contents: [the system](#1-the-system), [plan of the project](#2-plan-of-the-project),
[modules](#3-modules-and-how-they-follow-the-code), [runs](#4-runs),
[proofs](#5-proofs), [disagreements found](#6-where-the-code-and-its-documentation-disagree),
[limits](#7-what-is-not-modelled-and-what-the-model-assumes).

## 1. The system

| component | state it keeps | operations | status |
|---|---|---|---|
| Plan executor `execution/plan.rs` | `Plan`: spans, boundary amounts, cursor, options, final floor, strict ceiling | `plan`, `next_tx` | modelled |
| Routing `execution/routing/{mod,router_span}.rs` | none | `Route::validate`, `RouterKind::of`, `partition` | modelled |
| Multi-hop quoting `amm-core path/` | none | `quote_path_amounts`, `quote_path_exact_out` | modelled |
| Slippage guards `amm-core slippage/` | none | `min_amount_out`, `max_amount_in`, `compound` | modelled |
| Span builders `execution/routing/family/*` | none | one exact-in builder per router, two exact-out ones | modelled: verdicts, effects and the instructions they encode |
| Single-pool encoders `execution/protocols/*`, `executable.rs` | none | `build_swap`, `build_swap_exact_out` per protocol | modelled, the same way |
| Settlement of a transaction: `prepared.rs`, `types.rs`, and the routers outside | balances, deltas of the V4 manager, allowance | approve, send, execute, revert | modelled; the contracts are external |
| Options `execution/options.rs` | recipient, deadline, sender | `new` and its setters, `resolve` | modelled |
| Chain configuration `execution/{config,chains}.rs` | router addresses | lookups, two presets | modelled: which are present |
| Concentrated-liquidity engine `amm-core protocols/concentrated.rs` | price, tick, liquidity, a window of ticks | `simulate`, `amount_out`, `amount_in`, `quote_with_limit`, `max_amount_in`, spot price, limit of a price | modelled: the loop in whole units of price, prices and limits as square roots |
| Tick sources `amm-rpc protocols/{uniswap_v3,uniswap_v4,slipstream}.rs` | none between refreshes | two dependent rounds of reads, `build_pool`, the storage words of V4 | modelled |
| Reserve sources `amm-rpc protocols/{uniswap_v2,aerodrome,curve}.rs`, `multicall.rs` | none | one round of reads, alignment of results, `build_*pool` | modelled |
| Discovery `discover.rs` and `discover()` of the sources | none | a round of questions to a factory | modelled |
| Retry `retry.rs` | attempt count, backoff | `retry_with_backoff` | modelled |
| Constant-product and stable pools `amm-core protocols/{uniswap/v2,aerodrome/*}.rs` | reserves | `amount_out`, `amount_in`, `minimal_exact_out_input`, `spot_price`, `price_impact` | modelled |
| Curve pools `amm-core protocols/curve/` | a pool of the external curve-math crate | quote, exact output, spot price by a probe | partly: the adapter around an arithmetic of any kind |
| Primitives and traits `amm-core primitives/`, `traits/` | none | `Ratio`, `Price`, comparison, display | partly: inversion, square roots, impact; identifiers are constants |
| Calldata packing `route_planner.rs`, `multicall.rs`, path bytes | a command list | append | partly: commands, packed paths and flags; no ABI bytes |
| Provider `provider.rs` | an HTTP client | construction | not modelled: pure I/O |
| Fork-test harness `tests/support/` | balances of a forked chain | fund, drive, settle, measure | partly: the driver is the plan's environment |

How they interact. `plan()` validates the route, partitions it into the longest spans
that one router executes in one transaction, quotes it hop by hop (forward for an
exact input, backward and for `OrBetter` forward again for an exact output), and
stores the amounts at every boundary. Each call of `next_tx(observed)` builds the
transaction of the next span: it sells what the *caller observed* of the span before,
asks for at least the *quoted* output less the tolerance compounded over the span's
hops, and pays the plan's signer, or the recipient if the span is the last. Pool state
is fetched before all this and never again; the chain moves on its own. Nothing in
the library ties the calls to settlements: it is the caller who waits, measures and
calls again. What a transaction does once it is included, it does in a contract that the
library does not own: the builder chooses the instructions, the amount to approve and the
ETH to send along, and from there on routers, Permit2, the V4 pool manager and the pools
act on them in order.

What is hard here:

- **Partial completion.** Every transaction is atomic, the plan is not. A later span can
  be impossible to build, revert, or pass the deadline after earlier ones moved the funds.
- **Stale and unchecked amounts.** `observed` comes from outside; floors come from
  quotes made before the first transaction.
- **Ordering.** The cursor advances when a transaction is *built*; what is built may
  settle late, in another order, or never.
- **Agreement of layers.** The gate of `plan()` promises what the builders of the families
  must then keep; deadline, price limit and native flags are honoured by some of the
  builders only.
- **Rounding at boundaries**: compounded tolerances, floors and ceilings at 0 and at the
  largest amount, runs of Curve pools at the cap of five, the last tick of a window.
- **Torn or incomplete snapshots** of tick pools, fetched in two dependent rounds.
- **Instructions that must add up**: what one command leaves in a router the next must find
  there; wrapped or not, whole balance or fixed amount, paid by the user or by the router.
  A mistake strands money, or reverts on some markets only.
- **Encodings**: signs, halves and directions packed into one word; a path listed forwards or
  backwards; a price limit inverted before it is rounded, or after.
- **Results matched by position**: every batch of reads comes back as a list, some of it
  failed, some keys never asked, some reads optional; one index off gives a pool the
  state of another.

`PROJECT.json` lists the hazards one by one, at their lines, with the properties
that cover each, or why none does.

What makes each part correct: a *plan* keeps a trade in one holding until the last
span delivers what was agreed (`OneHolding`, `KeepsPromise`, `DeliversAsAgreed`), never
asks for more than its pools quote (`FeasibleUnlessSlipped`) and comes to an end
(`PlanEnds`); whatever the caller does wrong, the recipient is only paid what the
guarantee says and the input is spent once (`RecipientProtected`, `SpendsInputOnce`).
*Routing* covers the route with the fewest transactions (`SpansPartitionRoute`,
`FewestTransactions`). *Slippage* guards err in the caller's favour, but by less than one basis
point (`GuardsBracketQuote`, `CompoundIsTight`). A *transaction* is one sale on the terms of its
`PreparedSwap` or none (`OneSaleOrNone`), through the pools of its route (`RouterWalksTheSpan`);
it leaves nothing in a router (`NothingStranded`), fails only for the market
(`RevertsForCause`) and never reaches beyond its input (`SavingsUntouched`). The *tick
engine* quotes exactly what the chain would give or refuses for a reason
(`QuotesAsTheChain`, `RefusesForCause`, `MaxIsCapacity`), and its loop keeps price, tick and
liquidity together (`LoopKeepsTrack`, `LoopMovesOn`); a limit bounds a swap at the price it
names (`LimitMeansItsPrice`). A *tick source* gives each pool its own
ticks and lets one bad pool sink no other (`EachItsOwn`, `OneBadPoolSinksNoOther`), out of its own
words of storage (`ReadsItsOwnStorage`); and so does a *reserve source*, with optional reads in
between (`APoolPerKeyRead`, `PartsAreItsOwn`). *Discovery* finds every pool once, in token order
(`FindsEveryPoolOnce`, `KeysFitTheirPools`). *Reserve pools* quote the most their contract
accepts and ask for enough, but no more than needed, for an exact output (`QuoteIsBest`,
`ExactOutReaches`, `NoLessWillDo`, `NoRoundTripGain`), and the impact they report is what the
trade loses against the spot price (`ImpactIsTheLoss`). A *retry* ends, after the attempts and
delays it should (`BacksOff`, `RefreshReturns`).

## 2. Plan of the project

Done, in this order:

1. `Slippage`, `Routing`, `Quoting`: the pure parts a plan is built from.
2. `SpanBuilders`: one operator per family for the checks of its builders, one for the
   transaction they return.
3. `Plan`: `plan()` and `next_tx()` as actions, composed with the caller, the chain and the
   clock; `PlanProperties`, `PlanClaims`.
4. `SwapPromise`: what a plan promises, as a specification of its own that `Plan` implements.
5. The runs on `MCPlan`, one for a disciplined and one for a careless driver.
6. Proofs: partition and guards, the plan's type invariant, custody.
7. `Ticks`, `TickEngine`: the swap loop of `concentrated.rs` as a state machine over a window of
   ticks, against a reference walk over single units of price.
8. `TickSource`: chain, two rounds of reads that may fail or see different blocks, and
   the pool that is built from them, composed with `TickEngine`.
9. `ReservePools`, `ReserveQuotes`: the arithmetic of pools with two reserves, the search for the
   least input, and trades at the quotes; their proofs.
10. `ReserveSources`, `Discovery`: alignment of results and pools, the Curve cursor, retries.
11. `Options`, `Calldata`, `Settlement`: the instructions of every encoder and span builder, and
    the contracts that execute them one at a time; `AtomicSwap`, what including a transaction
    promises, which `Settlement` implements; `Paths`, the pools a router finds by what it is told.
12. The tick engine behind its protocols: assets instead of directions, hooks, fees per
    direction, limits in either orientation; the sources of all three.
13. `PoolStorage`, `Prices`: packed words, square roots and limits.
14. Curve pools among `ReservePools`; spot prices and impact.
15. `SettlementProofs`: no encoder reaches beyond the input, for any calls it makes. In
    `PlanProofs`, what a driven plan delivers and that it implements `SwapPromise`, and what a
    careless caller cannot break.
16. `PartProofs`: partition, tolerances, discovery and price limits on every input. `ReserveProofs`
    extended to the least input, the round trip and the impact. `TickProofs`: two rounds of reads
    with any of them lost, the swap loop, and that its answers are the chain's. `RefreshProofs`:
    what a refresh of pools with reserves builds from a batch with any reads lost, and the delays of a retry.
17. `SettlementProofs` extended to all that a transaction does: that it implements `AtomicSwap`, leaves
    nothing on a router and reverts for a cause, for every encoder and every span; that the router
    walks the pools of the span. `PartProofs` extended to the words of storage, and `PlanProofs` to what
    a plan asks for (`FeasibleUnlessSlipped`).

To come:

18. The composition of `Plan` with pools that trade between quote and settlement, so that
    slippage is a movement of reserves and not a free choice.
19. The composition of `Plan` with `Settlement`: `SettleSome` of the one is `AtomicSwap!Fill` of the
    other, which so far is a correspondence of terms (`Prepared`) and not a refinement.

## 3. Modules and how they follow the code

`Slippage` — `slippage/mod.rs`. `MinAmountOut` and `MaxAmountIn` floor and ceil the exact
rational `raw * (1 ∓ tol)`, with a floor of zero above 100 % and saturation at `MaxRaw`
(`U256::MAX`); `Compound(tol, n)` is `(1-tol)^n` floored to whole basis points, with
the early cases for zero tolerance, zero hops and tolerances of 100 % and above.
`BPS_ONE` is a constant, so that a small base exercises every rounding.

`Routing` — `Validate` returns the first error of `Route::validate`; `KindOf` and `RouterOf` are
`RouterKind::of`; `Partition` is the fold over the pools that either extends the last span
or opens a new one (`Extends`: same router, and fewer than `CURVE_MAX_HOPS` pools if Curve).

`Quoting` — boundary amounts of a route, forward and backward. The quote of one pool is a
constant operator, with `None` for a failed quote: all results hold for every
pool arithmetic. A backward solve stops at the first hop that cannot, and `ExactOutError`
is what `map_quote_err` makes of it.

`SpanBuilders` — `ExactInVerdict` and `ExactOutVerdict` go through the checks of the builder
that `next_tx` dispatches to, in the code's order, and give its error or `"Ok"`;
`Prepared` is the transaction: what it sells and buys, its input and floor, whom it pays,
whether its router takes a deadline, whether it may stop early at a price limit, and the
asset `min_received` is labelled with. Which instructions that takes is `Calldata`.

`Options` — `ExecutionOptions::new`, `resolve` and what an encoder says of options that were not
resolved. A setter is an `EXCEPT`.

`Calldata` — for each encoder and span builder the transaction as a record: the contract called,
its instructions in order, the approval (asset, spender, amount), the value, and whether
the contract gets the deadline. An instruction is a command of the Universal Router
(`Wrap`, `Unwrap`, `Exchange`, `SwapV4`, `SettleAll`, `Take`…), a call of a periphery multicall
(`Exchange`, `Unwrap`, `Refund`) or the one call that the other routers take. The
sentinels keep their role: `CONTRACT_BALANCE`, `OPEN_DELTA` (zero, as in the code), `AddressThis`.
`EthereumRouters` and `BaseRouters` are the presets of `chains.rs`.

`Settlement` — the life of one such transaction.

| action | stands for |
|---|---|
| `HandOver` | the caller resolves the options at the edge, or forgets to |
| `Tick` | time before inclusion |
| `Refuse`, `Send` | the encoder's error, or its transaction approved and sent |
| `ExchangeExactIn`, `ExchangeExactOut` | a swap on V2, V3, Slipstream, Aerodrome or Curve pools, at any amounts of the market |
| `SwapV4ExactIn`, `SwapV4ExactOut`, `SettleDebt`, `TakeCredit`, `CloseManager` | the V4 manager, whose deltas must be zero at the end |
| `WrapETH`, `UnwrapWETH`, `RefundETH` | the wrappers of the routers |
| `Expire`, `Finish` | a deadline that reached the contract; the end of the code, or something it cannot decode |

A failed check of any of these reverts everything and leaves the check's name in `why`.
The contracts are not in the repository: they behave as the comments of the encoders and
the fork tests rely on, and each rule is marked external in `PROJECT.json`.

`AtomicSwap` — the abstract specification: agreed terms, then in one step either a sale within
them or nothing. `SettlementProperties!Promise` instantiates it with the terms of `PreparedSwap`
and the accounts' balances once the transaction has settled; `OneSaleOrNone` is the refinement.
`SettlementProperties` states the exceptions too, each as a definition with a name:
`UnusedValue`, `WrappedV4Output`, `LimitedOutput`, `SentinelUnknown`, `ChainedV4` (section 6).

`Paths` — what a router derives from calldata: packed V3 and Slipstream paths with their tiers
(spacings are signed, in three bytes), V2 token lists, Aerodrome routes with their flag, Curve
route arrays padded to eleven with their coin indices, V4 keys sorted with a direction. `PoolsOf`
is the factory or the pool id: those pools that a router would find. `RouterWalksTheSpan`
compares these legs with the route.

`Plan` — the state machine.

| variable | stands for |
|---|---|
| `request` | the arguments of `plan()`: route, trade type, options |
| `phase`, `plan`, `cursor` | whether there is a `Plan`, its fields, `Plan.cursor` |
| `answer` | what the last call returned |
| `pending` | transactions emitted and not settled; the caller holds them |
| `receipts` | what the settled ones took and paid |
| `wallet`, `clock` | balances and time of the chain |

| action | code |
|---|---|
| `MakePlan` | `plan()`: validation, classification, quotes, strict gate, deadline, in that order |
| `NextTx(observed)` = `Exhausted`, `MissingObserved`, `BuildFails`, `Emit` | the ways `next_tx()` returns |
| `Fund` | the caller holds what the first transaction takes |
| `DrivenNextTx` | the driver of `tests/support/runner.rs`: waits for settlement, passes what it measured |
| `CarelessNextTx` | any caller: at any time, with any amount or none |
| `SettleSome` | one emitted transaction is included: pays any amount from its floor on, not after its deadline if its router takes one, only if the funds are there. A revert is a step that does not happen |
| `Tick` | time |

`SwapPromise` — the abstract specification: one purse, put in once, relayed in the sender's
account any number of times, delivered once in full. `PlanProperties!Promise` instantiates it
with the purse read off the receipts, and `KeepsPromise` is the refinement.

`PlanProperties` holds the properties, `PlanClaims` the sentences of the repository that the
code does not keep (section 6).

`Ticks` — the pure part of `concentrated.rs`: the bitmap, the window around the active tick
(`WindowAround`, with Rust's truncating division), the next initialized tick within one
word, one step of a swap. A price is a whole number of units, `Unit` of them per tick,
in place of a square root with 96 fractional bits: under a liquidity `L` each unit gives `L` out
and takes more in than the one before, more again with a fee. This keeps every comparison the
loop makes (a tick, a boundary, a limit, the edge of the window, the end of the range, and
prices strictly between them) and that a swap gets dearer as it goes; the exact curve is
the business of the external `uniswap_v3_math` crate. `WordBits` is the width of a bitmap
word, `Spacing` the tick spacing, `TickWindow` the spacings fetched on each side.

`Prices` is the part with square roots: `Ratio` and `Price` with their inversion, the spot price of
a pool, and `clamped_sqrt_limit`, with the unit `Q96` as a constant.

`TickEngine` — a question is about two assets. The adapter of the protocol turns them into a
direction (`Direction`), refuses others and, for V4, pools with hooks (`PoolRefusal`), and
chooses the fee of the direction (`FeePips`); a limit is a price in either orientation
(`ClampedLimit`). `Question` is the entry of one of the four operations, with its early returns; `Step` one
iteration of the loop in `simulate`; `Finish` the outcome. `pool` is the snapshot, `ask` the
question, `swap` the locals of the loop while it runs, `answer` the result.

`TickSource` — `refresh()`. `heads` is the chain; `at` the block asked for, or `None` for a tag that
each round resolves anew; `blocks` what the rounds saw; `states` what round 1 decoded; `built` the
snapshots. `Round1` and `Round2` are the two batches, in which up to `MaxLost` reads
fail; `TransportFails` ends the refresh; `ChainMoves` is a block in between, and only
matters under a tag; `TakePool` hands a snapshot to the engine. V3, V4 and Slipstream differ in which
keys they can read (`Kept`) and in the reads per pool and their order (`UniswapV3Reads`,
`SlipstreamReads`, `UniswapV4Reads`). `PoolStorage` is the layer under V4's reads: where the words of
a pool lie (`PoolStateSlot`, `TickInfoSlot`), how they are taken apart (`DecodeSlot0`, `DecodeTick`:
signs, halves of the protocol fee, masks), and on the other side, external, how the manager
stores them.
`TickProperties` compares a quote with `Walk`, which swaps against the chain's own
liquidity one unit of price after the other and knows neither windows nor words nor steps
(`Path` is the same after any number of units).

`ReservePools` — `V2AmountOut`/`V2AmountIn`, `VolatileAmountOut`/`VolatileCandidate` and
`StableAmountOut`/`StableCandidate` with the roundings of the code; `GetY` is Newton's iteration
(`NewtonStep`) as a recursive function, `NewtonSteps` (255 in the code) its cap. `units` are the decimals of a token
as a power of ten, `E18` the fixed point. A pool of kind `Curve` quotes by operators that are
constants (`CurveOut`, `CurveIn`, `CurveSpot`: the external crate), with the adapter's treatment of
their results: zero amounts, the candidate that is searched below, the spot price taken from a
`PROBE` trade where the crate knows none. `SpotPrice` and `PriceImpact` are those of all kinds.
`ReserveQuotes` — the machine: `QuoteExactIn` and
`QuoteExactOut` answer at once or begin the search of `minimal_exact_out_input`, whose
turns are `Bisect` and `Found`; `Trade` executes a quote at the pool contract, whose
acceptance rule (`Accepts`, external) is the invariant check of `swap()`, and refreshes.

`ReserveSources` — `refresh()` of the other three sources behind `retry_with_backoff`. `Plans` is
what the code lays out before the batch: the readable keys, their calls, where their
results start (`Starts`). `Answer` is a batch that came back, with up to `MaxLost` failed reads in their
place, and everything the code makes of it; `Fail` a transport error; `Wake` the end of a
sleep. An answer is known by its call, so a part taken from the wrong place shows.
`CurveCalls` and `BuildCurve` are `calls_for` and `build_curve_pool` for the six families;
`RefreshProperties!Wanted` lists what a pool is to be made of a second time, by
the module documentation, for comparison.

`Discovery` — `sorted_pairs`, the questions to a factory, and the keys made of the answers, for
all six sources. `Filtering` is the `filter` of an iterator, written as a recursive function so
that it can be reasoned about.

`Parts` — the machine that puts one input after another to the pure modules, with their
properties: `AddHop` and `DropAsset` build a route, `Requote`, `Loosen` and `Lengthen` a guard,
`Ask` and `AskConfigured` call `discover()`, `Store` and `Price` choose a V4 storage or a price limit.

`MCParts`, `MCPlan`, `MCTicks`, `MCCalldata`, `MCReserves` and `MCReserveSources` give the constants
their values for TLC. The modules named `...Proofs`, and `CommonLemmas`, are section 5.

## 4. Runs

| run | question | bounds |
|---|---|---|
| `parts` | is every route partitioned without gaps and with the fewest transactions; do floors, ceilings and compounding round the right way; does discovery find every pool; is a V4 pool read from its own storage; does a limit mean its price? | see below |
| `driven` | does a plan driven as documented keep what it promises? | see below |
| `careless` | what survives a caller that does everything wrong? | the same chain, several-span routes |
| `calldata` | does every transaction of every encoder do what its `PreparedSwap` says, and nothing else? | see below |
| `ticks` | is a quote over a refreshed window what the chain would give, or refused for a cause; does every snapshot hold its own pool's ticks when reads fail? | see below |
| `reserves` | do quotes round to what the contracts accept, and searches to the least input? | see below |
| `reserve_refresh` | are pools made of their own answers, and do retries end? | see below |
| `price_limit`, `strict_gate`, `chained_v4`, `torn_refresh`, `revert_reason` | is a sentence of the documentation true? (no: section 6) | as the runs of their modules |

`MCParts` bounds the inputs of `Parts`: all routes of up to 4 of 5 pools, also invalid
ones, with the Curve cap lowered to 2; base 10, quotes to 25, tolerances to 12, up to 4 hops;
lists of up to 3 of 3 assets, any pools between them, one lost read; V4 pools whose words have
2 bits of price, 3 of tick, 3 per half fee and 3 of liquidity, so that every sign and every
carry from field to field occurs, with a whole of 12 pips, spacings of 1 and 2 and windows up to 2; ratios of numbers up to 20, square
roots from 1 to 30 with a unit of 8. About 467 000 states.

`MCPlan` has ten pools — one of every router family, a first-class native V4 pool, one without
exact-out and one of an unknown kind — over WETH, ETH and two tokens. Its requests are every
trade type over routes of one to three pools: one router, several, invalid, misconfigured,
with native ends, with a price limit, with zero and impossible amounts, and with the
recipient equal to the sender or not. Every pool quotes a constant product with reserves of
its own, so quotes really round and slip.

| bound | value | why it is enough |
|---|---|---|
| `BPS_ONE` | 10 | a tolerance of 2 compounds to 2, 3, 4 over 1, 2, 3 hops, with remainders; 11 is above 100 % |
| `MaxRaw` | 12 | quotes of 8 stay below, an input ceiling saturates |
| `MaxU128` | 11 | 12 overflows the V4 amount, 11 does not |
| `MaxSurplus` | 3 | settlements below, at and above the quote, whose floors are 2 to 4 below it |
| `MaxClock` | 2 | deadlines are 1: before, at and after |
| `Savings` | 0, 8 | driven: a transaction cannot be paid from anything but the trade's own funds, so a wrong amount shows; careless: it can, so a caller that repeats or inflates a trade succeeds |
| spans | up to 3 | a first, an interim and a last span differ in every operator |

`MCCalldata` has sixteen pools: of every kind at least one and of most kinds two, on one pair or on
adjacent ones, so that a wrong tier, kind, order or coin index leads to another pool or to none.
Spans are of one to three pools in both directions: alone, chained in one router, of mixed
versions, with a V4 hop first, last and only, native at either edge or at neither. Amounts are 2
and 3, floors 0, 1 and 2, with and without a price limit; options resolved and not, payable to
the sender and to another; everything configured, and the two presets.

| bound | value | why it is enough |
|---|---|---|
| `MaxPayout` | 3 | a pool takes or pays less than, exactly and more than any floor, target or ceiling |
| `Savings` | 2 | whoever holds of every asset what an amount is, so a step that takes too much can |
| `MaxClock` | 3 | deadlines are 1 to 3: before, at and after |
| `CURVE_MAX_HOPS` | 5 | spans of Curve have two pools at most; the cap itself is in `parts` |

About 159 000 states; the contracts' nondeterminism is the market, at every exchange.

`MCTicks`: ticks −6 to 6 with a spacing of 2, two units of price per tick, words of 2 bits, a
window of one spacing on each side (`torn_refresh`: two, so that what was torn is inside).
So words, windows, initialized ticks and the ends of the range all fall on different
places, below and above zero. Chains are seven sets of positions — none, one over everything,
adjacent, with a gap, overlapping, reaching just beyond a window — at 19 prices, on and
between boundaries, with either tick where the price stands on one. `MaxI256` is 5000, more
than any pool takes. Every such pool is asked about its own pair in both directions, and some about
foreign assets and under limits in both orientations. V4 pools have a fee in one direction
only; one is hooked. Refreshes of several pools have 5 keys of 4 pools: one without address, one not
of two assets, one twice. Up to `MaxLost` = 2 reads fail in a round; `Whole` then tells which
snapshots are comparable with the chain. In `torn_refresh` none fails. About 977 000 states.

`MCReserves`: base 10 for fees from nothing to everything, reserves to 12 traded to and fro, amounts
0 to 12, so every division leaves remainders; Curve pools of an arithmetic with fees on the
output, a unit that always stays and inputs quoted up to three units too high, some without
a spot price, so that the adapter searches, and probes with `PROBE` = 3; inputs looked through
up to `MaxInput` = 60; stable pools with `E18` = 16 and tokens of 2
and 4 units, coarser than the fixed point as USDC's six decimals are of eighteen. With
`NewtonSteps` = 20 the iteration ends by convergence, as in the code.

`MCReserveSources`: keys of every kind for each source: without address, with three assets, listed
twice, not configured; Curve pools of all families with two and three coins, with and
without the reads that older pools lack, in five mixed batches; two lost reads. Attempts
0, 1 and 4 with the exponent capped at 1, so the cap is reached before the last failure.

`CHECK_DEADLOCK FALSE` in the configurations: a delivered or refused plan or transaction has stopped, an answered
quote, a built pool and an enumerated input lead nowhere, and time ends at its bound.

Fairness (`FairSpec`) is weak fairness of `Fund`, `DrivenNextTx` and `SettleSome`. The driver of
`tests/support/runner.rs` funds the signer, calls `next_tx` in a loop until it
returns `None`, and sends and mines every transaction before the next call; nothing in
the code drives a plan by itself, so this is the assumption on the caller under which
`PlanEnds` says that the library does its part. There is no fairness of `Tick`, and
none of the careless actions. No run claims liveness for a careless caller. `FairSpec` of
`ReserveSources` is weak fairness of `Ends` and of `Wake`: an operation that was started returns,
with or without an error (the HTTP client's part: only `Answer` and `Fail` leave "Calling", and
which of the two happens is left open), and `tokio::time::sleep` ends.

Every property of a passing run has a mutant in `PROJECT.json`: a plausible error in one
definition (a floor taken from the wrong boundary, a cursor that advances by hops, a cap
applied to every family…) that makes TLC report the property violated. The mutated
definitions stand next to the original and are marked as such.

## 5. Proofs

All theorems hold for every value of the constants that meets the modules' `ASSUME`s: any set of
pools, assets and accounts, any quoting functions, any requests, any bounds.

| theorem | module | says |
|---|---|---|
| `PartitionIsPartition` | `RouteProofs` | spans are gap-free, of one router each, capped, and no two neighbours could be one |
| `GuardsBracket` | `RouteProofs` | floor ≤ quote ≤ ceiling (or saturated), both amounts |
| `SpansPartitionRouteAlways`, `FewestTransactionsAlways` | `PartProofs` | every route is cut without gaps, and into the fewest transactions there are |
| `GuardsBracketQuoteAlways`, `CompoundIsTightAlways` | `PartProofs` | the guards to the unit; the compounded tolerance to the basis point, against guarding each hop |
| `FindsEveryPoolOnceAlways`, `KeysFitTheirPoolsAlways` | `PartProofs` | discovery finds every pool once, by its own assets in token order |
| `ReadsItsOwnStorageAlways` | `PartProofs` | what a V4 pool's slots are read back as is what the pool manager packed into them, and no two ticks or pools share a slot |
| `LimitMeansItsPriceAlways` | `PartProofs` | a limit bounds a swap at its price in either orientation, at any width of the square root |
| `DrivenTypeOK`, `CarelessTypeOK` | `PlanProofs` | the type invariant, for either driver |
| `InStepAlways` | `PlanProofs` | at most one transaction is out, for exactly what the trade holds |
| `OneHoldingAlways` | `PlanProofs` | a trade never splits |
| `DeliversAsAgreedAlways` | `PlanProofs` | a completed trade paid the guarantee of the whole route, a strict one its target within its ceiling |
| `PlanKeepsPromise` | `PlanProofs` | a driven plan implements `SwapPromise` |
| `RecipientProtectedAlways` | `PlanProofs` | however `next_tx` is called, only the final span pays another account, and no less than the guarantee |
| `SpendsInputOnceAlways` | `PlanProofs` | however `next_tx` is called, one transaction takes the route's input |
| `FeasibleUnlessSlippedAlways` | `PlanProofs` | no transaction asks for more than its pools quote, unless a settled span slipped; for pools that quote no less for more, and whose solved inputs reach their outputs |
| `OneSaleOrNoneAlways` | `SettlementProofs` | every transaction of every encoder implements `AtomicSwap`: one sale as its `PreparedSwap` says, or none |
| `NothingStrandedAlways` | `SettlementProofs` | what a transaction moved onto the router it moved off again, unused native value aside |
| `RevertsForCauseAlways` | `SettlementProofs` | no instruction lacks funds, allowance or credit, and no debt stays open: only the market, the clock and the cases named revert |
| `RouterWalksTheSpanAlways` | `SettlementProofs` | the router a transaction is sent to finds, from its bytes, the pools and tokens of its span in their order, whatever the encoding |
| `SavingsUntouchedAlways` | `SettlementProofs` | no transaction takes more from an account than its input |
| `ExactOutReachesAlways` | `ReserveProofs` | the input quoted for an exact output brings it (Uniswap V2, Aerodrome volatile; stable and Curve as far as the candidate does) |
| `QuoteIsBestAlways` | `ReserveProofs` | the contract accepts a quoted output and would not accept one unit more (Uniswap V2, Aerodrome volatile) |
| `SearchBracketsAlways` | `ReserveProofs` | the binary search keeps its bracket, whatever the forward quote |
| `NoLessWillDoAlways` | `ReserveProofs` | no smaller input would do (Aerodrome volatile; Uniswap V2 within its unit; stable and Curve where the forward quote grows below the candidate) |
| `NoRoundTripGainAlways` | `ReserveProofs` | a trade and its reverse never pay (Uniswap V2, Aerodrome volatile) |
| `ImpactIsTheLossAlways` | `ReserveProofs` | the reported impact covers the loss against the spot price, and not a basis point more |
| `EachItsOwnAlways`, `OneBadPoolSinksNoOtherAlways` | `TickProofs` | whichever reads of the two rounds fail, a tick pool is built from its own answers, and each failure costs one pool at most |
| `TickTypeOKAlways` | `TickProofs` | snapshots are well formed, and the swap loop stays in its ranges |
| `LoopKeepsTrackAlways` | `TickProofs` | price, tick and liquidity of the swap loop belong together, in every iteration |
| `LoopMovesOnAlways` | `TickProofs` | an iteration after which the loop goes on has moved to another tick, the right way |
| `QuotesAsTheChainAlways` | `TickProofs` | a quote from a snapshot that shows its whole window is the chain's own answer, to the unit |
| `RefusesForCauseAlways` | `TickProofs` | from such a snapshot every error means what it says, and the loop itself never fails |
| `MaxIsCapacityAlways` | `TickProofs` | the largest input of such a window is used up within it, and one unit more is not |
| `APoolPerKeyReadAlways`, `PartsAreItsOwnAlways` | `RefreshProofs` | whichever reads of a batch fail, each key that got what it needs gives a pool, in order, made of its own answers; failed reads come back empty |
| `CurveOutcomeAlways` | `RefreshProofs` | both, of Curve pools, whatever failed reads come back as |
| `BacksOffAlways` | `RefreshProofs` | a retry gives up at its last attempt and has slept what the doubling and its cap add up to |

The argument for the plan has two layers. `TypeInv` is `TypeOK` together with `PlanShape`: an
existing plan is `PlanOf(request)` for a validated, classifiable request. `TypeOK` alone is not
inductive, as nothing in it says that `Spans[cursor + 1]` ends within the route, which is what
types the boundary amounts and the assets of the next transaction; `PlanShape` gives
it by `PartitionIsPartition`. `PlanProofs` first shows that boundary amounts which are all quoted
are amounts. Every action of `Next` and of `CarelessNext` preserves `TypeInv`.

`CustodyInv` adds `Settled` (the receipts are, in order, those of the spans before the cursor:
what each sold, bought and whom it paid), `InStep` and `OneHolding`. `InStep` needs `Settled` to
know where the last settled span ended, and `OneHolding` needs `InStep`: settlement debits the
amount of the pending transaction, and only because this is exactly what the trade
holds does the wallet stay one holding. An exact-in fill takes the whole input unless a
price limit is set, which is why `OneHolding` is stated without one.

`CommonLemmas` is what all of them rest on. The library's induction theorems take an operator as
a parameter, which the provers cannot instantiate; in its place a set of numbers closed under
successor is shown to be all of them (`BoundedInduction`, `RecursionUp`), and every recursive function of the model is
reasoned about through that: that it satisfies its equation, and that `Passing` keeps exactly the
elements of a set, in their order (`Picks`).

`DeliverInv` adds two facts to `CustodyInv`: the plan's shape and bounds are those of its request
(`PlanTrue`), and the last transaction under way owes the guarantee (`Owing`). That it does is
`FinalFloor`: the floor of the final span is the quote less the tolerance compounded over
that span alone, the guarantee less the tolerance compounded over the route, and the tolerance
only grows with the hops (`CompoundGrows`, one hop at a time: a share that covers x of d covers
x·r of d·b for r ≤ b). From `DeliverInv` every step is a step of `SwapPromise` or a stutter:
funding puts in, settling relays or delivers, the rest leaves promise, purse and delivery alone.
`PromiseAssumption` says that the value standing for "no promise" is not itself a promise.

`FeasibleUnlessSlipped` would be false of pools that quote anything. What it takes of them are its two
hypotheses: a quote never falls as the input grows (`QuotesGrow`), and an input solved for an output,
or more of it, brings that output (`InputsReach`); both are what `tests/properties.rs` and
`path/mod.rs` hold the pools to, `ExactOutReachesAlways` proves the second of Uniswap V2 and
Aerodrome's volatile pools, and TLC evaluates both on the pools of `MCPlan` (`QuotesAreSound`).
`Keeps` is what the boundary amounts of a plan then have in common, whether they were quoted
forward or solved backward: no amount is more than what the pools quote for the one before it, so a span that is
given its planned amount or more brings its planned end (`SpanKeeps`). `AskInv` adds to `DeliverInv`
that the amounts are those the request was planned with (`PlanIs`), and that what `next_tx` fixes of a
transaction is fixed by them and by what the last span delivered (`CallIs`, `LegIs`).

For a careless caller, `InStep` and `OneHolding` fail, and two smaller invariants carry the
properties. `ProtectedInv`: at most one transaction that pays somebody else is under way, only
once every span has been emitted, with nothing paid before it and its floor at the guarantee;
until then nobody but the sender has gained or lost anything. `OnceInv`: what has been taken of
the input and what may still be taken is one transaction, and none before the first call. Both need
that only the first span starts, and only the last one ends, where the route does (`SpanEnds`).

`ReserveProofs` shows `Shape /\ SearchBrackets /\ ExactOutReaches /\ QuoteIsBest` inductive, for any
reserves, fees and amounts. `ExactOutReaches` alone is not: an answer that comes out of the
search is enough because the upper end of the bracket was, so it needs `SearchBrackets`; and
that in turn needs the lemmas that the closed-form candidate is enough (rounding up twice
undoes rounding down twice), which is also what the answer of Uniswap V2 rests on. `Shape` says
that a search runs only for an exact output with a candidate. `QuoteIsBest` follows from
the two inequalities that define a quotient rounded down. Of a stable pool's
candidate, as of curve-math's, nothing says that it is enough; what `ExactOutReaches` says of these is that
the search does not lose what the candidate had.

`QuoteInv` adds what the other three need: that every quote is a number (`Numbers`), whose it is
(`AnswerIs`), and that below the search's lower end nothing reaches (`Least`). That the
answer is the *least* input needs the forward quote to grow with its input, since the search only
ever saw some inputs: of a quotient with the input on both sides that is `VolatileGrows`; of
stable and Curve pools it is a hypothesis of the theorem (`ForwardGrows`), the one that the comment of
`minimal_exact_out_input` makes, and only below the candidate; `MCReserves` lets TLC see that its pools
meet it (`ForwardsGrow`). That a stable pool answers in numbers is `GetYNumber`: whatever the path of Newton's iteration, it ends at a
number or refuses. Of Curve this is `CurveAnswers`, as the arithmetic is not in the
repository. A round trip does not pay
because the contract's invariant holds of the first trade and the second is paid out of what the first
left; the two roundings enter as two inequalities.

`SettlementProofs` shows that `SavingsUntouched` holds of every encoder, for any pools, routes,
amounts and options. What an encoder fixes is the approval and the value, and the lemma
`EncodedTakesTheInput` says that for each of them the two are together the input, of the input
asset, and no more. The invariant `Custody` then does not look at the instructions at all: while
a transaction runs, each account holds its savings and at least what can still be pulled from
it (`Covered`, `Pullable`), every pull lowers the allowance by what it takes, and whatever
else moves, moves out of the router. Two facts about contracts enter: an exact output has an amount
of its own and cannot name `CONTRACT_BALANCE` (`Exchanges`), and a V4 debt is paid by whoever the
instruction names. A revert restores the funds, which is why the property is only interesting in
between and at the end.

The other three need to know the instructions. `SettleInv` says where a transaction stands: while it runs, the
code that is left is a `Stage` — a wrap to come, an exchange, a V4 command at one of its four
actions, a chain of hops that the router pays for, an unwrap, change or refund, or nothing — and the
`Books` of that stage say exactly what accounts, router and `address(2)` hold, in
terms of what was spent and got so far, with what is owed and what may still be pulled. `EncodedStarts` shows
that whatever an encoder returns `Starts` at such a stage. Then each instruction is taken once, for the stages that have it next: it
`Moves` to a later stage or reverts for a cause (`CauseOf`), and where none is left the
transaction `Settles` (`Done`). So the proof goes by stages and not by encoders, and a stage that
several encoders reach is dealt with once. A V4 hop that the router pays for has no books:
it cannot be executed (`chained_v4`). `NothingStranded` and `RevertsForCause` are read off `Done` and `Caused`. For the
refinement, `HandOver` agrees on the terms, `Tick` lets time pass, sending and every instruction
leave the sale open, `Finish` fills it and a refusal or revert fails it; that what was
filled is within its terms is what the books of `Done` say.

`RouterWalksTheSpan` takes one more invariant, `Accepted`: what runs is what the encoder returned for
the call that is still on record. Reading is then the inverse of writing, once per encoding: three
bytes of two's complement give the tier back (`TierReadBack`), pair and tier find the pool
that has them (`Found`, as a factory deploys one pool per key), a packed path is joined at its
tokens and walks its pools, written forwards for an exact input and backwards for an exact output
(`PairsJoin`, `TieredWalk`), V4 keys name their pool (`KeyWalk`), and Curve's array of eleven stops
at the first zero (`CoinWalk`). That the array has room is a debug assertion in the code
(`family/curve.rs:177`); here it follows from `CurveAssumption` (twice the cap of hops and one
fit, and nothing is deployed at the zero address) and from spans being cut at the cap.
`PathsAssumption` says what a factory and its pools are: one pool per key, two coins but for Curve,
a tier that fits an int24, none for pools that are found without one.

`CallsAssumption` is what the encoders are asked for. An amount is asked for, within the bound; the code does
not check that, and a transaction over nothing is none to prove much of. The span is one of a validated
route (`Validate`, `IsPartition`): joined hops of one router. A native edge is where the path has ETH or
WETH (`EdgesWrapped`), and only V4 pools trade ETH itself. A plan, which calls the builders of spans, has
at most one native edge (`NativeEdge` of `plan.rs`) and has refused options that were not resolved
(`resolve_deadline` in `plan()`); the encoders of single pools, which anyone may call, are asked with any options and edges. Among the
calls is a price limit that a plan hands to a single-pool span: `UnusedValue` used to leave it out, and
the proof did not go through until it was named and `MCCalldata` made such a call.

`PartProofs` does not need an invariant, for the most part: an input is arbitrary, and what is proved is
a lemma about the operators. `FewestTransactions` takes a cut with the fewest pieces and shows that the
partition has a span for each at most: the k-th span of the partition ends no
earlier than the k-th piece of any cut, as the partition only closes a span where no piece could go on.
`CompoundIsTight` compares products of shares, one hop at a time, with the quotient that is rounded.
Discovery is a question per pair and tier (`QuestionsOf`), a filter over the answers and a key per
answer that decoded (`FoundAt`); that no pool is found twice is that two questions which
differ name different pools, if no asset and tier is listed twice. `LimitMeansItsPrice` rests on what
a rounded square root is (the greatest whose square fits) and on the inversion of a ratio being exact.
`ReadsItsOwnStorage` needs powers of two whose exponents are parameters, which the provers do not
interpret: a power is the number of sets of bits (`BitSets`, `PowersMultiply`), and four fields packed one above the
other come back by quotient and remainder (`FourFields`, `SignedIs` for the tick). Slots differ as the hash
of different keys does (`TickSlotsDiffer`), and dividing toward zero moves the middle of the window by
less than a spacing (`WindowReaches`). That a combined fee compounds the protocol's share and the pool's, rounded up,
is `CombinedFeeCompounds`.

`TickProofs` has two invariants. `SourceInv` is the refresh: what it was asked for (`Requested`), and
after each round what is known of it (`Rounds`): `states` lists, for an increasing selection of
the keys, the state of that key in the first block (`Decodes`), with no more than `MaxLost`
missing, and `built` the snapshot of each, with ticks that the second block had (`Snapshot`). The
increasing selection is what makes positions harmless. It rests on where a slice lies in a batch
(`SliceAt`) and which read a reference of the second round stands for (`RefsAre`).

`LoopInv` is the loop, for whatever snapshot `SourceInv` allows: `Looping` says that price and bound
are in order and inside the range, that the tick belongs to the price (`OnTick`), and that
the liquidity is the snapshot's with the ticks between crossed. One iteration (`SwapSteps`) is put
together from what the bitmap finds (`NextTickIs`: the nearest initialized tick in the word, or
its end, nothing between skipped), how far a step goes (`SwapStepIs`), and what it crosses
(`Crossing`). That the next iteration starts at another tick is then a consequence: a step that stopped
short of its target used up the amount, and one that reached it either reached the bound or
crossed a boundary. The bound is inside the range of prices because limits are clamped and the
window's edges are: `Askable` questions only. Assumptions: a pool on the chain has a price
strictly inside the range and a tick that belongs to it (`IsChain`; a pool initialized at the very
end of the range is left out, as a swap never leaves it there), it keeps its assets and, outside
V4, one fee for both directions, and a failed read is told from every answer.

`WalkInv` says what the loop is for: it stands on the walk. `Path` is that walk through the
chain's liquidity, one unit of price after the other, and `Tracks` that what is left, what went in
and what came out are in the loop what they are in the walk, at the loop's price or, if
nothing is left, at the bound, as a walk with nothing left stays as it is (`RouteEnds`). An
iteration keeps it because up to its target the chain has at every unit the liquidity in use
(`SameYield`: no initialized tick lies between, and by `TrueLiquidity` the snapshot's sum over
crossed ticks is the chain's sum from the bottom), and because over such a stretch one step for
m units costs and yields what m steps for one do (`InputAddsUp`, `StepIsWalked`: with what is
too little for another unit, in either direction of the amount). From `TrueLiquidity` follows too
that no iteration fails. Then `Right` is shown of each answer as it is given: of a refusal
(`DeclinedIsRight`), of the outcome of the loop (`FinishIsRight`), and of a capacity
(`CapacityIsRight`: as long as something is left, the walk has taken the sum of the costs, so a walk
with that sum has nothing left there and with one unit more has one).

These three are about snapshots that are `Whole`; the others are what `torn_refresh` shows.
`LiquidityAssumption` is what the chain must be for them to hold: the liquidity in use is
that of the positions around the price (the pool contract's own invariant, on which
`crossed_liquidity` builds), it fits a u128 everywhere, and no amount up to an I256 is used up
by the whole range of prices. `EngineAssumption` tells `None` from questions, numbers and
truth values. While it was being proved, `RefusesForCause` turned out to be too strong in one point:
a pool that is asked under a limit of another pair for more than an I256 reports the overflow
first. Questions of that kind are among those `MCTicks` asks since, and the property says so.

`RefreshProofs` has two invariants as well. `RetryInv` is `BacksOff` with the stages: while an
operation runs there are fewer failures than attempts, after each failure but the last there was
one sleep, and what was slept is a sum whose next term `SleptMore` adds, below the cap and above it.
`BatchInv` says that the plans are those of a request, and what is built is what `Pools` makes of a
batch in which some reads failed. The offsets of the plans are running sums of the lengths, so
a slice of the flattened results is what was read for its own pool, whatever its
neighbours read (`SliceIs`, by `FlattenAt`). Then each family's calls are lined up beside what
its pool is to be made of (`Lined`): the k-th read of `calls_for` is the one that the cursor of
`build_curve_pool` takes k-th, for any number of coins from one on, with and without `gamma`, with a base
pool or none. Two hypotheses matter. `AnswerAssumption` says that what comes back in place of an
answer can be told from one. And of Uniswap V2 and Aerodrome, whose results are decoded without
a look at their success, the theorems take it that a failed read comes back empty
(`Reverts = {Empty}`): of the data of a revert a pool is made that none is owed, see the run
`revert_reason`. Of Curve they need no such thing (`CurveOutcomeAlways`).

Only model-checked, and why:

- `PlanEnds` and `RefreshReturns` are liveness.
- Of stable pools, `NoRoundTripGain`; that their candidate is enough, and their quote grows, is not proved
  either: where Newton's iteration ends, nothing bounds.

## 6. Where the code and its documentation disagree

Each is a run that TLC ends with a counterexample; `PROJECT.json` quotes the sentences.

- `price_limit`: `next_tx` builds multi-pool spans without the price limit they were asked
  for, where two comments say that the planner refuses them.
- `strict_gate`: the gate for Strict plans looks at the first pool's router, so a route of
  two Uniswap versions passes `plan()` and fails in `next_tx`.
- `chained_v4`: a span of the Universal Router with a V4 hop that the user does not pay for — any but
  the first, and the first after `WRAP_ETH` — swaps the amount `OPEN_DELTA` before anything is
  settled. The V4 router resolves it to the credit with the pool manager, which is zero, since
  the funds are a balance of the router: the swap reverts whatever the market. The comments of
  `uniswap_ur.rs` say that a chained V4 swap consumes the full open delta, and README.md that
  every calldata builder is proven to settle.
- `torn_refresh`: both rounds of a tick refresh pass a tag such as `latest` on, and the node
  resolves it twice: the price of one block with the ticks of the next gives a quote above
  what the pool gives at either. The README of the repository calls that refresh block-pinned, and
  quotes never over-estimates. Refreshes at a block number are not affected.
- `revert_reason`: Uniswap V2 and Aerodrome results are decoded without a look at their
  success flag. A read that reverts with a reason of some length returns data that decodes, and
  becomes the reserves of a pool; the comments say that reverts are dropped.

Another disagreement is in the documents themselves, and a passing run shows which of them holds. A
swap that has to cross beyond the fetched window is **refused** with `TickWindowExceeded`
(`concentrated.rs:398`, `:419`, `:481`), in either direction and under a price limit.
README.md:131-134 of the repository says so ("refused rather than extrapolated").
docs/protocols.md:16-19 says instead that such a swap "is under-represented" and that the live harness
"bounds the divergence for larger sizes"; docs/architecture.md:99-102 that it "is under-represented",
as "the only source of divergence from the on-chain contract". Both have it quoted, with less than
the chain gives. No such quote exists: by `QuotesAsTheChain` what is quoted from a whole
snapshot is what the chain gives, to the unit, and by `RefusesForCause` the refusal means
that the chain would have to go beyond the window.

Not runs, but worth knowing, and each a named exception of a property:

- The input quoted by a Uniswap V2 pool always has one unit added, as the contract's own library
  does, so it is not always minimal as README.md:129-130 of the repository has it (`NoLessWillDo`
  allows for the unit); and at full scale a stable pool's candidate can miss its target by a
  unit, see the hazard at `stable.rs` in `PROJECT.json`.
- ETH that a swap does not take stays with the router: an exact input under a price limit has no
  `refundETH`, and an exact output of a native V4 pool no sweep (`UnusedValue`). Where ETH was wrapped
  beforehand for a V4 pool, the rest goes to the recipient, not to the sender (`WrappedV4Output`).
- An exact output under a price limit may stop short of its target (`LimitedOutput`).
- A transaction of Curve carries no deadline (`AtomicSwap` asks `terms.expires`).
- The builders of single pools and of spans disagree on whether Slipstream's router takes
  `address(2)` for itself. The model leaves it open (`resolves`): if it does not, a span that
  unwraps at its end reverts, or pays that address if no output was asked for
  (`SentinelUnknown`).

## 7. What is not modelled, and what the model assumes

- Routers, Permit2, factories, the V4 manager, tokens and `curve-math` with its adapter crate are not
  in the repository. Their rules are written from how the encoders, their comments and the fork
  tests use them; a factory has one pool per key, hashes do not collide, and the pool manager lays
  its storage out as the source says.
- ABI bytes, selectors and the two's complement of amounts; of packed data only what could lead to
  another pool or another reading (paths, tiers, storage words).
- Approval modes: nothing reads them. The approval itself is granted, as the caller is told to.
- In `Plan` a pool is any quoting function; the tick and reserve models are not composed
  with it yet.
- Prices in the swap loop are whole units, so what depends on the square root itself (the
  rounding of a single step) is assumed of `uniswap_v3_math`.
- A failed read of a tick pool carries nothing that decodes. A lost tick is a hole in a window
  that is declared complete: such snapshots are excluded by `Whole`, see the hazards.
- Overflow of 256-bit arithmetic in the reserve pools; Curve's pool arithmetic and what
  `curve-adapter` rejects. Introspection (`fee_bps`, `kind`, `reserve`), the ordering and the
  composition of prices.
- `discover()` takes its assets to be of one chain, as its callers pass them.
- `EdgesWrapped` is an assumption on requests: a native edge is given as WETH in the path
  (documentation of `build_uniswap_span`), or, for a single pool, as ETH itself. The code
  does not check it.
- In `Plan` funding is exact; the proofs hold for any `Savings`.
- Other traders appear only as the freedom of settlement: any output from the floor on, up to
  `MaxSurplus` above it.
- Gas, tokens with transfer fees.
- The provider: construction of an HTTP client, no state of its own. Of the fork-test harness only the
  driver; funding by storage writes and the assertions are test code.
