--------------------------- MODULE ReserveSources ---------------------------
(***************************************************************************)
(* refresh() of the sources of pools with reserves (amm-rpc):              *)
(* uniswap_v2.rs, aerodrome.rs and curve.rs, each one batch of reads,      *)
(* called through retry_with_backoff (retry.rs).  What a read returns is   *)
(* known by its call; being of one batch, all are of one block.            *)
(***************************************************************************)
EXTENDS Integers, Sequences, SequencesExt, FiniteSetsExt, Filtering

CONSTANTS
  Requests,      \* sources with keys to refresh, as callers ask for them
  CurvePools,    \* the configured Curve pools, in order
  Parsed,        \* the addresses that parse
  Factory,       \* of Aerodrome
  StablePools,   \* the pools of Aerodrome that are stable
  Absent,        \* the calls that no contract answers
  Attempts,      \* values of max_attempts
  MAX_EXPONENT,
  MaxLost,       \* bound on the reads that fail in a batch
  Reverts,       \* what failed reads return: of {Empty, Reason}
  Empty, Reason, \* no data; the data of a revert, which looks like a value
  None

Variant ==
  {"StableSwapV0", "StableSwapV1", "StableSwapV2", "StableSwapSTETH", "StableSwapMeta",
   "StableSwapALend", "StableSwapNG", "TwoCryptoV1", "TwoCryptoNG", "TwoCryptoStable",
   "TriCryptoV1", "TriCryptoNG"}

(* The two tokens of a pair differ; a Curve pool has a coin (a Meta pool's *)
(* last one is the LP token of its base pool).                             *)
ASSUME ReserveSourcesAssumption ==
  /\ Attempts \subseteq Nat /\ {MAX_EXPONENT, MaxLost} \subseteq Nat
  /\ Reverts \subseteq {Empty, Reason} /\ Reverts # {} /\ Empty # Reason
  /\ CurvePools \in Seq(ToSet(CurvePools))
  /\ \A config \in ToSet(CurvePools) :
       config.variant \in Variant /\ config.coins \in Nat \ {0}
  /\ \A asked \in Requests :
       /\ asked.source \in {"UniswapV2", "Aerodrome", "Curve"}
       /\ asked.keys \in Seq(ToSet(asked.keys))
       /\ \A key \in ToSet(asked.keys) :
            Len(key.assets) = 2 => key.assets[1] # key.assets[2]

VARIABLES
  source, maxAttempts,   \* what refresh and retry_with_backoff were called with
  plans,     \* the pools that are read
  stage,     \* "Idle", "Calling", "Sleeping", then "Built" or "Failed"
  attempt,   \* failures so far
  waited,    \* all delays so far, in units of base_delay
  lost,      \* reads of the batch that failed, <<key, call>> by position
  built      \* the pools that refresh() returned

vars == <<source, maxAttempts, plans, stage, attempt, waited, lost, built>>

-----------------------------------------------------------------------------
Call(target, get, arg) == [target |-> target, get |-> get, arg |-> arg]

(* pool_calls of aerodrome.rs *)
AerodromeCalls(key) ==
  << Call(key.address, "getReserves", 0), Call(key.address, "stable", 0),
     Call(key.assets[1], "decimals", 0), Call(key.assets[2], "decimals", 0),
     Call(Factory, "getFee", <<key.address, TRUE>>),
     Call(Factory, "getFee", <<key.address, FALSE>>) >>

Family(variant) ==
  CASE variant \in {"StableSwapV0", "StableSwapV1", "StableSwapV2", "StableSwapSTETH"} -> "Plain"
    [] variant = "StableSwapMeta" -> "Meta"
    [] variant = "StableSwapALend" -> "ALend"
    [] variant = "StableSwapNG" -> "Ng"
    [] variant \in {"TwoCryptoV1", "TwoCryptoNG", "TwoCryptoStable"} -> "TwoCrypto"
    [] variant \in {"TriCryptoV1", "TriCryptoNG"} -> "TriCrypto"

InterfaceOf(variant) ==
  CASE Family(variant) \in {"Plain", "Meta", "ALend"} -> "StableI128"
    [] variant = "StableSwapNG" -> "StableI128Ng"
    [] variant \in {"TwoCryptoV1", "TriCryptoV1", "TriCryptoNG"} -> "CryptoU256UseEth"
    [] variant \in {"TwoCryptoNG", "TwoCryptoStable"} -> "CryptoU256Receiver"

(* Older pools have another signature. *)
Balances(config) ==
  LET get == IF config.variant = "StableSwapV0" THEN "balances(int128)" ELSE "balances"
  IN  [i \in 1..config.coins |-> Call(config.address, get, i - 1)]

(* calls_for of curve.rs *)
CurveCalls(config) ==
  LET self(get) == Call(config.address, get, 0)
      stable == <<self("future_A"), self("A"), self("fee")>> \o Balances(config)
      crypto == <<self("A")>> \o Balances(config)
                  \o <<self("mid_fee"), self("out_fee"), self("fee_gamma"), self("D")>>
                  \o (IF config.variant = "TwoCryptoStable" THEN <<>> ELSE <<self("gamma")>>)
      family == Family(config.variant)
  IN  CASE family = "Plain" -> stable
        [] family = "Meta" ->
             IF config.base = None THEN stable
             ELSE Append(stable, Call(config.base, "get_virtual_price", 0))
        [] family = "ALend" -> Append(stable, self("offpeg_fee_multiplier"))
        [] family = "Ng" -> stable \o <<self("offpeg_fee_multiplier"), self("stored_rates")>>
        [] family = "TwoCrypto" -> Append(crypto, self("price_scale"))
        [] family = "TriCrypto" ->
             crypto \o <<Call(config.address, "price_scale", 0),
                         Call(config.address, "price_scale", 1)>>

(* config_for *)
Configs(key) ==
  Passing(CurvePools, {config \in ToSet(CurvePools) : config.address = key.address})

-----------------------------------------------------------------------------
(* Whether a key has something to read, and what.                          *)
Readable(from, key) ==
  /\ key.address \in Parsed
  /\ from = "Aerodrome" => Len(key.assets) = 2
  /\ from = "Curve" => Configs(key) # <<>>

CallsOf(from, key) ==
  CASE from = "UniswapV2" -> <<Call(key.address, "getReserves", 0)>>
    [] from = "Aerodrome" -> AerodromeCalls(key)
    [] from = "Curve" -> CurveCalls(Configs(key)[1])

(* What comes back instead of an answer is told from every answer.         *)
ASSUME AnswerAssumption ==
  \A asked \in Requests : \A key \in ToSet(asked.keys) :
    Readable(asked.source, key) =>
      \A c \in DOMAIN CallsOf(asked.source, key) :
        CallsOf(asked.source, key)[c] \notin {Empty, Reason, None}

\* Mutant of Starts: every pool has as many results as the last.
StartsByStride(calls) == [i \in DOMAIN calls |-> (i - 1) * Len(calls[i])]

(* Where the results of each pool start, after those of the pools before it. *)
Starts(calls) ==
  LET start[i \in DOMAIN calls] ==
        IF i = 1 THEN 0 ELSE start[i - 1] + Len(calls[i - 1])
  IN  start

(* The pools to read with their calls and where the results of them start. *)
Plans(from, keys) ==
  LET kept == Passing(keys, {key \in ToSet(keys) : Readable(from, key)})
      calls == [i \in DOMAIN kept |-> CallsOf(from, kept[i])]
  IN  [i \in DOMAIN kept |->
         [key |-> kept[i], calls |-> calls[i], start |-> Starts(calls)[i]]]

(* Multicall3: a failed read comes back in its place. *)
Results(failed, how) ==
  FlattenSeq([ i \in DOMAIN plans |->
    [ c \in DOMAIN plans[i].calls |->
        IF <<i, c>> \in failed \/ plans[i].calls[c] \in Absent THEN how
        ELSE plans[i].calls[c] ] ])

Slice(plan, results) ==
  SubSeq(results, plan.start + 1, plan.start + Len(plan.calls))

-----------------------------------------------------------------------------
(* Only Curve's results are asked whether they succeeded; of the others it *)
(* is enough that their data decodes.                                      *)
Decodes(result) == result \notin {Empty, None}

(* A pool, of what it was built from: parts it needs and parts it may lack. *)
Snapshot(address, kind, needed, optional) ==
  [address |-> address, kind |-> kind, needed |-> needed, optional |-> optional]

BuildUniswapV2(key, slice) == Snapshot(key.address, "UniswapV2", slice, <<>>)

(* decode_state and build_pool of aerodrome.rs: the flag selects the fee.  *)
(* A revert taken for a flag is not zero and so taken for true.            *)
BuildAerodrome(key, slice) ==
  LET stable == slice[2] = Reason \/ key.address \in StablePools
      fee == slice[IF stable THEN 5 ELSE 6]
  IN  Snapshot(key.address, IF stable THEN "Stable" ELSE "Volatile",
               <<slice[1], slice[2], slice[3], slice[4], fee>>, <<>>)

(* Cursor::next, of which each call moves on, whatever it read.            *)
Read(slice, k) ==
  IF k > Len(slice) THEN None
  ELSE IF slice[k] \in {Empty, Reason} THEN None ELSE slice[k]
Reads(slice, first, last) == [i \in 1..(last - first + 1) |-> Read(slice, first + i - 1)]

(* Cursor::amp *)
Amp(slice) == IF Read(slice, 1) # None THEN Read(slice, 1) ELSE Read(slice, 2)

\* Mutant of Optional: the cursor stays where a read failed.
OptionalUnmoved(config, slice) ==
  LET n == config.coins
      fee == Read(slice, 4 + n)
  IN  IF Family(config.variant) = "Ng"
      THEN <<fee, IF fee = None THEN fee ELSE Read(slice, 5 + n)>> ELSE <<>>

(* What build_curve_pool takes if it is there. *)
Optional(config, slice) ==
  IF Family(config.variant) = "Ng" THEN Reads(slice, 4 + config.coins, 5 + config.coins)
  ELSE <<>>

(* build_curve_pool *)
BuildCurve(config, slice) ==
  LET n == config.coins
      gamma == IF config.variant = "TwoCryptoStable" THEN 0 ELSE 1
      family == Family(config.variant)
      needed ==
        CASE family \in {"Plain", "Ng"} -> <<Amp(slice)>> \o Reads(slice, 3, 3 + n)
          [] family \in {"Meta", "ALend"} -> <<Amp(slice)>> \o Reads(slice, 3, 4 + n)
          [] family = "TwoCrypto" -> Reads(slice, 1, 6 + n + gamma)
          [] family = "TriCrypto" -> Reads(slice, 1, 7 + n + gamma)
  IN  Snapshot(config.address, InterfaceOf(config.variant), needed, Optional(config, slice))

Build(key, slice) ==
  CASE source = "UniswapV2" -> BuildUniswapV2(key, slice)
    [] source = "Aerodrome" -> BuildAerodrome(key, slice)
    [] source = "Curve" -> BuildCurve(Configs(key)[1], slice)

(* There is a pool only if all it needs was there.                         *)
Builds(key, slice) ==
  LET needed == Build(key, slice).needed
  IN  /\ source = "UniswapV2" => Len(key.assets) = 2
      /\ \A k \in DOMAIN needed : Decodes(needed[k])

Pools(results) ==
  LET slice(i) == Slice(plans[i], results)
      kept == Passing([i \in DOMAIN plans |-> i],
                      {i \in DOMAIN plans : Builds(plans[i].key, slice(i))})
  IN  [j \in DOMAIN kept |-> Build(plans[kept[j]].key, slice(kept[j]))]

-----------------------------------------------------------------------------
Refresh(asked, max) ==
  /\ stage = "Idle"
  /\ source' = asked.source /\ plans' = Plans(asked.source, asked.keys)
  /\ maxAttempts' = max
  /\ stage' = "Calling"
  /\ UNCHANGED <<attempt, waited, lost, built>>

(* The batch is answered, some reads failed. *)
Answer ==
  /\ stage = "Calling"
  /\ \E size \in 0..MaxLost :
       lost' \in kSubset(size, UNION { {i} \X DOMAIN plans[i].calls : i \in DOMAIN plans })
  /\ \E results \in {Results(lost', how) : how \in Reverts} : built' = Pools(results)
  /\ stage' = "Built"
  /\ UNCHANGED <<source, maxAttempts, plans, attempt, waited>>

(* The delays are 1, 2, 4, ... base delays, no more than the last of them. *)
Factors ==
  LET factor[k \in 0..MAX_EXPONENT] == IF k = 0 THEN 1 ELSE 2 * factor[k - 1]
  IN  factor

Capped(exponent) == IF exponent < MAX_EXPONENT THEN exponent ELSE MAX_EXPONENT

\* Mutant of Delay: the exponent counts from one.
DelayTwice(failures) == Factors[Capped(failures)]

(* What retry_with_backoff sleeps after so many failures. *)
Delay(failures) == Factors[Capped(failures - 1)]

\* Mutant of Fail: the count starts anew with every attempt.
FailUncounted ==
  /\ stage = "Calling"
  /\ attempt' = 1
  /\ stage' = IF attempt' >= maxAttempts THEN "Failed" ELSE "Sleeping"
  /\ UNCHANGED <<source, maxAttempts, plans, waited, lost, built>>

(* The batch fails as a whole: the transport. *)
Fail ==
  /\ stage = "Calling"
  /\ attempt' = attempt + 1
  /\ IF attempt' >= maxAttempts
     THEN stage' = "Failed" /\ UNCHANGED waited
     ELSE stage' = "Sleeping" /\ waited' = waited + Delay(attempt')
  /\ UNCHANGED <<source, maxAttempts, plans, lost, built>>

Wake ==
  /\ stage = "Sleeping" /\ stage' = "Calling"
  /\ UNCHANGED <<source, maxAttempts, plans, attempt, waited, lost, built>>

Init ==
  /\ source = None /\ maxAttempts = 0 /\ plans = <<>>
  /\ stage = "Idle" /\ attempt = 0 /\ waited = 0
  /\ lost = {} /\ built = <<>>

Next ==
  \/ \E asked \in Requests, max \in Attempts : Refresh(asked, max)
  \/ Answer \/ Fail \/ Wake

Spec == Init /\ [][Next]_vars

(* An operation ends, one way or the other: of the steps only Answer and   *)
(* Fail leave "Calling".  And so does a sleep.                             *)
Ends == stage = "Calling" /\ stage' \in {"Built", "Failed", "Sleeping"}

FairSpec == Spec /\ WF_stage(Ends) /\ WF_vars(Wake)
=============================================================================
