-------------------------- MODULE RefreshProperties --------------------------
(***************************************************************************)
(* What refresh() of pools with reserves, and repeating it, promise.       *)
(***************************************************************************)
EXTENDS ReserveSources

(* What a pool is made of, in order: for each part the calls whose answer  *)
(* it may be, by the header of curve.rs and the docs of aerodrome.rs.      *)
Wanted(key) ==
  LET one(target, get) == {Call(target, get, 0)}
      own(gets) == [k \in DOMAIN gets |-> one(key.address, gets[k])]
      config == Configs(key)[1]
      balances == [i \in 1..config.coins |-> {Balances(config)[i]}]
      stable == <<one(key.address, "future_A") \cup one(key.address, "A")>>
                  \o own(<<"fee">>) \o balances
      crypto == own(<<"A">>) \o balances \o own(<<"mid_fee", "out_fee", "fee_gamma", "D">>)
                  \o (IF config.variant = "TwoCryptoStable" THEN <<>> ELSE own(<<"gamma">>))
      flag == key.address \in StablePools
  IN  CASE source = "UniswapV2" -> own(<<"getReserves">>)
        [] source = "Aerodrome" ->
             own(<<"getReserves", "stable">>)
               \o <<one(key.assets[1], "decimals"), one(key.assets[2], "decimals"),
                    {Call(Factory, "getFee", <<key.address, flag>>)}>>
        [] source = "Curve" ->
             CASE Family(config.variant) \in {"Plain", "Ng"} -> stable
               [] Family(config.variant) = "Meta" ->
                    Append(stable, IF config.base = None THEN {}
                                   ELSE one(config.base, "get_virtual_price"))
               [] Family(config.variant) = "ALend" -> stable \o own(<<"offpeg_fee_multiplier">>)
               [] Family(config.variant) = "TwoCrypto" -> crypto \o own(<<"price_scale">>)
               [] Family(config.variant) = "TriCrypto" ->
                    crypto \o << {Call(key.address, "price_scale", 0)},
                                 {Call(key.address, "price_scale", 1)} >>

Answered(i, call) ==
  /\ call \notin Absent
  /\ \E c \in DOMAIN plans[i].calls : plans[i].calls[c] = call /\ <<i, c>> \notin lost

Complete(i) ==
  LET wanted == Wanted(plans[i].key)
  IN  /\ source = "UniswapV2" => Len(plans[i].key.assets) = 2
      /\ \A k \in DOMAIN wanted : \E call \in wanted[k] : Answered(i, call)

(* The keys that refresh() owes a pool, in their order. *)
Due == Passing([i \in DOMAIN plans |-> i], {i \in DOMAIN plans : Complete(i)})

(* "a quotable Pool per key that decoded successfully.  Pools whose reads  *)
(* reverted or failed to decode are omitted rather than failing the batch" *)
(* (source.rs): a read that a pool can do without costs nothing, any other *)
(* its own pool and no more, and the pools come in the order of the keys.  *)
APoolPerKeyRead ==
  stage = "Built" =>
    LET due == Due
    IN  /\ Len(built) = Len(due)
        /\ \A j \in DOMAIN due : built[j].address = plans[due[j]].key.address

(* Each part of a pool is the answer to the call that asked for it, of     *)
(* this pool and no other, all of one block, and the amplification is read *)
(* off A() only where future_A() was not to be had (Cursor::amp).  What a  *)
(* pool of the newest Curve kind can do without is present, in its place,  *)
(* exactly if it was answered (build_curve_pool, "Tolerant").              *)
PartsAreItsOwn ==
  stage = "Built" =>
    LET due == Due IN
    \A j \in DOMAIN built :
      LET i == due[j]
          wanted == Wanted(plans[i].key)
          needed == built[j].needed
          finest == Call(plans[i].key.address, "future_A", 0)
          optional == [ k \in DOMAIN built[j].optional |->
            Call(built[j].address, <<"offpeg_fee_multiplier", "stored_rates">>[k], 0) ]
      IN  /\ Len(needed) = Len(wanted)
          /\ \A k \in DOMAIN wanted : needed[k] \in wanted[k]
          /\ finest \in wanted[1] /\ Answered(i, finest) => needed[1] = finest
          /\ \A k \in DOMAIN optional :
               built[j].optional[k] = IF Answered(i, optional[k]) THEN optional[k] ELSE None

-----------------------------------------------------------------------------
(* retry_with_backoff gives up at its last attempt, the first if it has    *)
(* none, and not before; and in all it has waited 1 + 2 + 4 + ... base     *)
(* delays, each no more than the last factor.                              *)
BacksOff ==
  LET last == IF maxAttempts = 0 THEN 1 ELSE maxAttempts
      sleeps == IF stage = "Failed" THEN attempt - 1 ELSE attempt
      top == Capped(sleeps - 1)
  IN  stage # "Idle" =>
        /\ IF stage = "Failed" THEN attempt = last ELSE attempt < last
        /\ waited = IF sleeps = 0 THEN 0
                    ELSE 2 * Factors[top] - 1 + (sleeps - 1 - top) * Factors[MAX_EXPONENT]

(* "without unbounded blocking" (retry.rs): with a transport that answers  *)
(* or fails, the caller has an answer in the end.                          *)
RefreshReturns == stage = "Calling" ~> stage \in {"Built", "Failed"}

(* "Keep the pools whose read succeeded and decoded; drop reverts"         *)
(* (uniswap_v2.rs): nothing in a pool was read off a revert.               *)
RevertsAreDropped ==
  stage = "Built" =>
    \A j \in DOMAIN built : \A k \in DOMAIN built[j].needed : built[j].needed[k] # Reason
=============================================================================
