--------------------------- MODULE MCReserveSources ---------------------------
(***************************************************************************)
(* A few pools of every shape for RefreshProperties: Uniswap V2 keys with  *)
(* two assets or three, Aerodrome's of either curve that share a token,    *)
(* and Curve pools of every family, with and without what they may lack.   *)
(***************************************************************************)
EXTENDS RefreshProperties

CONSTANTS p1, p2, p3, p4, bad, t1, t2, t3

Key(address, assets) == [address |-> address, assets |-> assets]
Curve(address, variant, coins, base) ==
  [address |-> address, variant |-> variant, coins |-> coins, base |-> base]

MCCurvePools ==
  << Curve("v0", "StableSwapV0", 2, None), Curve("v2", "StableSwapV2", 3, None),
     Curve("meta", "StableSwapMeta", 2, "v2"), Curve("lone", "StableSwapMeta", 2, None),
     Curve("alend", "StableSwapALend", 2, None), Curve("ng", "StableSwapNG", 2, None),
     Curve("old", "StableSwapNG", 2, None), Curve("two", "TwoCryptoV1", 2, None),
     Curve("ts", "TwoCryptoStable", 2, None), Curve("tri", "TriCryptoNG", 3, None) >>

(* The oldest pools have no future_A; some of the newest no second fee and *)
(* no rates.                                                               *)
MCAbsent == {Call("v0", "future_A", 0), Call("old", "offpeg_fee_multiplier", 0),
             Call("old", "stored_rates", 0)}

MCParsed == {p1, p2, p3, p4} \cup {MCCurvePools[i].address : i \in DOMAIN MCCurvePools}

CurveKeys(addresses) == [i \in DOMAIN addresses |-> Key(addresses[i], <<t1, t2>>)]

MCRequests ==
  { [source |-> "UniswapV2", keys |-> <<Key(p1, <<t1, t2>>), Key(bad, <<t1, t2>>),
                                        Key(p2, <<t1, t2, t3>>), Key(p3, <<t2, t3>>)>>],
    [source |-> "Aerodrome", keys |-> <<Key(p1, <<t1, t2>>), Key(p2, <<t1, t2, t3>>),
                                        Key(p3, <<t1, t3>>)>>],
    [source |-> "Aerodrome", keys |-> <<Key(p3, <<t1, t3>>), Key(bad, <<t1, t2>>),
                                        Key(p1, <<t1, t2>>), Key(p3, <<t1, t3>>)>>] }
    \cup { [source |-> "Curve", keys |-> CurveKeys(addresses)] :
             addresses \in { <<"ng", "v0", "two">>, <<"lone", "tri", "v2">>, <<"ts", p4, "old">>,
                             <<"alend", "meta", bad, "ng">>, <<"two", "ts">> } }
=============================================================================
