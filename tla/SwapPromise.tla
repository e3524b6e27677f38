----------------------------- MODULE SwapPromise ----------------------------
(***************************************************************************)
(* What driving a plan promises its caller, without spans, routers or      *)
(* quotes: the caller puts in one amount of one asset; from then on all of *)
(* it is in the caller's own account, in one asset, until a single step    *)
(* turns it into at least the promised amount of the promised asset in the *)
(* account of the promised payee.  A trade promised to be whole leaves no  *)
(* change of what was put in.                                              *)
(***************************************************************************)
EXTENDS Naturals

CONSTANTS Account, Asset, Amount, Sender, Nothing

VARIABLES
  promise,  \* Nothing until the trade is funded
  purse,    \* what the trade holds, as [who, asset, raw, change]
  kept

vars == <<promise, purse, kept>>

Promised == [payee : Account, asset : Asset, atLeast : Amount, exact : BOOLEAN,
             whole : BOOLEAN]
InHand(whole) ==
  [who : {Sender}, asset : Asset, raw : Amount, change : IF whole THEN {0} ELSE Amount]

Init == promise = Nothing /\ purse = Nothing /\ kept = FALSE

PutIn ==
  /\ promise = Nothing
  /\ promise' \in Promised
  /\ purse' \in InHand(TRUE)
  /\ UNCHANGED kept

(* One transaction of several: another asset, still the caller's.          *)
Relay ==
  /\ promise # Nothing /\ ~kept
  /\ purse' \in InHand(promise.whole)
  /\ UNCHANGED <<promise, kept>>

Deliver ==
  /\ promise # Nothing /\ ~kept
  /\ purse' \in [who : {promise.payee}, asset : {promise.asset},
                 raw : Amount, change : IF promise.whole THEN {0} ELSE Amount]
  /\ purse'.raw >= promise.atLeast
  /\ promise.exact => purse'.raw = promise.atLeast /\ purse'.change <= purse.raw
  /\ kept' = TRUE
  /\ UNCHANGED promise

Next == PutIn \/ Relay \/ Deliver
Spec == Init /\ [][Next]_vars
=============================================================================
