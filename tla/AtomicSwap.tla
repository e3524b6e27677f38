----------------------------- MODULE AtomicSwap -----------------------------
(***************************************************************************)
(* What including a transaction promises, without instructions or routers: *)
(* in one step it takes from the sender what it may and pays the payee     *)
(* what it must, or it changes nothing.  No other account, and no other    *)
(* asset of these two, is touched.                                         *)
(***************************************************************************)
EXTENDS Naturals

CONSTANTS Amount

VARIABLES
  terms,   \* what was agreed
  wallet,  \* what each account has of each asset
  state,   \* "Draft" while the terms are open, "Open", "Filled" or "Failed"
  clock

vars == <<terms, wallet, state, clock>>

(* An exact input is spent whole and pays at least the floor, less may be  *)
(* spent only where the swap may stop; an exact output pays its target, or *)
(* less where it may stop, for at most the ceiling.                        *)
Honours(got, spent) ==
  IF terms.exactOut
  THEN spent <= terms.amountIn
       /\ IF terms.mayStop THEN got <= terms.minOut ELSE got = terms.minOut
  ELSE got >= terms.minOut
       /\ IF terms.mayStop THEN spent <= terms.amountIn ELSE spent = terms.amountIn

Moved(w, who, asset, raw) == [w EXCEPT ![who][asset] = @ + raw]

(* change is what of the input is handed to whoever the terms name for it. *)
Fill ==
  /\ state = "Open" /\ state' = "Filled"
  /\ terms.expires => clock <= terms.deadline
  /\ \E got \in Amount, spent \in Amount, change \in Amount :
       LET paid == spent + change
       IN  /\ Honours(got, spent) /\ paid <= terms.amountIn
           /\ change > 0 => terms.changeTo # terms.sender
           /\ paid <= wallet[terms.sender][terms.sells]
           /\ wallet' = [Moved(Moved(wallet, terms.payee, terms.buys, got),
                               terms.changeTo, terms.sells, change)
                         EXCEPT ![terms.sender][terms.sells] = @ - paid]
  /\ UNCHANGED <<terms, clock>>

Fail ==
  /\ state = "Open" /\ state' = "Failed"
  /\ UNCHANGED <<terms, wallet, clock>>

Agree ==
  /\ state = "Draft" /\ state' = "Open"
  /\ UNCHANGED <<wallet, clock>>

Wait ==
  /\ clock' > clock
  /\ UNCHANGED <<terms, wallet, state>>

Init == state = "Draft"
Next == Agree \/ Wait \/ Fill \/ Fail
Spec == Init /\ [][Next]_vars
=============================================================================
