------------------------------ MODULE Filtering ------------------------------
(***************************************************************************)
(* filter() of an iterator, as a recursion over the length: SelectSeq is   *)
(* defined by overriding, which leaves nothing to reason from.             *)
(***************************************************************************)
EXTENDS Naturals, Sequences

(* The elements of s that lie in S, in their order.                        *)
Passing(s, S) ==
  LET kept[k \in 0..Len(s)] ==
        IF k = 0 THEN <<>>
        ELSE IF s[k] \in S THEN Append(kept[k - 1], s[k]) ELSE kept[k - 1]
  IN  kept[Len(s)]
=============================================================================
