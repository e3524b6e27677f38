------------------------------- MODULE Options -------------------------------
(***************************************************************************)
(* The options of a trade and their resolution at the edge, where the      *)
(* clock and the sender are known.                                         *)
(***************************************************************************)
EXTENDS Naturals

CONSTANTS
  TheSender,     \* Recipient::Sender, before it is resolved
  Nobody,        \* no sender injected yet
  MaxTimestamp,  \* u64::MAX
  DEFAULT_TTL_SECS

ASSUME OptionsAssumption == MaxTimestamp \in Nat /\ DEFAULT_TTL_SECS \in Nat

FromNow(ttl) == [kind |-> "FromNow", at |-> ttl]
AtTimestamp(t) == [kind |-> "AtTimestamp", at |-> t]
AtBlock(height) == [kind |-> "AtBlock", at |-> height]

(* ExecutionOptions::new, and its setters by EXCEPT.                       *)
NewOptions ==
  [recipient |-> TheSender, deadline |-> FromNow(DEFAULT_TTL_SECS), sender |-> Nobody]

SaturatingTime(t) == IF t > MaxTimestamp THEN MaxTimestamp ELSE t

Resolve(opts, now, sender) ==
  [opts EXCEPT !.deadline = IF @.kind = "FromNow"
                            THEN AtTimestamp(SaturatingTime(now + @.at)) ELSE @,
               !.recipient = IF @ = TheSender THEN sender ELSE @,
               !.sender = sender]

(* resolve_recipient and resolve_deadline: an encoder takes no option that *)
(* is still relative, and no block number for a timestamp.                 *)
Resolved(opts) ==
  IF opts.recipient = TheSender THEN "UnresolvedRecipient"
  ELSE IF opts.deadline.kind # "AtTimestamp" THEN "UnresolvedDeadline"
  ELSE "Ok"
=============================================================================
