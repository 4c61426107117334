---------------------------- MODULE MCPactGraph ----------------------------
(* A missing-order pact: a refund and a replacement exclude each other,    *)
(* goodwill is additive.  The refund is tried twice under one operation;   *)
(* its second attempt is pending, succeeds and is later reversed, and the  *)
(* query adapter, which does not know of attempts, reports a first one.    *)
EXTENDS PactGraph

MCPath == {"successful_refund", "confirmed_replacement", "goodwill"}
MCPrimaryPath == {"successful_refund", "confirmed_replacement"}
MCMaxRank == [p \in MCPath |-> IF p = "successful_refund" THEN 2 ELSE 1]
MCRequiredType ==
  [p \in MCPath |-> CASE p = "successful_refund" -> {"refund.succeeded"}
                      [] p = "confirmed_replacement" -> {"shipment.accepted"}
                      [] OTHER -> {}]
MCNoSequence == -1

Refund(type, state, rank, attempt, sequence, time) ==
  [type |-> type, op |-> "refund", path |-> "successful_refund", source |-> "stripe",
   state |-> state, rank |-> rank, attempt |-> attempt, sequence |-> sequence, time |-> time]

FirstFailed == Refund("refund.failed", "FAILED", 1, 1, 1, 1)
Queried     == Refund("refund.succeeded", "SUCCEEDED", 2, 1, MCNoSequence, 4)
Retried     == Refund("refund.pending", "PENDING", 3, 2, 2, 2)
Succeeded   == Refund("refund.succeeded", "SUCCEEDED", 1, 2, 3, 3)
Repeated    == Refund("refund.succeeded", "SUCCEEDED", 1, 2, 4, 4)
Reversed    == Refund("refund.reversed", "REVERSED", 1, 2, 5, 5)

Shipped ==
  [type |-> "shipment.accepted", op |-> "replacement", path |-> "confirmed_replacement",
   source |-> "carrier", state |-> "SUCCEEDED", rank |-> 1, attempt |-> 1,
   sequence |-> MCNoSequence, time |-> 2]

(* An event that names no operation is keyed by its path. *)
Unnamed == [Refund("refund.failed", "FAILED", 1, 1, 1, 1) EXCEPT !.op = "resolution:successful_refund"]

MCOperation == {"refund", "replacement", "resolution:successful_refund"}
MCEvidence == {FirstFailed, Queried, Retried, Succeeded, Repeated, Reversed, Shipped, Unnamed}

MCClaim ==
  { [path |-> "successful_refund", state |-> "PENDING"],
    [path |-> "confirmed_replacement", state |-> "ACCEPTED"],
    [path |-> "goodwill", state |-> "ACCEPTED"],
    [path |-> "NoPath", state |-> "COMPLETE"] }

(* A refund fails, the replacement that follows it ships, and the claim of *)
(* whoever called the carrier is appended when it may.                     *)
FallbackEvidence == {FirstFailed, Shipped}
FallbackClaim == {c \in MCClaim : c.path = "confirmed_replacement"}
=============================================================================
