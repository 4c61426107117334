------------------------------ MODULE MCGateway ------------------------------
(* Three requests of one refund, retried after failures, and one or two of  *)
(* the replacement that competes with it for primary_compensation; one      *)
(* request policy refuses.                                                  *)
EXTENDS Gateway, TLC

CONSTANTS refund, replacement, primary_compensation, refund1, refund2, refund3,
          replacement1, replacement2, refused, webhook, query

MCSlotOf == [o \in Operation |-> primary_compensation]

MCOpOf ==
  [r \in Request |-> IF r \in {replacement1, replacement2} THEN replacement ELSE refund]

SameOperation ==
  Permutations({refund1, refund2, refund3} \cap Request)
    \cup Permutations({replacement1, replacement2} \cap Request)
=============================================================================
