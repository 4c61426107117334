-------------------------- MODULE MissingOrderFacts --------------------------
(***************************************************************************)
(* The economic facts of the missing order that the evaluations of the     *)
(* repository are made of, in units of 50 dollars: as three agents leave   *)
(* them without the gateway, under its protection, and when a replacement  *)
(* was made before it could be prevented.                                  *)
(***************************************************************************)
EXTENDS InvariantEngine

(* stage6_policy: what was captured, and what goodwill may come to.         *)
Captured == 4
GoodwillGranted == 1

(* A fact names the operation on its object; its date is that of its        *)
(* version, and facts of one date are told apart by their identifier, in    *)
(* whose order "order" has them.                                            *)
fact(object, kind, phase, amount, intent, version, order) ==
  [object |-> object, kind |-> kind, phase |-> phase, amount |-> amount, currency |-> "USD",
   intent |-> intent, operation |-> object, version |-> version, stamp |-> 100 * version + order,
   executed |-> TRUE, reversible |-> "unknown", preexisting |-> FALSE, state |-> phase]

Refund(object, phase, version, order) ==
  fact(object, "REFUND", phase, Captured, "missing-order-refund", version, order)

Replacement(phase, version, order) ==
  fact("replacement", "REPLACEMENT", phase, Captured, "missing-order-replacement", version, order)

Blocked(f) == [f EXCEPT !.phase = "BLOCKED", !.state = "BLOCKED", !.executed = FALSE,
                        !.stamp = f.stamp + 10]

RefundPending == Refund("refund_a", "PENDING", 1, 1)
RefundSettled == Refund("refund_a", "SETTLED", 1, 2)
SecondRefund == Refund("refund_b", "PENDING", 1, 3)
GoodwillSettled ==
  fact("goodwill", "GOODWILL", "SETTLED", GoodwillGranted, "delay-goodwill", 1, 4)
Shipped == [Replacement("PROPOSED", 1, 5) EXCEPT !.reversible = "no"]
Undoable == [Replacement("PROPOSED", 1, 6) EXCEPT !.reversible = "yes", !.preexisting = TRUE]

unmanaged_facts == {RefundPending, Shipped, GoodwillSettled, SecondRefund}

protected_facts(settled) ==
  {IF settled THEN RefundSettled ELSE RefundPending, GoodwillSettled,
   Blocked(Replacement("PROPOSED", 1, 7)), Blocked(SecondRefund)}

preexisting_divergence_facts == {RefundPending, Undoable, GoodwillSettled}

(* What the recovery of a diverged pact adds to its facts.                  *)
recovery_facts ==
  {[Undoable EXCEPT !.phase = "REVERSED", !.version = 2, !.stamp = 201, !.state = "CANCELLED_RELEASED"],
   [RefundPending EXCEPT !.phase = "SETTLED", !.version = 2, !.stamp = 202]}

scenario_facts ==
  unmanaged_facts \cup protected_facts(FALSE) \cup protected_facts(TRUE)
    \cup preexisting_divergence_facts \cup recovery_facts
=============================================================================
