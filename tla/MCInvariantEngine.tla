-------------------------- MODULE MCInvariantEngine --------------------------
(* The facts of the scenarios, and some none of them has: the refund that   *)
(* fails after all, a partial refund of another intent that is corrected in *)
(* another currency, a replacement the carrier accepted, and goodwill that  *)
(* is proposed beyond its limit, without operation identity and not carried *)
(* out.                                                                     *)
EXTENDS MissingOrderFacts

Partial(version, currency) ==
  [fact("shipping", "REFUND", "PENDING", 1, "shipping", version, 8) EXCEPT !.currency = currency]

Further ==
  {Refund("refund_a", "FAILED", 2, 3),
   Partial(1, "USD"), Partial(2, "EUR"),
   [Replacement("SETTLED", 2, 4) EXCEPT !.state = "ACCEPTED"],
   [fact("second_goodwill", "GOODWILL", "PROPOSED", 2, "second", 1, 9)
      EXCEPT !.operation = NoOperation, !.executed = FALSE]}

AllFacts == scenario_facts \cup Further

MCFact == AllFacts

Evaluators == Permutations(Evaluator)
=============================================================================
