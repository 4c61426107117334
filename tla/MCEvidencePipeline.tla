------------------------- MODULE MCEvidencePipeline -------------------------
(* Two tickets of one order, the second of which has a case that lists the  *)
(* order of another customer too, and a model that answers right or wrong   *)
(* in one or two ways; a refund that may fail and be tried again, succeed   *)
(* and be reversed; a replacement.                                          *)
EXTENDS EvidencePipeline

MCPathOfConcept ==
  [c \in {"refund", "replacement", "goodwill_credit"} |->
     CASE c = "refund" -> "successful_refund"
       [] c = "replacement" -> "confirmed_replacement"
       [] OTHER -> "authorized_goodwill"]
MCPath == {"successful_refund", "confirmed_replacement", "authorized_goodwill"}
MCPrimaryPath == {"successful_refund", "confirmed_replacement"}
MCMaxRank == [p \in MCPath |-> IF p = "successful_refund" THEN 2 ELSE 1]
MCRequiredType ==
  [p \in MCPath |-> CASE p = "successful_refund" -> {"stripe.refund.succeeded"}
                      [] p = "confirmed_replacement" -> {"carrier.shipment.accepted"}
                      [] OTHER -> {}]
MCNoSequence == -1

MCOrders ==
  << [id |-> "ORD-1", customer |-> "CUS-1", amount |-> 200],
     [id |-> "ORD-2", customer |-> "CUS-2", amount |-> 50] >>
MCCaseOf ==
  [t \in Ticket |->
     [mapped |-> TRUE, ticket |-> t,
      orders |-> IF t = "JIRA-1" THEN SubSeq(MCOrders, 1, 1) ELSE MCOrders]]
MCText == [t \in Ticket |-> "missing order"]

Ref(type, value) == [type |-> type, value |-> value]
Order1 == Ref("order_id", "ORD-1")
Order2 == Ref("order_id", "ORD-2")
Customer1 == Ref("customer_id", "CUS-1")
Customer2 == Ref("customer_id", "CUS-2")

Proper ==
  [outcome |-> "resolve_missing_order", ambiguous |-> FALSE, both |-> FALSE,
   references |-> <<Order1, Customer1>>, concepts |-> {"refund", "replacement"},
   evidence |-> {"refund_status"}, amount |-> NoAmount]

(* A proper answer, and answers that depart from one in one respect or two. *)
MCCandidate ==
  {[Proper EXCEPT !.references = r] :
     r \in { <<Order1, Customer1>>, <<Order2, Customer1>>, <<Customer1>>,
             <<Order2, Order1, Customer2, Customer1>>, <<Order2, Customer2>>,
             <<Order1, Customer1, Ref("ticket_id", "JIRA-1")>> }}
  \cup
  {[Proper EXCEPT !.amount = 200],
   [Proper EXCEPT !.amount = 200, !.references = <<Order2, Customer2>>],
   [Proper EXCEPT !.ambiguous = TRUE],
   [Proper EXCEPT !.both = TRUE],
   [Proper EXCEPT !.outcome = "close_ticket"],
   [Proper EXCEPT !.concepts = {"refund", "gift"}],
   [Proper EXCEPT !.evidence = {"rumour"}]}

Replayed(system, tool, object) ==
  [system |-> system, tool |-> tool, object |-> object, executed |-> TRUE]

MCClaim ==
  { ReplayClaim(Replayed("stripe", "create_refund", "PENDING")),
    ReplayClaim(Replayed("carrier", "create_label", "CREATED")) }

(* Events come with their numbers, but for a reversal, which may have none. *)
MCNumbering ==
  [type \in CarrierEvents \cup Supported |->
     IF type = "stripe.refund.reversed" THEN BOOLEAN ELSE {TRUE}]

MCOperation == MCPrimaryPath
MCEvidence == {}
=============================================================================
