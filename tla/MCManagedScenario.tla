--------------------------- MODULE MCManagedScenario ---------------------------
(* Every order of up to three of nine remedies, after the ticket was opened   *)
(* and closed, and the two scenarios of the repository: some remedies cross   *)
(* the boundary, some do not, one asks for more than the order, one times    *)
(* out, one uses the key of another, one is to be settled in the past.       *)
EXTENDS MissingOrderScenarios

Seqs == INSTANCE SequencesExt

MCRemedies ==
  {create_refund(100, 4, 1, 500),
   [create_refund(200, 6, 1, 300) EXCEPT !.outcome = "FAILED"],
   [create_refund(100, 4, 2, 500) EXCEPT !.timeout = TRUE],
   create_refund(300, 4, 3, 200),
   outside(create_refund(200, 4, 1, never)),
   scheduled_action("create_label", 200, 4),
   scheduled_action("reserve_stock", 300, 0),
   scheduled_action("issue_credit", 500, 1),
   [scheduled_action("issue_credit", 300, 1) EXCEPT !.authorized = FALSE]}

MCScenario ==
  build_scenario
    \cup {<<opened>> \o s : s \in {t \in Seqs!SeqOf(MCRemedies, 3) : Seqs!IsInjective(t)}}
    \cup {<<closed, a>> : a \in MCRemedies}

MCRequest ==
  {a \in MCRemedies \cup UNION {Seqs!Range(s) : s \in build_scenario} : Protected(a)}

MCOperation == {OperationOf(r) : r \in MCRequest}

MCOpOf == [r \in Request |-> OperationOf(r)]

MCSlotOf == [o \in Operation |-> SlotFor(o)]

MCRefused == {r \in MCRequest : NeedsApproval(r)}
=============================================================================
