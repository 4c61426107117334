------------------------------- MODULE MCService -------------------------------
(* Support asks for a refund and, under the same request_id, once more; the   *)
(* replacement of fulfilment competes with it; retention asks for a refund it *)
(* may not have; a caller of its own times out on the same refund.            *)
EXTENDS Service, Integers

CONSTANTS refund, replacement, primary_compensation, first, again, ship, denied, own,
          webhook, case_1, case_2, case_3

MCSlotOf == [o \in Operation |-> primary_compensation]

MCOpOf == [r \in Request |-> IF r = ship THEN replacement ELSE refund]

MCRoleOfSubject ==
  [subject \in {"subject_a", "subject_b", "subject_c"} |->
     CASE subject = "subject_a" -> "SUPPORT" [] subject = "subject_b" -> "FULFILLMENT"
       [] OTHER -> "RETENTION"]

MCTokenOf ==
  [r \in Request \ Direct |->
     [valid |-> TRUE, subject |-> CASE r = ship -> "subject_b" [] r = denied -> "subject_c"
                                    [] OTHER -> "subject_a"]]

MCKindOf == [r \in Request \ Direct |-> IF r = ship THEN "replacement" ELSE "refund"]

MCRequestId ==
  [r \in Request \ Direct |-> CASE r = ship -> case_2 [] r = denied -> case_3 [] OTHER -> case_1]

MCPathOf ==
  [o \in Operation |-> IF o = refund THEN "successful_refund" ELSE "confirmed_replacement"]

MCPath == {"successful_refund", "confirmed_replacement"}
MCNoSequence == -1
MCMaxRank == [p \in MCPath |-> 2]
MCRequiredType == [p \in MCPath |-> {"success"}]
MCRankOf == [s \in Source |-> IF s = webhook THEN 1 ELSE 2]
=============================================================================
