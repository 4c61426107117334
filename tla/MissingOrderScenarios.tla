------------------------ MODULE MissingOrderScenarios ------------------------
(***************************************************************************)
(* The two scenarios of the repository: agents who each do what is          *)
(* legitimate leave a missing order with two refunds, a replacement and a   *)
(* credit; and a path outside the gateway has made a replacement before     *)
(* they begin.  Amounts are in units of 50 dollars.                         *)
(***************************************************************************)
EXTENDS ManagedScenario

CONSTANT never  \* a refund nobody settles

(* An action that passes the enforcement boundary.                          *)
scheduled_action(tool, time, amount) ==
  [tool |-> tool, time |-> time, amount |-> amount, inside |-> TRUE, key |-> 0,
   settleAt |-> never, outcome |-> "SUCCEEDED", timeout |-> FALSE, authorized |-> TRUE]

create_refund(time, amount, key, settleAt) ==
  [scheduled_action("create_refund", time, amount) EXCEPT !.key = key, !.settleAt = settleAt]

outside(a) == [a EXCEPT !.inside = FALSE]

opened == scheduled_action("create_ticket", 0, 0)

closed == scheduled_action("close_ticket", 200, 0)

missing_order_unmanaged ==
  <<opened, create_refund(100, 4, 1, 1000), closed,
    scheduled_action("create_label", 300, 4), scheduled_action("reserve_stock", 350, 0),
    scheduled_action("issue_credit", 400, 1), create_refund(500, 4, 2, 1050)>>

missing_order_preexisting_divergence ==
  <<opened, outside(scheduled_action("create_label", 25, 4)),
    outside(scheduled_action("reserve_stock", 30, 0)), create_refund(100, 4, 1, 1000),
    closed, scheduled_action("issue_credit", 400, 1)>>

build_scenario == {missing_order_unmanaged, missing_order_preexisting_divergence}
=============================================================================
