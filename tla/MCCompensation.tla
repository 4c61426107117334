---------------------------- MODULE MCCompensation ----------------------------
(* The registry's compensations of a missing-order pact: cancel the label,  *)
(* then release the stock; a credit, which a human has to approve; and a    *)
(* ticket, which Jira reopens whatever state it is in.                      *)
EXTENDS Compensation, TLC

CONSTANTS carrier, warehouse, crm, jira, recovery, goodwill, review, policy1,
          cancel1, cancel2, release1, reverse1, reopen1, reopen2

MCTarget == Action

MCTargetOf == [a \in Action |-> a]

MCActionsOf ==
  [p \in Plan |-> CASE p = recovery -> {carrier, warehouse}
                    [] p = review   -> {jira}
                    [] OTHER        -> {crm}]

MCPolicyOf == [p \in Plan |-> policy1]

MCTierOf ==
  [a \in Action |-> IF a = crm THEN "HUMAN_APPROVAL_REQUIRED" ELSE "AUTOMATIC"]

MCOrdinal ==
  [a \in Action |-> CASE a = carrier -> 10 [] a = warehouse -> 20
                     [] a = jira    -> 30 [] OTHER         -> 40]

MCRequires == [a \in Action |-> IF a = warehouse THEN carrier ELSE NoAction]

MCUnguarded == {jira} \cap Action

MCActionOf ==
  [i \in Invocation |-> CASE i \in {cancel1, cancel2} -> carrier
                          [] i = release1 -> warehouse
                          [] i = reverse1 -> crm
                          [] OTHER        -> jira]

MCPlanOf ==
  [i \in Invocation |-> CASE i \in {cancel1, cancel2, release1} -> recovery
                          [] i = reverse1 -> goodwill
                          [] OTHER        -> review]

(* Both executors of the cancellation are alike.                            *)
ExecutorSymmetry == Permutations({cancel1, cancel2})
=============================================================================
