----------------------------- MODULE MCResolution -----------------------------
(* One credit, which two sets of conflicts and two policy versions lead to, *)
(* a settled refund, and proposals the validator has reason to reject.  The *)
(* revised policy is only executed for the goodwill conflict.               *)
EXTENDS ResolutionPlanning

CONSTANTS goodwillConflict, refundConflict, policy1, policy2

Credit == "crm_reverse_unused_goodwill"

Refund == "stripe_settled_refund_no_automatic"

Both == {goodwillConflict, refundConflict}

Objects == {[system |-> "crm", id |-> 1], [system |-> "stripe", id |-> 1]}

Proposal(conflicts, selection, attention) ==
  [ours |-> TRUE, conflicts |-> conflicts, selection |-> selection, attention |-> attention]

Proposals ==
  {Proposal({goodwillConflict}, <<Credit>>, TRUE),
   Proposal({goodwillConflict}, <<Credit>>, FALSE),
   Proposal(Both, <<Credit>>, TRUE),
   Proposal(Both, <<Refund>>, TRUE),
   Proposal(Both, <<Credit, Refund>>, TRUE)}

Executed ==
  {p \in Plan : /\ p.selection \in {<<Credit>>, <<Refund>>}
                /\ p.policy = policy2 => p.conflicts = {goodwillConflict}}

Executions == UNION {{[plan |-> p, action |-> a] : a \in ActionsOf[p]} : p \in Executed}

ActionOfExecution == [i \in Invocation |-> i.action]

PlanOfExecution == [i \in Invocation |-> i.plan]

(* The values of the constants; TLC evaluates what they name only once.     *)
MCTarget == Objects
MCCandidate == Proposals
MCPlan == PlanIds
MCAction == OperationKeys
MCActionsOf == BoundBy
MCPolicyOf == ValidatedUnder
MCTargetOf == BoundTarget
MCTierOf == RegistryTier
MCOrdinal == MandatoryOrder
MCRequires == ConfirmedFirst
MCUnguarded == Tickets
MCInvocation == Executions
MCActionOf == ActionOfExecution
MCPlanOf == PlanOfExecution
=============================================================================
