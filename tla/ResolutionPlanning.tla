-------------------------- MODULE ResolutionPlanning --------------------------
(***************************************************************************)
(* From a conflict to a validated plan.  The targets a pact's compensations *)
(* could be aimed at are read into a context, a resolver (a model, or a     *)
(* fixture) proposes whatever it likes, and the validator accepts of it     *)
(* only what the registry, the open conflicts and the context allow.  What  *)
(* it accepts is carried out as Compensation says, whatever has become of   *)
(* conflicts and targets meanwhile.                                         *)
(*                                                                          *)
(* Abstracted: a plan is the identity its plan_id is hashed from, an action *)
(* that of its semantic_operation_key; the texts a context carries and a    *)
(* proposal returns.  A proposal that fails its schema, screening, or the   *)
(* provider is no step.                                                     *)
(***************************************************************************)
EXTENDS Compensation, FiniteSets, Sequences, Functions

CONSTANTS
  Conflict,    \* conflict ids the invariant engine may open for the pact
  Foreign,     \* targets that belong to another pact
  Candidate,   \* plans a resolver may propose
  NoContext,
  NoTarget,
  MaxPlans     \* bound on the plans of a pact

(* The registry of compensations; after is the compensation whose execution *)
(* in the same plan must be confirmed first.                                *)
Registry ==
  [carrier_cancel_unaccepted_label |->
     [system |-> "carrier", tier |-> "AUTOMATIC", order |-> 10, after |-> {}],
   warehouse_release_reserved_stock |->
     [system |-> "warehouse", tier |-> "AUTOMATIC", order |-> 20,
      after |-> {"carrier_cancel_unaccepted_label"}],
   jira_reopen_without_settlement |->
     [system |-> "jira", tier |-> "AUTOMATIC", order |-> 30, after |-> {}],
   crm_reverse_unused_goodwill |->
     [system |-> "crm", tier |-> "HUMAN_APPROVAL_REQUIRED", order |-> 40, after |-> {}],
   stripe_settled_refund_no_automatic |->
     [system |-> "stripe", tier |-> "HUMAN_REVIEW_ONLY", order |-> 50, after |-> {}]]

Definition == DOMAIN Registry

Tier(d) == Registry[d].tier

(* What the schema of a proposal lets through.                              *)
CandidatePlan ==
  [ours : BOOLEAN, conflicts : SUBSET Conflict, selection : Seq(Definition), attention : BOOLEAN]

ASSUME PlanningAssumption ==
  /\ Foreign \subseteq Target
  /\ Candidate \subseteq CandidatePlan
  /\ NoTarget \notin Target
  /\ MaxPlans \in Nat

VARIABLES
  context,   \* targets the context shows in an eligible state
  planned    \* plans the validator let through

planning == <<context, planned>>
planningVars == <<vars, planning>>

-----------------------------------------------------------------------------
(* Targets are [system, id]; a definition is bound to the first of its      *)
(* system, whatever state it is in.                                         *)
TargetFor(d) ==
  LET matching == {x \in Target : x.system = Registry[d].system}
  IN  IF matching = {} THEN NoTarget
      ELSE CHOOSE x \in matching : \A y \in matching : x.id <= y.id

Available == {d \in Definition : TargetFor(d) # NoTarget}

OperationKey(d, conflicts) ==
  [definition |-> d, conflicts |-> conflicts, target |-> TargetFor(d)]

(* The selection is hashed in the order of the proposal: a reordered one is *)
(* another plan with the same actions.                                      *)
PlanId(c, policy) ==
  [conflicts |-> c.conflicts, selection |-> c.selection, policy |-> policy]

BoundActions(p) ==
  {OperationKey(d, p.conflicts) : d \in Range(p.selection) \cap Available}

(* What Compensation is told of plans and actions.                          *)
PlanIds == {PlanId(c, policy) : c \in Candidate, policy \in Policy}

OperationKeys ==
  {OperationKey(d, conflicts) : d \in Available, conflicts \in {c.conflicts : c \in Candidate}}

BoundBy == [p \in Plan |-> BoundActions(p)]

ValidatedUnder == [p \in Plan |-> p.policy]

RegistryTier == [a \in Action |-> Tier(a.definition)]

MandatoryOrder == [a \in Action |-> Registry[a.definition].order]

BoundTarget == [a \in Action |-> a.target]

Tickets == {a \in Action : Registry[a.definition].system = "jira"}

ConfirmedFirst ==
  [a \in Action |->
     LET cancellations == {OperationKey(d, a.conflicts) : d \in Registry[a.definition].after}
     IN  IF cancellations = {} THEN NoAction ELSE CHOOSE b \in cancellations : TRUE]

ASSUME PlannedCompensations ==
  /\ Plan = PlanIds /\ Action = OperationKeys
  /\ ActionsOf = BoundBy /\ PolicyOf = ValidatedUnder /\ TargetOf = BoundTarget
  /\ TierOf = RegistryTier /\ Ordinal = MandatoryOrder
  /\ Requires = ConfirmedFirst /\ Unguarded = Tickets

-----------------------------------------------------------------------------
(* Why the validator rejects a candidate.  Only a settled refund, which is  *)
(* left to humans, is not asked for the state of its target.                *)
Rejected(c, open) ==
  LET selected == Range(c.selection) IN
  \/ ~c.ours
  \/ c.conflicts = {} \/ ~(c.conflicts \subseteq open)
  \/ c.selection = <<>> \/ ~IsInjective(c.selection)
  \/ ~(selected \subseteq Available)
  \/ Len(c.selection) > 1 /\ \E d \in selected : Tier(d) = "HUMAN_REVIEW_ONLY"
  \/ ~c.attention /\ \E d \in selected : Tier(d) = "HUMAN_APPROVAL_REQUIRED"
  \/ \E d \in selected :
       \/ TargetFor(d) \in Foreign
       \/ Tier(d) # "HUMAN_REVIEW_ONLY" /\ TargetFor(d) \notin context

PlanningInit ==
  /\ Init
  /\ context = NoContext
  /\ planned = {}

BuildContext ==
  /\ context' = {x \in Target : target[x] = "eligible"}
  /\ UNCHANGED <<vars, planned>>

(* A candidate is validated against the conflicts that are open by then and *)
(* the targets as the context has them; a rejected one binds no action.     *)
Validate(c, policy, open) ==
  /\ context # NoContext
  /\ Cardinality(planned) < MaxPlans
  /\ ~Rejected(c, open)
  /\ planned' = planned \cup {PlanId(c, policy)}
  /\ UNCHANGED <<vars, context>>

PlanningNext ==
  \/ BuildContext
  \/ \E c \in Candidate, policy \in Policy, open \in SUBSET Conflict : Validate(c, policy, open)
  \/ /\ \/ \E p \in planned, a \in Action : Reserve(p, a) \/ RequestApproval(p, a)
        \/ \E i \in Invocation : PlanOf[i] \in planned /\ (ExecuteStep(i) \/ Abort(i))
        \/ Surroundings
     /\ UNCHANGED planning

PlanningSpec == PlanningInit /\ [][PlanningNext]_planningVars
=============================================================================
