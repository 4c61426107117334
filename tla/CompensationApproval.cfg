SPECIFICATION PlanningSpec
CONSTANTS
  goodwillConflict = goodwillConflict
  refundConflict = refundConflict
  policy1 = policy1
  policy2 = policy2
  NoAction = NoAction
  NoPlan = NoPlan
  NoPolicy = NoPolicy
  NoContext = NoContext
  NoTarget = NoTarget
  Conflict = {goodwillConflict, refundConflict}
  Foreign = {}
  MaxPlans = 2
  Target <- MCTarget
  Candidate <- MCCandidate
  Policy = {policy1, policy2}
  Plan <- MCPlan
  Action <- MCAction
  ActionsOf <- MCActionsOf
  PolicyOf <- MCPolicyOf
  TargetOf <- MCTargetOf
  TierOf <- MCTierOf
  Ordinal <- MCOrdinal
  Requires <- MCRequires
  Unguarded <- MCUnguarded
  Invocation <- MCInvocation
  ActionOf <- MCActionOf
  PlanOf <- MCPlanOf
INVARIANTS
  OneEffectPerTarget
  ApprovedCallsOnly
CHECK_DEADLOCK FALSE
