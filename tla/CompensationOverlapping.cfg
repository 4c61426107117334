SPECIFICATION Spec
CONSTANTS
  carrier = carrier
  warehouse = warehouse
  crm = crm
  jira = jira
  recovery = recovery
  goodwill = goodwill
  review = review
  policy1 = policy1
  cancel1 = cancel1
  cancel2 = cancel2
  release1 = release1
  reverse1 = reverse1
  reopen1 = reopen1
  reopen2 = reopen2
  NoAction = NoAction
  NoPlan = NoPlan
  NoPolicy = NoPolicy
  Action = {jira}
  Plan = {review}
  Invocation = {reopen1, reopen2}
  Policy = {policy1}
  Target <- MCTarget
  TargetOf <- MCTargetOf
  ActionsOf <- MCActionsOf
  PolicyOf <- MCPolicyOf
  TierOf <- MCTierOf
  Ordinal <- MCOrdinal
  Requires <- MCRequires
  Unguarded <- MCUnguarded
  ActionOf <- MCActionOf
  PlanOf <- MCPlanOf
INVARIANT
  OneCallPerCompensation
CHECK_DEADLOCK FALSE
