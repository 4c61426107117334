SPECIFICATION Spec
CONSTANTS
  Fact <- MCFact
  MaxFacts = 3
  CapturedValue = 4
  RefundException = 0
  GoodwillLimit = 1
  DualCompensation = FALSE
  Currency = "USD"
  RuleVersion = "1"
  Evaluator = {evaluator1, evaluator2}
  NoOperation = "none"
  Nothing = Nothing
SYMMETRY Evaluators
INVARIANTS
  CurrentIsLatest
  OpenConflictsAgree
  SettledIsSound
  ExposureBounded
CHECK_DEADLOCK FALSE
