CONSTANTS
  refund = refund
  replacement = replacement
  primary_compensation = primary_compensation
  first = first
  again = again
  ship = ship
  denied = denied
  own = own
  webhook = webhook
  case_1 = case_1
  case_2 = case_2
  case_3 = case_3
  NoSlot = NoSlot
  NoOperation = NoOperation
  Operation = {refund, replacement}
  Slot = {primary_compensation}
  SlotOf <- MCSlotOf
  Request = {first, again, ship, denied, own}
  Refused = {}
  OpOf <- MCOpOf
  Source = {webhook}
  Backend = "firestore"
  MaxAttempts = 5
  Direct = {own}
  TokenOf <- MCTokenOf
  RoleOfSubject <- MCRoleOfSubject
  NoRole = NoRole
  KindOf <- MCKindOf
  RequestId <- MCRequestId
  Malformed = {}
  PathOf <- MCPathOf
  Path <- MCPath
  PrimaryPath <- MCPath
  NoPath = NoPath
  NoEvidence = NoEvidence
  NoSequence <- MCNoSequence
  MaxRank <- MCMaxRank
  RequiredType <- MCRequiredType
  RankOf <- MCRankOf
SPECIFICATION FairServiceSpec
INVARIANTS
  RepliesTruthful
  EffectsAreClaimed
  PendingHasAuthority
  SettledHoldsAuthority
PROPERTIES
  EveryCallAnswered
  PendingEvidenceResolves
CHECK_DEADLOCK FALSE
