CONSTANTS
  refund = refund
  replacement = replacement
  primary_compensation = primary_compensation
  refund1 = refund1
  refund2 = refund2
  refund3 = refund3
  replacement1 = replacement1
  replacement2 = replacement2
  refused = refused
  webhook = webhook
  query = query
  NoSlot = NoSlot
  NoOperation = NoOperation
  Operation = {refund, replacement}
  Slot = {primary_compensation}
  SlotOf <- MCSlotOf
  Request = {refund1, refund2, refund3, replacement1, refused}
  Refused = {refused}
  OpOf <- MCOpOf
  Source = {webhook, query}
  Backend = "firestore"
  MaxAttempts = 5
SPECIFICATION GatewaySpec
SYMMETRY SameOperation
INVARIANTS
  ExclusiveUnlessOvertaken
  ExecutorOwnsAuthority
  NoDuplicateEffect
  OneEffectPerSlot
PROPERTIES
  KeepsAuthorityWhileOrderly
CHECK_DEADLOCK FALSE
