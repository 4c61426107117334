CONSTANTS
  refund = refund
  replacement = replacement
  primary_compensation = primary_compensation
  NoSlot = NoSlot
  NoOperation = NoOperation
  Operation = {refund, replacement}
  Slot = {primary_compensation}
  SlotOf <- MCSlotOf
  Backend = "firestore"
  MaxAttempts = 2
SPECIFICATION Spec
INVARIANT
  OneLiveHolderPerSlot
CHECK_DEADLOCK FALSE
