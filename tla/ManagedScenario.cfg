CONSTANTS
  never = never
  NoTime = never
  Idle = Idle
  NoSlot = NoSlot
  NoOperation = NoOperation
  Scenario <- MCScenario
  ContradictionTime = 500
  OriginalValue = 4
  GoodwillLimit = 1
  Operation <- MCOperation
  Slot = {"primary_compensation", "goodwill"}
  SlotOf <- MCSlotOf
  Request <- MCRequest
  Refused <- MCRefused
  OpOf <- MCOpOf
  Source = {}
  Backend = "memory"
  MaxAttempts = 20
SPECIFICATION ManagedSpec
INVARIANTS
  BooksMatchServices
  OnePrimaryRemedy
  ExposureContained
  ReservationsMatchServices
  CheckpointStands
PROPERTIES
  SettlementsArrive
  KeepsOutcomeAuthority
CHECK_DEADLOCK FALSE
