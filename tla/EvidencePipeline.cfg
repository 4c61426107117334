SPECIFICATION PipelineSpec
CONSTANTS
  Ticket = {"JIRA-1", "JIRA-2"}
  Text <- MCText
  Screened = {"JIRA-2"}
  CaseOf <- MCCaseOf
  Candidate <- MCCandidate
  NoOrder = NoOrder
  NoAmount = NoAmount
  NoDraft = NoDraft
  NoPact = NoPact
  PathOfConcept <- MCPathOfConcept
  AllowedPath <- MCPath
  EvidenceConcept = {"refund_status", "shipment_status", "goodwill_status"}
  Path <- MCPath
  PrimaryPath <- MCPrimaryPath
  NoPath = "NoPath"
  Operation <- MCOperation
  Evidence <- MCEvidence
  Claim <- MCClaim
  MaxRank <- MCMaxRank
  RequiredType <- MCRequiredType
  NoEvidence = NoEvidence
  NoSequence <- MCNoSequence
  Order = "ORD-1"
  MaxAttempt = 2
  MaxHappened = 4
  MaxAnswers = 1
  CarrierEvents = {"carrier.shipment.accepted"}
  Numbering <- MCNumbering
INVARIANTS
  EveryDraftActivates
  SettlementIsEvidenced
  SettledMeansPaid
  CaughtUpIsTrue
  FactsCountedOnce
  ReactivatedStaysOpen
PROPERTY
  SettlementStands
CHECK_DEADLOCK FALSE
