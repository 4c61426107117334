SPECIFICATION FairReceiptsSpec
CONSTANTS
  Path <- MCPath
  PrimaryPath <- MCPrimaryPath
  NoPath = "NoPath"
  Operation <- MCOperation
  Evidence <- ReceiptEvidence
  Claim <- ReceiptClaim
  MaxRank <- MCMaxRank
  RequiredType <- MCRequiredType
  NoEvidence = NoEvidence
  NoSequence <- MCNoSequence
  Payload = {decision}
  NoPayload = NoPayload
  GivenPayload <- ReceiptGiven
  Issuer = {run1, run2}
  MaxCheckpoints = 2
  Nothing = Nothing
CHECK_DEADLOCK FALSE
INVARIANTS
  ChainUnforked
  IssuedReceiptsVerify
  LiveProofHolds
  VerifiedListAgrees
PROPERTY
  SettlesEventually
