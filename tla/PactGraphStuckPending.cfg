SPECIFICATION Spec
CONSTANTS
  Path <- MCPath
  PrimaryPath <- MCPrimaryPath
  NoPath = "NoPath"
  Operation <- MCOperation
  Evidence <- FallbackEvidence
  Claim <- FallbackClaim
  MaxRank <- MCMaxRank
  RequiredType <- MCRequiredType
  NoEvidence = NoEvidence
  NoSequence <- MCNoSequence
CHECK_DEADLOCK FALSE
INVARIANT
  PendingMeansEvidenceMissing
