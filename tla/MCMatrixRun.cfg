CONSTANTS
  TargetCounts <- Counts
  Codes <- ExitCodes
SPECIFICATION Spec
INVARIANTS
  TypeOK
  ZeroMeansAllPassed
