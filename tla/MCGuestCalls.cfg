CONSTANTS
  Shares = 2
  Codes <- ExitCodes
  MountFailure = 32
  Tries = 5
SPECIFICATION FairSpec
INVARIANTS
  TypeOK
  NothingStale
  SharesReady
  RetriesBounded
PROPERTIES
  GivesUpLate
  TimedCallsEnd
