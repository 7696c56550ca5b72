CONSTANTS
  SyncValues <- TwoValues
  Versions <- SomeVersions
  Backlog = 2
  PortCapacity = 2
SPECIFICATION FairSpec
INVARIANTS
  TypeOK
  OkIsInStep
  SyncMeansInStep
  SettlesFast
  OkMeansReady
PROPERTIES
  EndsByDeadline
  EndsWithoutDeadline
