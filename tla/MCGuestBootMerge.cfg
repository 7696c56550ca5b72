CONSTANTS
  SyncValues <- TwoValues
  Versions <- SomeVersions
  Backlog = 2
  PortCapacity = 2
SPECIFICATION Spec
INVARIANT MergesIfSupported
