CONSTANTS
  Targets <- KernelTargets
  Codes <- ExitCodes
  MaxBootLines = 1
  MaxCmdLines = 2
SPECIFICATION Spec
INVARIANTS
  TypeOK
  NothingLeftBehind
  GuestFindsInit
  NoInitOnceCommandRuns
  VerdictIsRight
  LinesFollowStart
  NoLineLost
PROPERTIES
  FollowsProtocol
  PatientCommand
