CONSTANTS
  Targets <- BareTargets
  Codes <- OneCode
  MaxBootLines = 1
  MaxCmdLines = 0
SPECIFICATION FairSpec
PROPERTIES
  EndOfQemuEndsRun
  NeverStuckElsewhere
