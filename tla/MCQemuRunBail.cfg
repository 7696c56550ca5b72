CONSTANTS
  Targets <- ImageOnly
  Codes <- ExitCodes
  MaxBootLines = 1
  MaxCmdLines = 1
SPECIFICATION FairSpec
PROPERTY
  BailCleansUpChild
