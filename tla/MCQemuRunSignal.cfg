CONSTANTS
  Targets <- ImageOnly
  Codes <- ExitCodes
  MaxBootLines = 1
  MaxCmdLines = 1
SPECIFICATION Spec
INVARIANT
  SignalIsNoPass
