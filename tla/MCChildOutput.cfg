CONSTANTS
  PipeSize = 2
  StderrSize = 1
  MaxText = 5
  MaxStderr = 2
SPECIFICATION FairSpec
INVARIANTS
  TypeOK
  EveryLineOnce
PROPERTIES
  OnlyStderrBlocks
