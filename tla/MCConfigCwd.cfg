CONSTANTS
  Inputs <- PlainFile
  Names <- SomeNames
  TempDir <- Tmp
  Cwd <- Start
  Home <- MyHome
SPECIFICATION Spec
INVARIANTS
  CwdPreserved
