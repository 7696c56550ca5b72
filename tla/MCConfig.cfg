CONSTANTS
  Inputs <- AllInputs
  Names <- SomeNames
  TempDir <- Tmp
  Cwd <- Start
  Home <- MyHome
SPECIFICATION Spec
INVARIANTS
  TypeOK
  ValidationPreventsPanic
  OptionsTakeEffect
  PathsFromConfigDir
  GuestInitIsHostInit
  MountsHaveExports
