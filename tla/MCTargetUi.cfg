CONSTANTS
  Targets = 2
  Window = 2
  Heights <- SomeHeights
  ErrorSizes <- SomeErrors
  MaxLines = 3
SPECIFICATION Spec
INVARIANTS
  TypeOK
  ScreenShowsRun
  PassLeavesTwoRows
  FailureShownWhole
  EarlierRowsStay
