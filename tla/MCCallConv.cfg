CONSTANTS
  Params <- SomeParams
  MaxSteps = 4
SPECIFICATION Spec
\* The model ends after MaxSteps, with raise_overflow, or where no code is made.
CHECK_DEADLOCK FALSE
INVARIANTS
  TypeOK
  Arrives
  InPlace
  AssertionsExact
