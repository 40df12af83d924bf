CONSTANTS
  Units <- AllUnits
  BadTag = 255
SPECIFICATION Spec
\* The program ends with the unit read, or with an error message.
CHECK_DEADLOCK FALSE
INVARIANTS
  TypeOK
  InStep
  ReadBack
