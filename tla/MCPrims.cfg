CONSTANTS
  Width = 4
  MaxMag = 5
SPECIFICATION Spec
\* A primitive is evaluated once.
CHECK_DEADLOCK FALSE
INVARIANTS
  TypeOK
  
  PureRight
  BranchRight
