CONSTANTS
  Width = 3
  MaxMag = 5
SPECIFICATION Spec
\* A primitive is evaluated once.
CHECK_DEADLOCK FALSE
INVARIANT
  UnorderedIsIEEE
