CONSTANTS
  ByteBits = 4
  DigitBits = 8
  IntBits = 16
  Pickles <- Singles
  None = None
SPECIFICATION Spec
\* A pickle is read once.
CHECK_DEADLOCK FALSE
INVARIANTS
  TypeOK
  ReadsAsWritten
  LiteralsRight
PROPERTY
  Ends
