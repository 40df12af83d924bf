CONSTANTS
  Chunks <- MCChunks
  Blocks <- MCBlocks
  MaxBytes = 6
SPECIFICATION Spec
INVARIANT TypeOK
PROPERTY Implements
CHECK_DEADLOCK FALSE
