CONSTANTS
  WordSz = 8
  Slop = 64
  Areas <- TwoAreas
  Amounts = {48, 64, 80}
  RecordLens = {1, 2}
  RawFields <- Fields
  RawAllocs <- Raws
  Cells = {8, 16}
  MaxGC = 1
SPECIFICATION Spec
\* The code may use up what it asked for, and the collections.
CHECK_DEADLOCK FALSE
INVARIANT
  AllBelowLimit
