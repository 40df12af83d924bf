CONSTANTS
  Objects <- AllObjects
  MemAddrs <- Addrs
  Nowhere = Nowhere
SPECIFICATION Spec
\* A loaded object stays as it is.
CHECK_DEADLOCK FALSE
INVARIANTS
  TypeOK
  AllocFits
  SectionsApart
  StubsFit
