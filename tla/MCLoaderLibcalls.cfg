CONSTANTS
  Objects <- WithLibcalls
  MemAddrs <- Addrs
  Nowhere = Nowhere
SPECIFICATION Spec
\* A loaded object stays as it is.
CHECK_DEADLOCK FALSE
INVARIANT
  AllAllocFit
