\* Later units find the addresses and the caches that earlier ones left.
CONSTANTS
  Name = {x86, arm, bad}
  Target = {x86, arm}
  Addr = {a1, a2, a3, a4}
  Lab = {l1, l2}
  Intrin = {i1}
  MaxUnits = 3
  None = None
SPECIFICATION Spec
INVARIANTS
  TypeOK
  UsesLiveObjects
  SPAccessTogether
  ResultsOfTarget
