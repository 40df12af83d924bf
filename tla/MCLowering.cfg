CONSTANTS
  Node <- MCNode
  Var <- MCVar
  Lab <- MCLab
  NoLab = NoLab
  Programs <- MCPrograms
  Targets <- MCTargets
  NoVal = NoVal
  NoBlock = NoBlock
  NoNode = NoNode
  Undef = Undef
  Outside = Outside
  MaxGroups = 10
SPECIFICATION LSpec
INVARIANTS
  TypeOK
  RegsFollowProgram
  LookupsSucceed
  DefsDominateUses
  PhisMatchPreds
  OneTerminator
  StaysInFunction
PROPERTIES
  Implements
  Completes
CHECK_DEADLOCK FALSE
