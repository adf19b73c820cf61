SPECIFICATION MirSpec
CONSTANTS
  NumIds = 3
  ByteBits = 1
  IdRange = 3
  VfIds <- ThreeVfs
  Targets <- TwoVfs
  NicRules = 2
  Dirs = {"in"}
  MaxReqs = 5
  MaxResets = 1
INVARIANTS
  IdsHeld
  RulesMatch
  CountIsRight
CHECK_DEADLOCK FALSE
