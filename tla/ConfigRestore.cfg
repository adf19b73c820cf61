SPECIFICATION FairSpec
CONSTANTS
  NSlots = 2
  VfIds <- TwoVfs
  HighVf = 1
  c1 = c1
  c2 = c2
  NoCfg = NoCfg
  Cfgs = {c1}
  Requests = {}
  Events = {"reset", "negotiate", "lpe", "link"}
  BootSizes = {1, 2}
  MaxReqs = 0
  MaxBoth = 0
  MaxEvents = 3
INVARIANTS
  ManagedIsProgrammed
PROPERTIES
  PopMeansProgrammed
  LossIsRepaired
