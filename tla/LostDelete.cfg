SPECIFICATION Spec
CONSTANTS
  NSlots = 2
  VfIds <- TwoVfs
  HighVf = 1
  c1 = c1
  c2 = c2
  NoCfg = NoCfg
  Cfgs = {c1}
  Requests = {"del"}
  Events = {"negotiate"}
  BootSizes = {2}
  MaxReqs = 1
  MaxBoth = 1
  MaxEvents = 1
INVARIANTS
  DeleteIsFinal
