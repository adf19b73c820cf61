SPECIFICATION MCSpec
CONSTANTS
  NSlots = 2
  VfIds <- ThreeVfs
  HighVf = 1
  c1 = c1
  c2 = c2
  NoCfg = NoCfg
  Cfgs = {c1, c2}
  Requests = {"add", "del"}
  Events = {"reset", "negotiate", "link"}
  BootSizes = {1}
  MaxReqs = 4
  MaxBoth = 2
  MaxEvents = 2
INVARIANTS
  TypeOK
  UniqueVfs
  FlagsSettled
  OneUpdater
PROPERTIES
  ImplementsRegistry
  RequestsAnswered
