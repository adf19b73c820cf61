SPECIFICATION NicSpec
CONSTANTS
  VfIds = {0, 1}
  Configs <- MCConfigs
  NoCfg = NoCfg
  Speeds = {0, 1000, 10000}
  Losses <- MCLosses
  MaxReqs = 4
  MaxEvents = 3
INVARIANTS
  AsConfigured
  LimitsFollowLink
  NothingLeft
  GuestKeepsBounds
\* The bounds stop the model.
CHECK_DEADLOCK FALSE
