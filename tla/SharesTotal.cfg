CONSTANTS
  Configs <- MCConfigs
  Ports <- MCPorts
  FallsBelow <- MCFallsBelow
  EndsAbove <- MCEndsAbove
  Nvfs = 3
  MaxVlans = 4
  MaxQueues = 24
  Mtu = 9000
  LinkSpeed = 10000
SPECIFICATION Spec
INVARIANT SharesTotal100
