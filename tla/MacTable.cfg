SPECIFICATION MacSpec
CONSTANTS
  VfIds = {0, 1}
  m1 = m1
  m2 = m2
  m3 = m3
  Macs = {m1, m2, m3}
  NoMac = NoMac
  MaxVfMacs = 4
  MaxPfMacs = 3
  Files <- FewFiles
INVARIANTS
  MacTypeOK
  NothingLeaks
  WhiteIsListed
  UniqueUntilPush
