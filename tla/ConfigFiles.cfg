SPECIFICATION FilesSpec
CONSTANTS
  VfIds = {0, 1}
  o1 = o1
  o2 = o2
  Owners = {o1, o2}
  fa = fa
  fb = fb
  fc = fc
  Names = {fa, fb, fc}
  VfsOf <- OwnNames
  NoFile = NoFile
  Broken = Broken
  NoOwner = NoOwner
  Paths <- PlainPaths
  Outcomes = {"ok"}
  MaxDrops = 4
  MaxCrashes = 2
INVARIANTS
  AnswerSurvives
  NeverLost
  LiveMatchesTable
